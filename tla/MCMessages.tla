------------------------------ MODULE MCMessages -------------------------------
(***************************************************************************)
(* Small instances of Messages for TLC.  Channels 1 and 2 belong to        *)
(* organization 1 as a whole; actor 1 owns it.                             *)
(***************************************************************************)
EXTENDS MCTenancy, Posting

OrganizationChannels ==
    1 :> [org |-> 1, team |-> 0, name |-> 1] @@ 2 :> [org |-> 1, team |-> 0, name |-> 2]

MessageDatabase(status) ==
    Database(<<1, 1>> :> Row("owner", "active") @@ <<1, 2>> :> Row("member", status),
             None, {}, OrganizationChannels, {})

Conversation == { MessageDatabase("active") }

\* An empty channel, or one with a page of messages: 3 of actor 2, then 4 of actor 1.
Nothing == [i \in MessageIds |-> NoMessage]
Begun ==
    { Nothing, [Nothing EXCEPT ![3] = [channel |-> 1, seq |-> 1, sender |-> 2],
                               ![4] = [channel |-> 1, seq |-> 2, sender |-> 1]] }

\* Message 1 by two senders and in two channels, message 2, a retry of 3, no body.
PostCalls ==
    { post_message(2, 1, 1, 1, TRUE), post_message(1, 1, 1, 1, TRUE),
      post_message(2, 1, 2, 1, TRUE), post_message(1, 1, 1, 2, TRUE),
      post_message(2, 1, 1, 3, TRUE), post_message(1, 1, 1, 2, FALSE) }

\* Limits of 0, 1 and more than a page.
ReadCalls ==
    { messages_after(2, 1, 1, 0, 0), messages_after(1, 1, 1, 1, 9),
      messages_before(1, 1, 1, 0, 9), messages_before(2, 1, 1, 2, 1) }

MessageCalls == PostCalls \cup ReadCalls

SenderCalls == { suspend_member(1, 1, 2), leave_service(2) }

\* The sender of a post leaves: the foreign keys and the departure in a circle.
PostOnce == { post_message(2, 1, 1, 1, TRUE) }
Empty == { Nothing }
===============================================================================
