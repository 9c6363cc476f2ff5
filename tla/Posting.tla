-------------------------------- MODULE Posting --------------------------------
(***************************************************************************)
(* Why a channel's numbers have no gap and posts are answered truly: the   *)
(* inductive invariant behind NumbersHaveNoGap and PostsAreAnsweredTruly.  *)
(* A post that has counted holds its channel, one that found its           *)
(* identifier free holds the key; until their transaction ends nobody else *)
(* counts in the one or inserts under the other.                           *)
(***************************************************************************)
EXTENDS OwnerRule, Messages

MessagesShaped ==
    message \in [MessageIds -> MessageRows] /\ next_message_seq \in [Channels -> Nat]

PostPoints == {"begin", "post_count", "post_insert", "post_organization", "post_sender",
               "post_lookup", "done"}
Posting(t) == call[t].op = "post_message"

\* A post is at a point of post_message; tenant operations know nothing of it.
PostingCourse ==
    \A t \in Tx :
        Posting(t) => call[t] \in PostingCalls /\ pc[t] \in PostPoints

\* Uuid::now_v7: a channel that is being created is not there, and is created once.
ChannelFresh ==
    \A t \in Tx :
        call[t].op = "create_channel" =>
            /\ \A u \in Tx : u # t /\ call[u].op = "create_channel"
                                 => call[u].channel # call[t].channel
            /\ pc[t] # "done" => channel[call[t].channel].org = 0

\* From UPDATE channels to the end of its transaction a post is its channel's only one.
CountHeld ==
    \A t \in Tx :
        LET c == call[t]
        IN Posting(t) =>
               /\ pc[t] = "post_count" => Claims(t, ChannelRow(c.channel), NoKeyUpdate)
               /\ pc[t] \in {"post_insert", "post_organization", "post_sender"} =>
                      /\ held[t][ChannelRow(c.channel)] >= NoKeyUpdate
                      /\ loc[t].seq = next_message_seq[c.channel] + 1

\* From the insert on it is its identifier's, which stays as it was found.
KeyHeld ==
    \A t \in Tx :
        LET c == call[t]
        IN Posting(t) =>
               /\ pc[t] = "post_insert" => Claims(t, MessageKey(c.id), Update)
               /\ pc[t] \in {"post_organization", "post_sender"} =>
                      held[t][MessageKey(c.id)] >= Update /\ message[c.id] = NoMessage
               /\ pc[t] = "post_lookup" => message[c.id] # NoMessage

\* The channel a post has seen in its organization stays there.
ChannelSeen ==
    \A t \in Tx :
        Posting(t) /\ pc[t] \notin {"begin", "done"}
            => channel[call[t].channel].org = call[t].org

PostingInvariant ==
    /\ Shaped /\ LocksExclude /\ MessagesShaped
    /\ DOMAIN channel = Channels
    /\ PostingCourse /\ ChannelFresh /\ CountHeld /\ KeyHeld /\ ChannelSeen
    /\ NumbersHaveNoGap
===============================================================================
