------------------------------- MODULE Messages -------------------------------
(***************************************************************************)
(* messages.rs beside the operations of a tenant.  post_message takes the  *)
(* next number of its channel under the channel's row lock and inserts the *)
(* message under an identifier the client chose; a retry finds it taken,   *)
(* gives the number back and answers from a second transaction.  It locks  *)
(* neither its actor nor the organization itself: the foreign keys of the  *)
(* insert do, the organization first.  Readers page through a channel by   *)
(* its numbers.                                                            *)
(***************************************************************************)
EXTENDS Tenancy, Sequences, FiniteSets

LOCAL INSTANCE SequencesExt

CONSTANTS
    Posts,              \* the calls of message operations a run may make
    InitialMessages,    \* the messages a run may start with
    MaxPage             \* the most messages a page has (200 in the code)

VARIABLES
    message,            \* messages: channel, channel_seq and sender of each id
    next_message_seq,   \* channels.next_message_seq
    page                \* what the reader that ran as t got

mvars == <<message, next_message_seq, page>>
messageVars == <<vars, mvars>>

ASSUME MaxPageAssumption == MaxPage \in Nat \ {0}

\* UUIDs are many, but finitely many.
ASSUME MessageIdsAssumption == IsFiniteSet(MessageIds)

\* ChannelSeq::BEGINNING: the cursor before the first message
BEGINNING == 0

NoMessage == [channel |-> 0, seq |-> 0, sender |-> 0]
NoPage == [channel |-> 0, cursor |-> BEGINNING, newer |-> TRUE, ids |-> <<>>]

\* valid: the body has 1 to 4000 characters
post_message(by, o, ch, id, valid) ==
    [op |-> "post_message", by |-> by, org |-> o, channel |-> ch, id |-> id, valid |-> valid]

\* BEGINNING is also None for messages_before.
messages_after(by, o, ch, cursor, limit) ==
    [op |-> "messages_after", by |-> by, org |-> o, channel |-> ch, cursor |-> cursor,
     limit |-> limit]
messages_before(by, o, ch, cursor, limit) ==
    [op |-> "messages_before", by |-> by, org |-> o, channel |-> ch, cursor |-> cursor,
     limit |-> limit]

MessageOperations == {"post_message", "messages_after", "messages_before"}

PostingCalls ==
    [op : {"post_message"}, by : Actors, org : Orgs, channel : Channels, id : MessageIds,
     valid : BOOLEAN]
    \cup [op : MessageOperations \ {"post_message"}, by : Actors, org : Orgs,
          channel : Channels, cursor : Nat, limit : Nat]

ASSUME PostsAssumption == Posts \subseteq PostingCalls

MessageRows == {NoMessage} \cup [channel : Channels, seq : Nat \ {0}, sender : Actors]

\* A database starts with channels that are numbered from 1.
ASSUME InitialMessagesAssumption ==
    \A m \in InitialMessages :
        /\ m \in [MessageIds -> MessageRows]
        /\ \A ch \in Channels :
               LET ids == {i \in MessageIds : m[i].channel = ch}
               IN {m[i].seq : i \in ids} = 1 .. Cardinality(ids)

InChannel(ch) == {i \in MessageIds : message[i].channel = ch}

MessagesInit ==
    /\ StoreInit
    /\ message \in InitialMessages
    /\ next_message_seq = [ch \in Channels |-> Cardinality(InChannel(ch))]
    /\ page = [t \in Tx |-> NoPage]

CallMessages(t) ==
    \E c \in Posts :
        /\ pc[t] = "idle"
        /\ call' = [call EXCEPT ![t] = c] /\ pc' = [pc EXCEPT ![t] = "begin"]
        /\ UNCHANGED <<tables, blind, locks, loc, result, mvars>>

----------------------------------------------------------------------------
(* post_message, first transaction.                                        *)

ActiveSender(t) == call[t].org \in fukulow_active_organizations(call[t].by)

CountRefusal(c) ==
    IF ~c.valid THEN "InvalidBody"
    ELSE IF ~SeesChannel(c.by, c.org, c.channel) THEN "NotFound" ELSE "none"

\* UPDATE channels SET next_message_seq = next_message_seq + 1: locks the row
CountMessage(t) ==
    /\ At(t, "begin", "post_message")
    /\ \/ CountRefusal(call[t]) # "none" /\ Rollback(t, CountRefusal(call[t]))
       \/ /\ CountRefusal(call[t]) = "none"
          /\ Start(t, "post_count", NoKeyUpdate, {ChannelRow(call[t].channel)})
          /\ UNCHANGED loc
    /\ UNCHANGED mvars

\* The local variables of post_message: the number it has taken.
Counted(n) ==
    [v \in DOMAIN NoLocals \cup {"seq"} |-> IF v = "seq" THEN n ELSE NoLocals[v]]

\* INSERT INTO messages: row security is asked first, then the primary key.
InsertMessage(t) ==
    /\ At(t, "post_count", "post_message")
    /\ \/ ~ActiveSender(t) /\ Rollback(t, "Database")
       \/ /\ ActiveSender(t)
          /\ loc' = [loc EXCEPT ![t] = Counted(next_message_seq[call[t].channel] + 1)]
          /\ Start(t, "post_insert", Update, {MessageKey(call[t].id)})
    /\ UNCHANGED mvars

\* The transaction is dropped and the next one begins: nothing is held.
StartOver(t, p) ==
    /\ pc' = [pc EXCEPT ![t] = p]
    /\ held' = [held EXCEPT ![t] = NoLocks] /\ todo' = [todo EXCEPT ![t] = NoStatement]
    /\ loc' = [loc EXCEPT ![t] = NoLocals]
    /\ UNCHANGED <<tables, blind, call, result>>

NumberTaken(ch, n) == \E i \in MessageIds : message[i].channel = ch /\ message[i].seq = n

\* Mutant of ConflictOrInsert: the conflict commits, and with it the count.
ConflictOrInsertCounting(t) ==
    LET c == call[t]
    IN /\ At(t, "post_insert", "post_message")
       /\ \/ /\ message[c.id] # NoMessage /\ StartOver(t, "post_lookup")
             /\ next_message_seq' = [next_message_seq EXCEPT ![c.channel] = loc[t].seq]
          \/ /\ message[c.id] = NoMessage /\ UNCHANGED <<loc, next_message_seq>>
             /\ Start(t, "post_organization", KeyShare, {OrgRow(c.org)})
       /\ UNCHANGED <<message, page>>

\* Mutant of ConflictOrInsert: a conflict begins the post again.
ConflictOrInsertRetrying(t) ==
    /\ At(t, "post_insert", "post_message")
    /\ \/ message[call[t].id] # NoMessage /\ StartOver(t, "begin")
       \/ /\ message[call[t].id] = NoMessage /\ UNCHANGED loc
          /\ Start(t, "post_organization", KeyShare, {OrgRow(call[t].org)})
    /\ UNCHANGED mvars

\* ON CONFLICT (id) DO NOTHING, UNIQUE (channel_id, channel_seq), the first foreign key
ConflictOrInsert(t) ==
    LET c == call[t]
        taken == message[c.id] # NoMessage
        clash == NumberTaken(c.channel, loc[t].seq)
    IN /\ At(t, "post_insert", "post_message")
       /\ \/ taken /\ StartOver(t, "post_lookup")
          \/ ~taken /\ clash /\ Rollback(t, "Database")
          \/ /\ ~taken /\ ~clash
             /\ Start(t, "post_organization", KeyShare, {OrgRow(c.org)}) /\ UNCHANGED loc
       /\ UNCHANGED mvars

LockSender(t) ==
    /\ At(t, "post_organization", "post_message")
    /\ Start(t, "post_sender", KeyShare, {ActorRow(call[t].by)})
    /\ UNCHANGED <<loc, mvars>>

\* Mutant of CommitMessage: the row is stored without its sender.
CommitMessageUnsigned(t) ==
    LET c == call[t]
    IN /\ At(t, "post_sender", "post_message")
       /\ message' = [message EXCEPT ![c.id] =
              [channel |-> c.channel, seq |-> loc[t].seq, sender |-> 0]]
       /\ next_message_seq' = [next_message_seq EXCEPT ![c.channel] = loc[t].seq]
       /\ End(t, "Posted") /\ UNCHANGED <<tables, blind, page>>

\* COMMIT; of an unreliable client's connection, only the answer may be lost.
CommitMessage(t) ==
    LET c == call[t]
    IN /\ At(t, "post_sender", "post_message")
       /\ message' = [message EXCEPT ![c.id] =
              [channel |-> c.channel, seq |-> loc[t].seq, sender |-> c.by]]
       /\ next_message_seq' = [next_message_seq EXCEPT ![c.channel] = loc[t].seq]
       /\ \E r \in {"Posted"} \cup (IF t \in Unreliable THEN {"Cancelled"} ELSE {}) : End(t, r)
       /\ UNCHANGED <<tables, blind, page>>

\* Mutant of LookUpMessage: the message is looked up by its identifier and channel only.
LookUpMessageOfAnyone(t) ==
    /\ At(t, "post_lookup", "post_message")
    /\ Rollback(t, IF ActiveSender(t) /\ message[call[t].id].channel = call[t].channel
                   THEN "AlreadyPosted" ELSE "IdConflict")
    /\ UNCHANGED mvars

\* The second transaction: the message of this very sender and channel, or a conflict.
LookUpMessage(t) ==
    LET c == call[t]
        found == /\ ActiveSender(t) /\ channel[c.channel].org = c.org
                 /\ message[c.id].channel = c.channel /\ message[c.id].sender = c.by
    IN /\ At(t, "post_lookup", "post_message")
       /\ Rollback(t, IF found THEN "AlreadyPosted" ELSE "IdConflict")
       /\ UNCHANGED mvars

----------------------------------------------------------------------------
(* The readers: two statements each.                                       *)

Readers == {"messages_after", "messages_before"}

\* Mutant of clamp: the lower bound is missing.
clampAbove(n) == IF n > MaxPage THEN MaxPage ELSE n

clamp(n) == IF n < 1 THEN 1 ELSE IF n > MaxPage THEN MaxPage ELSE n

\* channel_exists
FindChannel(t) ==
    LET seen == SeesChannel(call[t].by, call[t].org, call[t].channel)
    IN /\ pc[t] = "begin" /\ call[t].op \in Readers
       /\ \/ ~seen /\ Rollback(t, "NotFound")
          \/ seen /\ Start(t, "read_rows", KeyShare, {}) /\ UNCHANGED loc
       /\ UNCHANGED mvars

\* The identifiers of a set of messages, ORDER BY channel_seq.
Ascending(ids) == SetToSortSeq(ids, LAMBDA i, j : message[i].seq < message[j].seq)

\* Mutant of Descending: the oldest messages come first, and LIMIT cuts the latest off.
DescendingOldestFirst(ids) == Ascending(ids)

Descending(ids) == SetToSortSeq(ids, LAMBDA i, j : message[i].seq > message[j].seq)

Limited(s, n) == SubSeq(s, 1, IF n < Len(s) THEN n ELSE Len(s))

ReadRows(t) ==
    LET c == call[t]
        newer == c.op = "messages_after"
        rows == {i \in MessageIds :
                     /\ ActiveSender(t) /\ message[i].channel = c.channel
                     /\ IF newer THEN message[i].seq > c.cursor
                        ELSE c.cursor = BEGINNING \/ message[i].seq < c.cursor}
        ids == Limited(IF newer THEN Ascending(rows) ELSE Descending(rows), clamp(c.limit))
    IN /\ pc[t] = "read_rows" /\ call[t].op \in Readers
       /\ page' = [page EXCEPT ![t] = [channel |-> c.channel, cursor |-> c.cursor,
                                       newer |-> newer, ids |-> ids]]
       /\ End(t, "Ok")
       /\ UNCHANGED <<tables, blind, message, next_message_seq>>

----------------------------------------------------------------------------
MessagesStep(t) ==
    \/ CountMessage(t) \/ InsertMessage(t) \/ ConflictOrInsert(t) \/ LockSender(t)
    \/ CommitMessage(t) \/ LookUpMessage(t) \/ FindChannel(t) \/ ReadRows(t)

MessagesNext ==
    \/ Next /\ UNCHANGED mvars
    \/ \E t \in Tx : CallMessages(t) \/ MessagesStep(t)

MessagesSpec == MessagesInit /\ [][MessagesNext]_messageVars

----------------------------------------------------------------------------
\* PostMessage, PostMessageError and the errors of the readers
MessageResults == {"Posted", "AlreadyPosted", "IdConflict", "InvalidBody"}

MessagesTypeOK ==
    /\ LocksTypeOK /\ TablesTypeOK /\ result \in [Tx -> Results \cup MessageResults]
    /\ message \in [MessageIds -> {NoMessage} \cup
                       [channel : Channels, seq : 1 .. Cardinality(MessageIds), sender : Actors]]
    /\ next_message_seq \in [Channels -> 0 .. Cardinality(MessageIds)]
    /\ \A t \in Tx : page[t].ids \in Seq(MessageIds)

(***************************************************************************)
(* invariants.md: "the actor lock always precedes organization locks" and  *)
(* "mutations lock that actor before the organization too": whoever holds  *)
(* an organization has every actor it will ask for.                        *)
(***************************************************************************)
ActorsAreLockedFirst ==
    \A t \in Tx : \A a \in Actors, o \in Orgs :
        ActorRow(a) \in todo[t].rows /\ held[t][OrgRow(o)] # 0 => held[t][ActorRow(a)] # 0

(***************************************************************************)
(* invariants.md: "Within a channel, channel_seq has no gap and no         *)
(* duplicate", at every moment, and the counter is the last number: what   *)
(* a conflict or a lost connection had taken is given back.                *)
(***************************************************************************)
NumbersHaveNoGap ==
    \A ch \in Channels :
        /\ {message[i].seq : i \in InChannel(ch)} = 1 .. next_message_seq[ch]
        /\ Cardinality(InChannel(ch)) = next_message_seq[ch]

(***************************************************************************)
(* Seen through their numbers, the tables are an append-only log, and      *)
(* every page is the stretch of it next to the cursor: no message appears  *)
(* behind the cursor of a reader that follows the channel.                 *)
(***************************************************************************)
Log == INSTANCE ChannelLog WITH
    Readers <- Tx,
    Cursors <- {c.cursor : c \in {d \in Posts : d.op \in Readers}},
    log <- [ch \in Channels |-> Ascending(InChannel(ch))],
    page <- page
ImplementsChannelLog == Log!LSpec

\* A page is empty only where there is nothing more, or for a reader suspended meanwhile.
PagesGoOn ==
    [][\A t \in Tx :
          page'[t] # page[t] /\ page'[t].ids = <<>>
              => LET c == call[t] IN
                 \/ ~ActiveSender(t)
                 \/ c.op = "messages_after" /\ c.cursor >= next_message_seq[c.channel]
                 \/ /\ c.op = "messages_before"
                    /\ c.cursor = 1 \/ next_message_seq[c.channel] = 0]_messageVars

(***************************************************************************)
(* Whatever a post is told is so when it is told: once per identifier that *)
(* it was posted, to its sender that it had been, and to nobody else more  *)
(* than that the identifier is taken.  It fails only in a circle of waits  *)
(* or because its sender is no longer an active member.                    *)
(***************************************************************************)
Stored(t) ==
    /\ message'[call[t].id].channel = call[t].channel
    /\ message'[call[t].id].sender = call[t].by

PostsAreAnsweredTruly ==
    [][\A t \in Tx :
          call[t].op = "post_message" /\ result[t] = "none" =>
              LET r == result'[t] IN
              /\ r = "Posted" => Stored(t) /\ message[call[t].id] = NoMessage
              /\ r = "AlreadyPosted" => Stored(t) /\ message[call[t].id] # NoMessage
              /\ r = "IdConflict" => /\ message[call[t].id] # NoMessage
                                     /\ ~Stored(t) \/ ~ActiveSender(t)
              /\ r = "Database" => \/ ~ActiveSender(t)
                                   \/ \E S \in SUBSET Tx : t \in S /\ Circle(S)]_messageVars
===============================================================================
