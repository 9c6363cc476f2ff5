------------------------------ MODULE ChannelLog ------------------------------
(***************************************************************************)
(* What the message operations promise, without transactions, counters or  *)
(* locks: a channel is a log that only grows at its end, an identifier is  *)
(* in one log once, and the cursor of a reader is a position in the log: a *)
(* page is the stretch of the log next to it, so a reader that goes on     *)
(* from the last message it has misses none and gets none twice.           *)
(***************************************************************************)
EXTENDS Naturals, Sequences, FiniteSets

CONSTANTS Channels, MessageIds, Readers, Cursors, MaxPage

VARIABLES
    log,    \* the identifiers of each channel's messages
    page    \* the last page each reader got, and what it had asked for

lvars == <<log, page>>

\* Where an identifier is: channel and position.
Posted(id) == {p \in Channels \X (1 .. Cardinality(MessageIds)) :
                   p[2] <= Len(log[p[1]]) /\ log[p[1]][p[2]] = id}

AddMessage(ch, id) ==
    /\ Posted(id) = {}
    /\ log' = [log EXCEPT ![ch] = Append(@, id)]
    /\ UNCHANGED page

\* At most n messages, the ones after the cursor in ascending order.
After(ch, cursor, n) == SubSeq(log[ch], cursor + 1, cursor + n)

\* Where a reader of older messages stands: 0 or a cursor beyond the log is its end.
End(ch, cursor) ==
    IF cursor = 0 \/ cursor > Len(log[ch]) THEN Len(log[ch]) + 1 ELSE cursor

\* The ones before the cursor, the latest first.
Before(ch, cursor, n) ==
    [k \in 1 .. n |-> log[ch][End(ch, cursor) - k]]

GetPage(r) ==
    /\ \E ch \in Channels, newer \in BOOLEAN, cursor \in Cursors, n \in 0 .. MaxPage :
           /\ n # 0 => n <= IF newer THEN Len(log[ch]) - cursor ELSE End(ch, cursor) - 1
           /\ page' = [page EXCEPT ![r] =
                  [channel |-> ch, cursor |-> cursor, newer |-> newer,
                   ids |-> IF newer THEN After(ch, cursor, n) ELSE Before(ch, cursor, n)]]
    /\ UNCHANGED log

\* Of steps that change something: the others stutter.
LNext ==
    \/ log' # log /\ \E ch \in Channels, id \in MessageIds : AddMessage(ch, id)
    \/ page' # page /\ \E r \in Readers : GetPage(r)

LInit ==
    /\ log \in [Channels -> Seq(MessageIds)]
    /\ \A id \in MessageIds : Cardinality(Posted(id)) <= 1
    /\ page \in [Readers -> {[channel |-> 0, cursor |-> 0, newer |-> TRUE, ids |-> <<>>]}]

LSpec == LInit /\ [][LNext]_lvars
===============================================================================
