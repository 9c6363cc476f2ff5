------------------------------- MODULE RowLocks -------------------------------
(***************************************************************************)
(* The row locks of PostgreSQL, as the operations of crates/db use them.   *)
(* A transaction runs one SQL statement at a time.  A statement that locks *)
(* rows names them when it starts, then takes them one by one in ascending *)
(* identifier order, waiting for every other transaction that holds a      *)
(* conflicting lock; what it has taken it keeps until it ends.             *)
(*                                                                         *)
(* External: this is PostgreSQL, modelled from how the operations use it.  *)
(***************************************************************************)
EXTENDS Naturals

CONSTANTS
    Tx,         \* the transactions: each runs one operation
    Actors,     \* actors.id
    Orgs,       \* organizations.id
    Teams,      \* teams.id
    Channels,   \* channels.id
    Names,      \* slugs and channel names
    MessageIds, \* messages.id, chosen by clients
    InviteIds,  \* invites.id, each with a token of its own
    Emails      \* users.email

\* Identifiers are ordered (ORDER BY id), and 0 stands for NULL.
ASSUME IdentifiersAssumption ==
    /\ Actors \subseteq Nat \ {0} /\ Orgs \subseteq Nat \ {0}
    /\ Teams \subseteq Nat \ {0} /\ Channels \subseteq Nat \ {0}
    /\ Names \subseteq Nat \ {0} /\ MessageIds \subseteq Nat \ {0}
    /\ InviteIds \subseteq Nat \ {0} /\ Emails \subseteq Nat \ {0}

VARIABLES
    held,       \* the strongest mode a transaction holds on a row, 0 for none
    todo        \* the statement in progress: its lock mode, the rows still to lock

(***************************************************************************)
(* The lockable things two operations can contend for.  A unique key is    *)
(* one: inserting it excludes a second insert until the first one ends.    *)
(***************************************************************************)
ActorRow(a) == <<"actors", a, 0>>
OrgRow(o) == <<"organizations", o, 0>>
TeamMemberRow(tm, a) == <<"team_members", tm, a>>
SlugKey(n) == <<"organizations_slug_key", n, 0>>
ChannelRow(ch) == <<"channels", ch, 0>>
MessageKey(i) == <<"messages_pkey", i, 0>>
InviteRow(i) == <<"invites", i, 0>>
EmailKey(e) == <<"users_email_lower_key", e, 0>>

Rows == {ActorRow(a) : a \in Actors} \cup {OrgRow(o) : o \in Orgs}
            \cup {TeamMemberRow(tm, a) : tm \in Teams, a \in Actors}
            \cup {SlugKey(n) : n \in Names} \cup {ChannelRow(ch) : ch \in Channels}
            \cup {MessageKey(i) : i \in MessageIds} \cup {InviteRow(i) : i \in InviteIds}
            \cup {EmailKey(e) : e \in Emails}

(***************************************************************************)
(* The four modes are numbered by strength.  PostgreSQL's conflict table   *)
(* is then the sum: KEY SHARE conflicts with UPDATE only, SHARE with       *)
(* NO KEY UPDATE and UPDATE, and these two with each other and themselves. *)
(***************************************************************************)
KeyShare == 1
Share == 2
NoKeyUpdate == 3
Update == 4
Modes == KeyShare .. Update

Conflict(m, n) == m + n > 4

NoLocks == [r \in Rows |-> 0]
NoStatement == [mode |-> KeyShare, rows |-> {}]
Statement(m, rows) == [mode |-> m, rows |-> rows]

\* The rows of t's statement are locked: the statement has returned.
Returned(t) == todo[t].rows = {}

Strongest(m, n) == IF m < n THEN n ELSE m

\* Mutant of IsNext: no ORDER BY, rows are locked as the scan meets them.
IsNextInScanOrder(t, r) == r \in todo[t].rows

\* r is the row the statement of t locks next.
IsNext(t, r) == r \in todo[t].rows /\ \A q \in todo[t].rows : r[2] <= q[2]

\* t waits for u: u holds a lock that conflicts with the one t wants next.
WaitsFor(t, u) ==
    \E r \in todo[t].rows :
        IsNext(t, r) /\ u # t /\ Conflict(held[u][r], todo[t].mode)

\* The statement of t takes its next row.
Acquire(t) ==
    \E r \in todo[t].rows :
        /\ IsNext(t, r)
        /\ \A u \in Tx \ {t} : ~Conflict(held[u][r], todo[t].mode)
        /\ held' = [held EXCEPT ![t][r] = Strongest(@, todo[t].mode)]
        /\ todo' = [todo EXCEPT ![t] = Statement(@.mode, @.rows \ {r})]

(***************************************************************************)
(* Everyone in a circle waits for the next one.  A circle is a set in      *)
(* which everyone waits for a member and no smaller set does.              *)
(***************************************************************************)
Stuck(S) == S # {} /\ \A t \in S : \E u \in S : WaitsFor(t, u)
Circle(S) == Stuck(S) /\ \A R \in SUBSET S : Stuck(R) => R = S

LocksTypeOK ==
    /\ held \in [Tx -> [Rows -> 0 .. Update]]
    /\ todo \in [Tx -> [mode : Modes, rows : SUBSET Rows]]

\* No two transactions hold conflicting locks on one row.
LocksExclude ==
    \A t, u \in Tx : \A r \in Rows : t # u => ~Conflict(held[t][r], held[u][r])
===============================================================================
