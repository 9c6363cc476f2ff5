------------------------------- MODULE Circles --------------------------------
(***************************************************************************)
(* Why only stray leavers wait in circles: the inductive invariant behind  *)
(* OnlyStrayLeaversDeadlock.  Every operation that changes who governs     *)
(* locks actors before organizations, each in ascending order; only the    *)
(* records of a departure come out of that order.                          *)
(***************************************************************************)
EXTENDS Departures

\* identity.rs, membership.rs, leaving.rs
OwnerOperations ==
    {"create_organization", "change_member_role", "suspend_member", "reactivate_member",
     "leave_service"}

OnlyOwnerOperations == \A c \in Requests : c.op \in OwnerOperations

\* A UUID has its width, a slug and an address their length: there is a greatest.
IdentifiersBounded == \E n \in Nat : \A r \in Rows : r[2] <= n

Level(r) == IF r[1] = "actors" THEN 1 ELSE IF r[1] = "organizations" THEN 2 ELSE 3

\* r is locked before q by who locks both.
Before(r, q) == Level(r) < Level(q) \/ (Level(r) = Level(q) /\ r[2] < q[2])

\* Up to the loop of leave_service every lock that is asked for comes after those held.
AsksInOrder(t) ==
    LET wants == todo[t].rows
    IN /\ pc[t] \in {"idle", "done"} => wants = {} /\ held[t] = NoLocks
       /\ pc[t] \in {"lock_actor", "leave_actor"} =>
              \A r \in Rows : r \in wants \/ held[t][r] # 0 => Level(r) = 1
       /\ ~Looping(t) =>
              /\ \A r \in Rows, q \in wants : held[t][r] # 0 => Before(r, q)
              /\ \A r, q \in wants : Level(r) = Level(q) /\ (r[2] = q[2] => r = q)

\* In the loop: its own team rows, and the organizations it has something to record in.
LoopAsks(t) ==
    LET wants == todo[t].rows
        by == call[t].by
    IN /\ \A tm \in Teams, a \in Actors :
              TeamMemberRow(tm, a) \in wants \/ held[t][TeamMemberRow(tm, a)] # 0
                  => Looping(t) /\ a = by
       /\ pc[t] = "leave_audit" => \A r \in wants : \E tm \in Teams : r = TeamMemberRow(tm, by)
       /\ pc[t] = "leave_next" => \A r \in wants : \E o \in Orgs :
              /\ r = OrgRow(o)
              /\ o \in loc[t].memberships \/ \E ch \in loc[t].unlisted : channel[ch].org = o
       /\ pc[t] \in {"idle", "leave_actor", "leave_orgs"} => loc[t].unlisted = {}
       /\ Looping(t) =>
              \A ch \in loc[t].unlisted : channel[ch].org # 0 /\ by \in channelMember[ch]

CircleInvariant ==
    /\ DepartureInvariant
    /\ \A t \in Tx : /\ AsksInOrder(t) /\ LoopAsks(t)
                     /\ pc[t] # "idle" => call[t] \in Requests
===============================================================================
