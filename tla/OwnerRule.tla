------------------------------ MODULE OwnerRule -------------------------------
(***************************************************************************)
(* Why the locks hold the owner rule: the inductive invariant behind       *)
(* OwnerKeptUnlessBlind.  Each part says what a transaction that has come  *)
(* to a point of its course holds, and what others therefore cannot have   *)
(* changed since it looked.                                                *)
(***************************************************************************)
EXTENDS Tenancy

\* t holds row r in mode m, or the statement it is in will have it when it returns.
Claims(t, r, m) ==
    \/ held[t][r] >= m
    \/ r \in todo[t].rows /\ todo[t].mode = m

\* Every transaction has its control and its locks, whatever it runs.
Shaped ==
    /\ DOMAIN pc = Tx /\ DOMAIN call = Tx /\ DOMAIN loc = Tx /\ DOMAIN result = Tx
    /\ held \in [Tx -> [Rows -> 0 .. Update]]
    /\ DOMAIN todo = Tx /\ \A t \in Tx : todo[t].mode \in Modes

Leaving(t) == pc[t] \in {"leave_orgs", "leave_next", "leave_audit"}

Sighted(o) == \A a \in Actors : <<o, a>> \notin blind

\* Operations and points of their course that go together.
CourseOK ==
    \A t \in Tx :
        /\ pc[t] \in {"leave_actor", "leave_orgs", "leave_next", "leave_audit"}
               => call[t].op = "leave_service"
        /\ pc[t] \in {"lock_actor", "lock_organization", "insert", "write"}
               => call[t].op # "leave_service"
        /\ pc[t] \in {"lock_organization", "write"} => call[t].op # "create_organization"
        /\ pc[t] # "idle" => call[t] \in Calls

\* lock_organization: from its return to the commit the organization is locked.
OrganizationLocked ==
    \A t \in Tx :
        /\ pc[t] = "lock_organization" => Claims(t, OrgRow(call[t].org), Update)
        /\ pc[t] = "write" => held[t][OrgRow(call[t].org)] >= Update
        /\ pc[t] = "insert" /\ call[t].op # "create_organization"
               => held[t][OrgRow(call[t].org)] >= Update

\* lock_actor: the actor it saw stays locked, hence neither departs nor returns.
SubjectLocked ==
    \A t \in Tx :
        /\ pc[t] \in {"lock_actor", "lock_organization", "insert", "write"}
           /\ loc[t].departed # "None"
               => IF pc[t] = "lock_actor"
                  THEN Claims(t, ActorRow(Subject(call[t])), Share)
                  ELSE held[t][ActorRow(Subject(call[t]))] >= Share
        /\ pc[t] = "insert" /\ call[t].op = "create_organization"
               => loc[t].departed # "None"

\* leave_service: the leaver is locked and live.
LeaverLocked ==
    \A t \in Tx :
        /\ pc[t] = "leave_actor" /\ actor[call[t].by] # "absent"
               => Claims(t, ActorRow(call[t].by), Update)
        /\ Leaving(t) => /\ held[t][ActorRow(call[t].by)] >= Update
                         /\ actor[call[t].by] = "live"

\* leave_service: the organizations it found itself active in are locked,
\* and it is active in no other unless it was reactivated blindly.
LeaverOrganizationsLocked ==
    \A t \in Tx :
        Leaving(t) =>
            \A o \in Orgs :
                /\ o \in loc[t].orgs =>
                       IF pc[t] = "leave_orgs" THEN Claims(t, OrgRow(o), Update)
                       ELSE held[t][OrgRow(o)] >= Update
                /\ member[o][call[t].by].status = "active" /\ <<o, call[t].by>> \notin blind
                       => o \in loc[t].orgs

\* The owner another than a, on whom a decision to let a go rests.
OtherOwner(o, a) == \E b \in Actors : b # a /\ ActiveOwner(o, b)

\* What check_owner_change found is still so when the change is written.
OwnerDecisionStands ==
    \A t \in Tx :
        /\ (/\ pc[t] = "write"
            /\ \/ call[t].op = "suspend_member"
               \/ call[t].op = "change_member_role" /\ call[t].role # "owner"
            /\ Sighted(call[t].org) /\ ActiveOwner(call[t].org, call[t].who))
               => OtherOwner(call[t].org, call[t].who)
        /\ pc[t] \in {"leave_next", "leave_audit"} =>
               \A o \in loc[t].orgs : Sighted(o) => OtherOwner(o, call[t].by)

(***************************************************************************)
(* An organization being founded has no member rows yet, no two calls      *)
(* found the same one, and a membership about to be written exists.        *)
(***************************************************************************)
FoundingFresh ==
    /\ \A o \in Orgs, a \in Actors : member[o][a] # NoMember => slug[o] # 0
    /\ \A t \in Tx :
           /\ call[t].op = "create_organization" =>
                  \A u \in Tx : u # t /\ call[u].op = "create_organization"
                                   => call[u].org # call[t].org
           /\ pc[t] \in {"lock_actor", "insert"} /\ call[t].op = "create_organization"
                  => \A a \in Actors : member[call[t].org][a] = NoMember
           /\ pc[t] = "write" /\ call[t].op \in {"suspend_member", "change_member_role"}
                  => member[call[t].org][call[t].who] # NoMember

(***************************************************************************)
(* Together: at every point of every operation the locks taken so far      *)
(* keep true what the operation has read and will act on, and so every     *)
(* organization without a blind reactivation keeps an active owner.        *)
(***************************************************************************)
OwnerInvariant ==
    /\ TypeOK /\ LocksExclude /\ CourseOK /\ FoundingFresh
    /\ OrganizationLocked /\ SubjectLocked /\ LeaverLocked /\ LeaverOrganizationsLocked
    /\ OwnerDecisionStands /\ OwnerKeptUnlessBlind
===============================================================================
