-------------------------------- MODULE People ---------------------------------
(***************************************************************************)
(* Why people, invites and sessions agree: the inductive invariant behind  *)
(* InvitesAccounted, NobodyIsHalfCreated and JoinsAreAdmitted.  An         *)
(* acceptance that has found its invite unspent holds the invite, one that *)
(* has found its email free holds the key; the actor it makes is nobody    *)
(* else's.  A membership, once there, is never erased, so what a use has   *)
(* recorded stays true of a person who leaves.                             *)
(***************************************************************************)
EXTENDS OwnerRule, Web

PeopleShaped ==
    /\ DOMAIN actor = Actors /\ users \subseteq Actors
    /\ DOMAIN member = Orgs /\ \A o \in Orgs : DOMAIN member[o] = Actors
    /\ invite \in [InviteIds -> InviteRows] /\ email \in [Actors -> Emails \cup {0}]
    /\ recorded \in [InviteIds -> [created : Nat, revoked : Nat, joined : SUBSET Actors]]
    /\ \A i \in InviteIds : IsFiniteSet(recorded[i].joined)

Accepting(t) == call[t].op = "accept_invite"

PeopleOperations == InviteOperations \cup Routes

PeoplePoints ==
    {"web_session", "web_body", "web_hash", "begin", "invite_actor", "invite_organization",
     "invite_insert", "invite_revoke", "accept_person", "accept_email", "accept_member",
     "verify", "sign_in_actor", "sign_in_insert", "done"}

\* They are at points of their own; tenant operations know nothing of them.
PeopleCourse ==
    \A t \in Tx :
        call[t].op \in PeopleOperations =>
            /\ InviteCallOK(call[t]) /\ pc[t] \in PeoplePoints
            /\ pc[t] \in {"invite_organization", "invite_insert", "invite_revoke"}
                   => call[t].org \in Orgs

\* Uuid::now_v7: whom an acceptance makes, and what a creation makes, is not there yet.
NewcomersFresh ==
    \A t \in Tx :
        Accepting(t) =>
            /\ \A u \in Tx : u # t /\ Accepting(u) => call[u].by # call[t].by
            /\ pc[t] # "done" => actor[call[t].by] = "absent"

InvitesFresh ==
    \A t \in Tx :
        call[t].op = "create_invite" =>
            /\ \A u \in Tx : u # t /\ call[u].op = "create_invite"
                                 => call[u].invite # call[t].invite
            /\ pc[t] # "done" => invite[call[t].invite] = NoInvite

\* accept_invite: from the conditional UPDATE on the invite is locked, and unspent.
InviteHeld ==
    \A t \in Tx :
        LET i == call[t].invite
        IN Accepting(t) =>
               /\ pc[t] = "accept_person" => Claims(t, InviteRow(i), NoKeyUpdate)
               /\ pc[t] \in {"accept_email", "accept_member"} =>
                      /\ held[t][InviteRow(i)] >= NoKeyUpdate
                      /\ Unspent(i) /\ invite[i].kind = "organization"

\* create_person: the email is locked by the insert, and nobody's.
EmailHeld ==
    \A t \in Tx :
        Accepting(t) =>
            /\ pc[t] = "accept_email" => Claims(t, EmailKey(call[t].email), Update)
            /\ pc[t] = "accept_member" =>
                   /\ held[t][EmailKey(call[t].email)] >= Update
                   /\ \A a \in Actors : email[a] # call[t].email

\* revoke_invite: the invite it has found is locked by the UPDATE.
RevocationHeld ==
    \A t \in Tx :
        call[t].op = "revoke_invite" /\ pc[t] = "invite_revoke" =>
            LET i == call[t].invite
            IN /\ i \in InviteIds /\ invite[i] # NoInvite
               /\ Claims(t, InviteRow(i), Update)

\* leave_service goes on only for an actor there is.
LeaverThere ==
    \A t \in Tx :
        /\ call[t].op = "leave_service" => call[t].by \in Actors
        /\ Leaving(t) => call[t].op = "leave_service" /\ actor[call[t].by] # "absent"

\* Who joined has come to be and has a membership, if only as one who left.
JoinedThere ==
    \A i \in InviteIds : \A a \in recorded[i].joined :
        actor[a] # "absent" /\ member[invite[i].org][a].status # "none"

PeopleHaveMemberships ==
    \A a \in users : \E o \in Orgs : member[o][a].status # "none"

PeopleInvariant ==
    /\ Shaped /\ LocksExclude /\ PeopleShaped /\ PeopleCourse
    /\ NewcomersFresh /\ InvitesFresh /\ InviteHeld /\ EmailHeld /\ RevocationHeld
    /\ LeaverThere /\ JoinedThere /\ PeopleHaveMemberships
    /\ InvitesAccounted /\ NobodyIsHalfCreated

\* A handler has looked up the session before an operation that needs one begins.
SessionsCourse ==
    \A t \in Tx :
        /\ pc[t] = "web_session" => call[t].op \in NeedsSession
        /\ pc[t] = "begin" /\ call[t].op = "revoke_session" => call[t].by # 0

SessionsInvariant ==
    /\ PeopleInvariant /\ SessionsCourse
    /\ session \in [Tokens -> SessionRows] /\ SessionsHavePeople
===============================================================================
