------------------------------- MODULE Authority -------------------------------
(***************************************************************************)
(* Why nobody acts on what they no longer are: the inductive invariant     *)
(* behind CapabilityHeldAtCommit, AnswersTellNoMore and the truth of what  *)
(* sessions and handlers answer.  An inviter holds its actor and its       *)
(* organization FOR SHARE from the check to the commit; whoever could      *)
(* demote, suspend or remove it needs one of the two for itself.  One who  *)
(* departs has found every membership of its own, and nobody gets a new    *)
(* one behind its back.                                                    *)
(***************************************************************************)
EXTENDS People, Departures

\* A membership that counts: it can be written, and it ends with a departure.
Present(o, a) == member[o][a].status \in {"active", "suspended"}

Governing == {"change_member_role", "suspend_member", "reactivate_member"}

\* What tenant operations hold at the points where they decide and write.
TenantHolds(u) ==
    LET c == call[u]
    IN /\ DOMAIN loc[u] = DOMAIN NoLocals
       /\ pc[u] \in Points \ {"idle", "done"} => c \in Calls
       /\ pc[u] \in {"lock_actor", "lock_organization"} => c.op # "leave_service"
       /\ pc[u] = "lock_organization" => Claims(u, OrgRow(c.org), Update)
       /\ pc[u] = "write" /\ c.op \in Governing => held[u][OrgRow(c.org)] >= Update
       /\ pc[u] = "write" /\ c.op \in {"suspend_member", "reactivate_member"}
              => Present(c.org, c.who)

\* create_organization: the founder is locked, and has not left.
FounderHolds(u) ==
    LET c == call[u]
    IN c.op = "create_organization" =>
           /\ pc[u] = "lock_actor" /\ loc[u].departed # "None" =>
                  Claims(u, ActorRow(c.by), Share) /\ actor[c.by] # "absent"
           /\ pc[u] = "insert" => held[u][ActorRow(c.by)] >= Share /\ actor[c.by] = "live"

\* leave_service: the leaver is locked and live; each membership that counts is known,
\* and its organization is locked by a record or has its turn to come.
LeaverHolds(u) ==
    LET c == call[u]
    IN /\ Leaving(u) => held[u][ActorRow(c.by)] >= Update /\ actor[c.by] = "live"
       /\ Looping(u) => \A o \in Orgs :
              Present(o, c.by) =>
                  /\ o \in loc[u].memberships /\ o \in loc[u].current
                  /\ o \in loc[u].rest \/ Claims(u, OrgRow(o), KeyShare)

\* create_invite and revoke_invite: authorized, and locked as authorized.
InviterHolds(u) ==
    LET c == call[u]
    IN /\ pc[u] = "invite_actor" => c.op \in Inviting
       /\ c.op \in Inviting =>
              /\ pc[u] \notin {"web_session", "done"} =>
                     c.by \in Actors /\ actor[c.by] # "absent"
              /\ pc[u] = "invite_actor" => Claims(u, ActorRow(c.by), Share)
              /\ pc[u] \in {"invite_organization", "invite_insert", "invite_revoke"}
                     => held[u][ActorRow(c.by)] >= Share
              /\ pc[u] = "invite_organization" => Claims(u, OrgRow(c.org), Share)
              /\ pc[u] \in {"invite_insert", "invite_revoke"} =>
                     held[u][OrgRow(c.org)] >= Share /\ Capable(c.org, c.by)

Holds(u) == TenantHolds(u) /\ FounderHolds(u) /\ LeaverHolds(u) /\ InviterHolds(u)

\* Whoever has left is a member of nothing.
DepartedAreNowhere ==
    \A a \in Actors :
        /\ actor[a] \in {"absent", "live", "departed"}
        /\ actor[a] = "departed" => \A o \in Orgs : ~Present(o, a)

AuthorityInvariant ==
    PeopleInvariant /\ DepartedAreNowhere /\ \A u \in Tx : Holds(u)

(***************************************************************************)
(* sign_in: once the email is looked up the context is that person's, who  *)
(* may have left since; from the second read on it cannot leave.           *)
(***************************************************************************)
SignInHolds(u) ==
    LET c == call[u]
        person == c.by \in users /\ email[c.by] = c.email
    IN c.op = "sign_in" =>
           /\ pc[u] = "verify" =>
                  c.by = 0 \/ (c.by \in Actors /\ (actor[c.by] = "departed" \/ person))
           /\ pc[u] = "sign_in_actor" =>
                  /\ c.by \in Actors /\ Accepted(c) /\ Claims(u, ActorRow(c.by), Share)
                  /\ actor[c.by] = "departed" \/ person
           /\ pc[u] = "sign_in_insert" =>
                  person /\ Accepted(c) /\ held[u][ActorRow(c.by)] >= Share

\* What the types of a request say of its call, and whom its session stands for.
RequestTyped(u) ==
    LET r == call[u]
    IN /\ pc[u] = "web_session" => "cookie" \in DOMAIN r /\ r.cookie \in Tokens \cup {0}
       /\ r.op = "sign_in" => "email" \in DOMAIN r /\ r.email \in Emails
       /\ r.op = "revoke_session" => "token" \in DOMAIN r /\ r.token \in Tokens
       /\ r.op \in {"me", "revoke_session"} /\ pc[u] = "begin" => r.by \in Actors

\* What the handlers have checked by the time a request has come this far.
RequestHolds(u) ==
    LET r == call[u]
    IN /\ pc[u] \in {"idle", "web_session", "web_body"} => Returned(u)
       /\ r.op \in Routes /\ pc[u] # "done" =>
              /\ {"origin", "upgrade", "cookie", "body"} \subseteq DOMAIN r
              /\ checks_origin(r) => r.origin
              /\ r.op = "create_invite" /\ pc[u] # "web_session" => well_formed(r)
              /\ r.op = "accept_invite" /\ pc[u] # "web_body" => well_formed(r)

\* Every call comes through a route.
AllRouted == InviteCalls = {}

WebHolds(u) == SignInHolds(u) /\ RequestTyped(u) /\ (AllRouted => RequestHolds(u))

WebInvariant == SessionsInvariant /\ AuthorityInvariant /\ \A u \in Tx : WebHolds(u)
===============================================================================
