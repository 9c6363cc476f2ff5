----------------------------- MODULE PeopleProofs ------------------------------
(***************************************************************************)
(* Machine-checked proofs about invites, people and sessions, beside any   *)
(* number of tenant operations: PeopleInvariant is inductive, so uses,     *)
(* records and people agree, nobody is half created, and every session has *)
(* its person.                                                             *)
(***************************************************************************)
EXTENDS TenancyProofs, People, FiniteSetTheorems

----------------------------------------------------------------------------
(* What tenant operations do to actors, users and memberships.             *)

\* leave_service commits: the users row goes, deleted_at is set.
Departs(t) ==
    /\ Leaving(t) /\ Over(t)
    /\ users' = users \ {call[t].by}
    /\ actor' = [actor EXCEPT ![call[t].by] = "departed"]

\* A membership, once there, is never erased.
MembersKept ==
    /\ DOMAIN member' = Orgs /\ \A o \in Orgs : DOMAIN member'[o] = Actors
    /\ \A o \in Orgs, a \in Actors :
           member[o][a].status # "none" => member'[o][a].status # "none"

\* Nothing happens to them.
LEMMA UnchangedKept ==
    ASSUME PeopleShaped, UNCHANGED member
    PROVE  MembersKept
BY DEF PeopleShaped, MembersKept

\* Writing one membership.
LEMMA RowKept ==
    ASSUME PeopleShaped, NEW o, NEW a, NEW row, row.status # "none" \/ row = member[o][a],
           member' = [member EXCEPT ![o][a] = row]
    PROVE  MembersKept
<1>1. /\ DOMAIN member = Orgs /\ \A p \in Orgs : DOMAIN member[p] = Actors
    BY DEF PeopleShaped
<1>2. DOMAIN member' = Orgs /\ \A p \in Orgs : DOMAIN member'[p] = Actors
    BY <1>1
<1>3. ASSUME NEW p \in Orgs, NEW b \in Actors, member[p][b].status # "none"
      PROVE  member'[p][b].status # "none"
    <2>1. CASE p = o /\ b = a
        <3>1. member'[p][b] = row
            BY <1>1, <2>1
        <3> QED
            BY <1>3, <2>1, <3>1
    <2>2. CASE ~(p = o /\ b = a)
        <3>1. member'[p][b] = member[p][b]
            BY <1>1, <2>2
        <3> QED
            BY <1>3, <3>1
    <2> QED
        BY <2>1, <2>2
<1> QED
    BY <1>2, <1>3 DEF MembersKept

\* UPDATE organization_members keeps that there is a row.
LEMMA WriteMemberKeeps ==
    ASSUME PeopleShaped, NEW t \in Tx, NEW role, NEW status, NEW event,
           WriteMember(t, role, status, event),
           status # "none" \/ status = member[call[t].org][call[t].who].status
    PROVE  UNCHANGED <<actor, users>> /\ MembersKept
<1> DEFINE o == call[t].org
           a == call[t].who
           old == member[o][a]
           row == SetColumns(old, role, status)
<1>1. CASE Rollback(t, "Database")
    BY <1>1, UnchangedKept DEF Rollback, tables
<1>2. CASE member' = [member EXCEPT ![o][a] = row] /\ UNCHANGED <<actor, users>>
    <2>1. CASE old = NoMember
        <3>1. row = member[o][a]
            BY <2>1 DEF SetColumns
        <3> HIDE DEF row
        <3> QED
            BY <1>2, <3>1, RowKept
    <2>2. CASE old # NoMember
        <3>1. row.status = status
            BY <2>2 DEF SetColumns, Member
        <3>2. CASE status # "none"
            <4> HIDE DEF row
            <4> QED
                BY <1>2, <3>1, <3>2, RowKept
        <3>3. CASE status = old.status /\ status = "none"
            <4>1. row.status = "none" /\ old.status = "none"
                BY <3>1, <3>3
            <4> HIDE DEF row
            <4>2. MembersKept
                <5>1. /\ DOMAIN member = Orgs /\ \A p \in Orgs : DOMAIN member[p] = Actors
                    BY DEF PeopleShaped
                <5>2. DOMAIN member' = Orgs /\ \A p \in Orgs : DOMAIN member'[p] = Actors
                    BY <1>2, <5>1
                <5>3. ASSUME NEW p \in Orgs, NEW b \in Actors, member[p][b].status # "none"
                      PROVE  member'[p][b].status # "none"
                    <6>1. ~(p = o /\ b = a)
                        BY <4>1, <5>3
                    <6>2. member'[p][b] = member[p][b]
                        BY <1>2, <5>1, <6>1
                    <6> QED
                        BY <5>3, <6>2
                <5> QED
                    BY <5>2, <5>3 DEF MembersKept
            <4> QED
                BY <1>2, <4>2
        <3> QED
            BY <3>2, <3>3
    <2> QED
        BY <2>1, <2>2
<1> QED
    BY <1>1, <1>2 DEF WriteMember

\* The departure's commit: every membership it has becomes left.
LEMMA LeaveCommitKeeps ==
    ASSUME PeopleShaped, NEW t \in Tx, LeaveCommit(t)
    PROVE  MembersKept /\ Departs(t)
<1> DEFINE a == call[t].by
<1>1. /\ member' = [o \in Orgs |-> IF o \in loc[t].memberships
                       THEN [member[o] EXCEPT ![a] = SetColumns(@, @.role, "left")]
                       ELSE member[o]]
      /\ users' = users \ {a} /\ actor' = [actor EXCEPT ![a] = "departed"]
      /\ End(t, "Ok") /\ pc[t] = "leave_next"
    BY DEF LeaveCommit, Leaver, Commit, At
<1>2. Departs(t)
    BY <1>1 DEF Departs, Leaving, Over
<1>3. /\ DOMAIN member = Orgs /\ \A p \in Orgs : DOMAIN member[p] = Actors
    BY DEF PeopleShaped
<1>4. DOMAIN member' = Orgs
    BY <1>1
<1>5. ASSUME NEW o \in Orgs
      PROVE  DOMAIN member'[o] = Actors
    <2>1. CASE o \in loc[t].memberships
        <3>1. member'[o] = [member[o] EXCEPT ![a] = SetColumns(@, @.role, "left")]
            BY <1>1, <2>1
        <3> QED
            BY <1>3, <3>1
    <2>2. CASE o \notin loc[t].memberships
        BY <1>1, <1>3, <2>2
    <2> QED
        BY <2>1, <2>2
<1>6. ASSUME NEW o \in Orgs, NEW b \in Actors, member[o][b].status # "none"
      PROVE  member'[o][b].status # "none"
    <2> DEFINE row == SetColumns(member[o][a], member[o][a].role, "left")
    <2>1. CASE o \in loc[t].memberships
        <3>1. member'[o] = [member[o] EXCEPT ![a] = row]
            BY <1>1, <2>1
        <3>2. b # a => member'[o][b] = member[o][b]
            BY <1>3, <3>1
        <3>3. CASE b = a
            <4>1. member'[o][b] = row
                BY <1>3, <3>1, <3>3
            <4>2. member[o][a] # NoMember
                BY <1>6, <3>3 DEF NoMember
            <4>3. row = Member(member[o][a].role, "left")
                BY <4>2 DEF SetColumns
            <4> QED
                BY <4>1, <4>3 DEF Member
        <3> QED
            BY <1>6, <3>2, <3>3
    <2>2. CASE o \notin loc[t].memberships
        <3>1. member'[o] = member[o]
            BY <1>1, <2>2
        <3> QED
            BY <1>6, <3>1
    <2> QED
        BY <2>1, <2>2
<1> QED
    BY <1>2, <1>4, <1>5, <1>6 DEF MembersKept

\* Steps that read, take locks or end without a write leave the tables alone.
LEMMA ReadsKeep ==
    ASSUME NEW t \in Tx,
           \/ Begin(t) \/ Cancel(t) \/ DeadlockAbort(t) \/ TakeLock(t) \/ LockOrganization(t)
           \/ CreateOrganization(t) \/ ChangeMemberRole(t) \/ SuspendMember(t)
           \/ ReactivateMember(t) \/ AddTeamMember(t) \/ InsertTeamMember(t)
           \/ ChangeTeamMemberRole(t) \/ RemoveTeamMember(t) \/ CreateChannel(t)
           \/ AddChannelMember(t) \/ LeaveActor(t) \/ LeaveChecks(t) \/ LeaveTeams(t)
           \/ LeaveAudit(t) \/ LeaveChannels(t)
    PROVE  UNCHANGED tables
<1>1. ASSUME NEW r, Rollback(t, r)
      PROVE  UNCHANGED tables
    BY <1>1 DEF Rollback
<1>2. ASSUME NEW p, NEW m, NEW rows, Start(t, p, m, rows)
      PROVE  UNCHANGED tables
    BY <1>2 DEF Start
<1>3. ASSUME NEW refusal, NEW unchanged, NEW from, Decide(t, refusal, unchanged, from)
      PROVE  UNCHANGED tables
    BY <1>1, <1>2, <1>3 DEF Decide
<1>4. CASE Begin(t) \/ TakeLock(t)
    BY <1>4 DEF Begin, TakeLock
<1>5. CASE Cancel(t) \/ DeadlockAbort(t) \/ LockOrganization(t) \/ CreateOrganization(t)
    BY <1>1, <1>2, <1>5 DEF Cancel, DeadlockAbort, LockOrganization, CreateOrganization
<1>6. CASE ChangeMemberRole(t) \/ SuspendMember(t) \/ ReactivateMember(t)
    BY <1>3, <1>6 DEF ChangeMemberRole, SuspendMember, ReactivateMember
<1>7. CASE AddTeamMember(t) \/ InsertTeamMember(t) \/ ChangeTeamMemberRole(t)
               \/ RemoveTeamMember(t)
    BY <1>1, <1>2, <1>7 DEF AddTeamMember, InsertTeamMember, ChangeTeamMemberRole,
                            RemoveTeamMember
<1>8. CASE CreateChannel(t) \/ AddChannelMember(t)
    BY <1>1, <1>2, <1>8 DEF CreateChannel, AddChannelMember
<1>9. CASE LeaveActor(t) \/ LeaveChecks(t)
    BY <1>1, <1>2, <1>9 DEF LeaveActor, LeaveChecks
<1>10. CASE LeaveTeams(t)
    BY <1>2, <1>10 DEF LeaveTeams
<1>11. CASE LeaveAudit(t)
    BY <1>1, <1>2, <1>11 DEF LeaveAudit
<1>12. CASE LeaveChannels(t)
    BY <1>1, <1>2, <1>12 DEF LeaveChannels
<1> QED
    BY <1>4, <1>5, <1>6, <1>7, <1>8, <1>9, <1>10, <1>11, <1>12

\* A tenant step makes nobody, erases no membership, and only a departure takes anyone.
LEMMA TenantPeople ==
    ASSUME PeopleShaped, NEW t \in Tx, Begin(t) \/ Step(t) \/ Cancel(t)
    PROVE  MembersKept /\ (UNCHANGED <<actor, users>> \/ Departs(t))
<1>1. CASE UNCHANGED tables
    BY <1>1, UnchangedKept DEF tables
<1>2. CASE InsertOrganization(t)
    <2>1. CASE Rollback(t, "SlugTaken")
        BY <1>1, <2>1 DEF Rollback
    <2>2. CASE /\ member' = [member EXCEPT ![call[t].org][call[t].by] =
                                 Member("owner", "active")]
               /\ UNCHANGED <<actor, users>>
        <3>1. Member("owner", "active").status # "none"
            BY DEF Member
        <3> QED
            BY <2>2, <3>1, RowKept
    <2> QED
        BY <1>2, <2>1, <2>2 DEF InsertOrganization
<1>3. CASE WriteMemberRole(t)
    BY <1>3, WriteMemberKeeps DEF WriteMemberRole
<1>4. CASE WriteSuspension(t)
    BY <1>4, WriteMemberKeeps DEF WriteSuspension
<1>5. CASE WriteReactivation(t)
    BY <1>5, WriteMemberKeeps DEF WriteReactivation
<1>6. CASE LeaveCommit(t)
    BY <1>6, LeaveCommitKeeps
<1>7. ASSUME NEW role, NEW event, WriteTeamMember(t, role, event)
      PROVE  UNCHANGED <<actor, users, member>>
    BY <1>7 DEF WriteTeamMember, Rollback, tables
<1>8. CASE CreateTeam(t) \/ WriteTeamMembership(t) \/ WriteTeamRole(t) \/ WriteTeamRemoval(t)
    <2>1. UNCHANGED <<actor, users, member>>
        BY <1>7, <1>8 DEF CreateTeam, WriteTeamMembership, WriteTeamRole, WriteTeamRemoval,
                          Rollback, tables
    <2> QED
        BY <2>1, UnchangedKept
<1>9. CASE WriteChannel(t) \/ WriteChannelMember(t)
    <2>1. UNCHANGED <<actor, users, member>>
        BY <1>9 DEF WriteChannel, WriteChannelMember, Rollback, tables
    <2> QED
        BY <2>1, UnchangedKept
<1> QED
    BY <1>1, <1>2, <1>3, <1>4, <1>5, <1>6, <1>8, <1>9, ReadsKeep
       DEF Step, MembershipStep, LeavingStep, TeamsStep, ChannelsStep

\* A transaction whose statement was another has come to p, or is done.
LEMMA Comes ==
    ASSUME Shaped, NEW t \in Tx
    PROVE  /\ \A r : End(t, r) \/ Rollback(t, r) => pc'[t] = "done"
           /\ \A p, m, rows : Start(t, p, m, rows) => pc'[t] = p
           /\ \A refusal, unchanged, from :
                  Decide(t, refusal, unchanged, from) => pc'[t] \in {"done", "write"}
<1>1. ASSUME NEW r, End(t, r) \/ Rollback(t, r)
      PROVE  pc'[t] = "done"
    BY <1>1 DEF Shaped, End, Rollback
<1>2. ASSUME NEW p, NEW m, NEW rows, Start(t, p, m, rows)
      PROVE  pc'[t] = p
    BY <1>2 DEF Shaped, Start
<1>3. ASSUME NEW refusal, NEW unchanged, NEW from, Decide(t, refusal, unchanged, from)
      PROVE  pc'[t] \in {"done", "write"}
    BY <1>1, <1>2, <1>3 DEF Decide
<1> QED
    BY <1>1, <1>2, <1>3

\* Where the steps of operations other than leave_service come to.
LEMMA TenantArrives ==
    ASSUME Shaped, NEW t \in Tx,
           \/ Begin(t) \/ Cancel(t) \/ DeadlockAbort(t) \/ LockOrganization(t)
           \/ MembershipStep(t) \/ TeamsStep(t) \/ ChannelsStep(t) \/ LeaveCommit(t)
    PROVE  pc'[t] \in {"leave_actor", "lock_actor", "lock_organization", "insert", "write",
                       "done"}
<1>1. CASE Begin(t)
    BY <1>1 DEF Begin, Shaped
<1>2. CASE Cancel(t) \/ DeadlockAbort(t) \/ LockOrganization(t)
    BY <1>2, Comes DEF Cancel, DeadlockAbort, LockOrganization
<1>3. ASSUME NEW role, NEW status, NEW event, WriteMember(t, role, status, event)
      PROVE  pc'[t] = "done"
    BY <1>3, Comes DEF WriteMember, Commit
<1>4. CASE CreateOrganization(t) \/ InsertOrganization(t)
    BY <1>4, Comes DEF CreateOrganization, InsertOrganization, Commit
<1>5. CASE ChangeMemberRole(t) \/ SuspendMember(t) \/ ReactivateMember(t)
    BY <1>5, Comes DEF ChangeMemberRole, SuspendMember, ReactivateMember
<1>6. CASE WriteMemberRole(t) \/ WriteSuspension(t) \/ WriteReactivation(t)
    BY <1>3, <1>6 DEF WriteMemberRole, WriteSuspension, WriteReactivation
<1>7. ASSUME NEW role, NEW event, WriteTeamMember(t, role, event)
      PROVE  pc'[t] = "done"
    BY <1>7, Comes DEF WriteTeamMember, Commit
<1>8. CASE CreateTeam(t) \/ WriteTeamMembership(t) \/ WriteTeamRole(t) \/ WriteTeamRemoval(t)
    BY <1>7, <1>8, Comes
       DEF CreateTeam, WriteTeamMembership, WriteTeamRole, WriteTeamRemoval, Commit
<1>9. CASE AddTeamMember(t) \/ InsertTeamMember(t)
    BY <1>9, Comes DEF AddTeamMember, InsertTeamMember
<1>10. CASE ChangeTeamMemberRole(t) \/ RemoveTeamMember(t)
    BY <1>10, Comes DEF ChangeTeamMemberRole, RemoveTeamMember
<1>11. CASE ChannelsStep(t)
    BY <1>11, Comes DEF ChannelsStep, CreateChannel, WriteChannel, AddChannelMember,
                        WriteChannelMember, Commit
<1>12. CASE LeaveCommit(t)
    BY <1>12, Comes DEF LeaveCommit, Commit
<1> QED
    BY <1>1, <1>2, <1>4, <1>5, <1>6, <1>8, <1>9, <1>10, <1>11, <1>12
       DEF MembershipStep, TeamsStep

\* They do not come to the points of a departure.
LEMMA NotLeaving ==
    ASSUME Shaped, NEW t \in Tx,
           \/ Begin(t) \/ Cancel(t) \/ DeadlockAbort(t) \/ LockOrganization(t)
           \/ MembershipStep(t) \/ TeamsStep(t) \/ ChannelsStep(t) \/ LeaveCommit(t)
    PROVE  ~Leaving(t)'
BY TenantArrives DEF Leaving

\* No tenant step comes to a point of a handler, or of invites.rs.
LEMMA TenantPoint ==
    ASSUME Shaped, NEW t \in Tx, Begin(t) \/ Step(t) \/ Cancel(t)
    PROVE  (TakeLock(t) /\ pc'[t] = pc[t]) \/ pc'[t] \in Points \ {"idle"}
<1>1. CASE TakeLock(t)
    BY <1>1 DEF TakeLock
<1>2. CASE LeaveActor(t) \/ LeaveChecks(t) \/ LeaveTeams(t)
    BY <1>2, Comes DEF LeaveActor, LeaveChecks, LeaveTeams, Points
<1>3. CASE LeaveAudit(t) \/ LeaveChannels(t)
    BY <1>3, Comes DEF LeaveAudit, LeaveChannels, Points
<1>4. CASE \/ Begin(t) \/ Cancel(t) \/ DeadlockAbort(t) \/ LockOrganization(t)
           \/ MembershipStep(t) \/ TeamsStep(t) \/ ChannelsStep(t) \/ LeaveCommit(t)
    BY <1>4, TenantArrives DEF Points
<1> QED
    BY <1>1, <1>2, <1>3, <1>4 DEF Step, LeavingStep

\* Whoever is leaving was leaving before, or is there.
LEMMA LeavingFrom ==
    ASSUME Shaped, NEW t \in Tx, Begin(t) \/ Step(t) \/ Cancel(t), Leaving(t)'
    PROVE  /\ call'[t] = call[t]
           /\ Leaving(t) \/ (call[t].op = "leave_service" /\ actor[call[t].by] = "live")
<1>1. ~Begin(t)
    BY NotLeaving
<1>2. UNCHANGED call
    BY <1>1, TenantKinds DEF Kinds, TakeLock, Over, End, Proceeds
<1>3. CASE TakeLock(t)
    BY <1>2, <1>3 DEF TakeLock, Leaving
<1>4. CASE LeaveActor(t)
    <2>1. ~Rollback(t, "NotFound")
        BY Comes DEF Leaving
    <2> QED
        BY <1>2, <1>4, <2>1 DEF LeaveActor, Leaver, At
<1>5. CASE LeaveChecks(t) \/ LeaveTeams(t) \/ LeaveAudit(t) \/ LeaveChannels(t)
    BY <1>2, <1>5 DEF LeaveChecks, LeaveTeams, LeaveAudit, LeaveChannels, At, Leaving
<1> QED
    BY <1>3, <1>4, <1>5, NotLeaving DEF Step, LeavingStep

----------------------------------------------------------------------------
(* The steps of invites, of handlers and of sessions.                      *)

\* A call of an invite or session operation, with what it makes not there yet.
Asks(t) ==
    /\ UNCHANGED <<tables, ivars>> /\ Called(t) /\ pc[t] = "idle"
    /\ call'[t].op \in PeopleOperations /\ InviteCallOK(call'[t]) /\ FreshInvite(call'[t])
    /\ pc'[t] \in {"begin", "web_session", "web_body", "done"}

\* A step of a handler, or of sessions.rs: it only answers, or goes on.
Aside(t) ==
    /\ UNCHANGED <<tables, ivars>> /\ (Over(t) \/ Proceeds(t) \/ Called(t))
    /\ call[t].op \in Routes /\ call'[t].op = call[t].op /\ InviteCallOK(call'[t])
    /\ pc[t] # "done" /\ pc'[t] \in {"begin", "web_hash", "verify", "sign_in_actor",
                                     "sign_in_insert", "done"}
    /\ call[t].op \in {"create_invite", "accept_invite"} => call'[t].invite = call[t].invite
    /\ Accepting(t) => call'[t].by = call[t].by

PeopleStep(t) ==
    \/ (Begin(t) \/ Step(t) \/ Cancel(t)) /\ KeepInvites
    \/ InvitesStep(t) \/ Asks(t) \/ Aside(t)

\* Every step of invites.rs ends its transaction or proceeds.
LEMMA InviteStepKinds ==
    ASSUME Shaped, NEW t \in Tx, InvitesStep(t)
    PROVE  Over(t) \/ Proceeds(t)
<1>1. ASSUME NEW r, Answer(t, r) \/ Rollback(t, r) \/ End(t, r)
      PROVE  Over(t)
    BY <1>1 DEF Answer, Rollback, Over
<1>2. ASSUME pc[t] # "done", NEW p, NEW m \in Modes, NEW rows, GoOn(t, p, m, rows)
      PROVE  Proceeds(t)
    BY <1>2, StartProceeds DEF GoOn, Shaped
<1>3. CASE LockInviter(t)
    <2> DEFINE rows == {ActorRow(a) : a \in {b \in {call[t].by} : SeesActor(b, b)}}
    <2>1. pc[t] = "begin" /\ GoOn(t, "invite_actor", Share, rows)
        BY <1>3 DEF LockInviter
    <2> HIDE DEF rows
    <2> QED
        BY <1>2, <2>1, ModeFacts
<1>4. CASE LockInviteOrganization(t)
    BY <1>1, <1>2, <1>4, ModeFacts DEF LockInviteOrganization
<1>5. CASE CreateInvite(t)
    BY <1>1, <1>2, <1>5, ModeFacts DEF CreateInvite, At
<1>6. CASE InsertInvite(t)
    BY <1>1, <1>6 DEF InsertInvite
<1>7. CASE RevokeInvite(t)
    BY <1>1, <1>2, <1>7, ModeFacts DEF RevokeInvite, At
<1>8. CASE WriteRevocation(t)
    BY <1>1, <1>8 DEF WriteRevocation
<1>9. CASE InviteIsUsable(t)
    BY <1>1, <1>9 DEF InviteIsUsable
<1>10. CASE AcceptInvite(t)
    BY <1>1, <1>2, <1>10, ModeFacts DEF AcceptInvite, At
<1>11. CASE AcceptPerson(t)
    BY <1>1, <1>2, <1>11, ModeFacts DEF AcceptPerson, At
<1>12. CASE AcceptMember(t)
    BY <1>1, <1>2, <1>12, ModeFacts DEF AcceptMember, At
<1>13. CASE CommitAcceptance(t)
    BY <1>1, <1>13 DEF CommitAcceptance, AdmitAs, Commit
<1> QED
    BY <1>3, <1>4, <1>5, <1>6, <1>7, <1>8, <1>9, <1>10, <1>11, <1>12, <1>13 DEF InvitesStep

\* A step of t, whatever it runs, leaves the others alone and obeys the locks.
LEMMA PeopleFrame ==
    ASSUME Shaped, LocksExclude, NEW t \in Tx, PeopleStep(t)
    PROVE  Only(t) /\ Shaped' /\ LocksExclude'
<1>1. Kinds(t) \/ Begin(t) \/ Called(t)
    BY TenantKinds, InviteStepKinds DEF PeopleStep, Kinds, Asks, Aside
<1>2. Only(t) /\ Shaped' /\ LockStep(t)
    BY <1>1, StepFrame
<1> QED
    BY <1>2, LocksExcludeStep
----------------------------------------------------------------------------
(* What is so of one transaction, kept by the steps of others and its own. *)

\* The points of an acceptance.
AcceptanceStands(u) ==
    LET c == call[u]
        i == c.invite
    IN /\ pc[u] # "done" => actor[c.by] = "absent"
       /\ pc[u] = "accept_person" => Claims(u, InviteRow(i), NoKeyUpdate)
       /\ pc[u] \in {"accept_email", "accept_member"} =>
              /\ held[u][InviteRow(i)] >= NoKeyUpdate
              /\ Unspent(i) /\ invite[i].kind = "organization"
       /\ pc[u] = "accept_email" => Claims(u, EmailKey(c.email), Update)
       /\ pc[u] = "accept_member" =>
              /\ held[u][EmailKey(c.email)] >= Update
              /\ \A a \in Actors : email[a] # c.email

\* A call of these operations is at a point of its course.
CourseStands(u) ==
    call[u].op \in PeopleOperations =>
        /\ InviteCallOK(call[u]) /\ pc[u] \in PeoplePoints
        /\ pc[u] \in {"invite_organization", "invite_insert", "invite_revoke"}
               => call[u].org \in Orgs

\* A revocation that has found its invite.
RevocationStands(u) ==
    LET i == call[u].invite
    IN /\ i \in InviteIds /\ invite[i] # NoInvite
       /\ Claims(u, InviteRow(i), Update)

Stands(u) ==
    /\ CourseStands(u)
    /\ Accepting(u) => AcceptanceStands(u)
    /\ call[u].op = "create_invite" /\ pc[u] # "done" => invite[call[u].invite] = NoInvite
    /\ call[u].op = "revoke_invite" /\ pc[u] = "invite_revoke" => RevocationStands(u)
    /\ call[u].op = "leave_service" => call[u].by \in Actors
    /\ Leaving(u) => call[u].op = "leave_service" /\ actor[call[u].by] # "absent"

\* No two calls make the same.
Apart(t, u) ==
    /\ Accepting(t) /\ Accepting(u) => call[u].by # call[t].by
    /\ call[t].op = "create_invite" /\ call[u].op = "create_invite"
           => call[u].invite # call[t].invite

\* The parts of the invariant, transaction by transaction.
AllStand == \A u \in Tx : Stands(u)
AllApart == \A t, u \in Tx : t # u => Apart(t, u)

LEMMA StandsParts ==
    AllStand /\ AllApart
        <=> /\ PeopleCourse /\ NewcomersFresh /\ InvitesFresh /\ InviteHeld /\ EmailHeld
            /\ RevocationHeld /\ LeaverThere
<1>1. ASSUME \A u \in Tx : Stands(u), \A t, u \in Tx : t # u => Apart(t, u)
      PROVE  /\ PeopleCourse /\ NewcomersFresh /\ InvitesFresh /\ InviteHeld /\ EmailHeld
             /\ RevocationHeld /\ LeaverThere
    <2>1. PeopleCourse /\ LeaverThere
        BY <1>1 DEF Stands, CourseStands, PeopleCourse, LeaverThere
    <2>2. NewcomersFresh
        BY <1>1 DEF Stands, AcceptanceStands, Apart, NewcomersFresh
    <2>3. InvitesFresh
        BY <1>1 DEF Stands, Apart, InvitesFresh
    <2>4. InviteHeld /\ EmailHeld
        BY <1>1 DEF Stands, AcceptanceStands, InviteHeld, EmailHeld
    <2>5. RevocationHeld
        BY <1>1 DEF Stands, RevocationStands, RevocationHeld
    <2> QED
        BY <2>1, <2>2, <2>3, <2>4, <2>5
<1>2. ASSUME PeopleCourse, NewcomersFresh, InvitesFresh, InviteHeld, EmailHeld,
             RevocationHeld, LeaverThere
      PROVE  (\A u \in Tx : Stands(u)) /\ \A t, u \in Tx : t # u => Apart(t, u)
    <2>1. ASSUME NEW u \in Tx
          PROVE  Stands(u)
        <3>1. CourseStands(u)
            BY <1>2 DEF CourseStands, PeopleCourse
        <3>2. Accepting(u) => AcceptanceStands(u)
            BY <1>2 DEF AcceptanceStands, NewcomersFresh, InviteHeld, EmailHeld
        <3>3. call[u].op = "revoke_invite" /\ pc[u] = "invite_revoke" => RevocationStands(u)
            BY <1>2 DEF RevocationStands, RevocationHeld
        <3> QED
            BY <1>2, <3>1, <3>2, <3>3 DEF Stands, InvitesFresh, LeaverThere
    <2>2. ASSUME NEW t \in Tx, NEW u \in Tx, t # u
          PROVE  Apart(t, u)
        BY <1>2, <2>2 DEF Apart, NewcomersFresh, InvitesFresh
    <2> QED
        BY <2>1, <2>2
<1> QED
    BY <1>1, <1>2 DEF AllStand, AllApart

\* What a transaction's facts need of a step that leaves its control alone.
LEMMA StandsKept ==
    ASSUME NEW u \in Tx, Stands(u),
           pc'[u] = pc[u], call'[u] = call[u], held'[u] = held[u], todo'[u] = todo[u],
           Accepting(u) /\ pc[u] # "done" => actor'[call[u].by] = "absent",
           Leaving(u) => actor'[call[u].by] # "absent",
           Accepting(u) /\ pc[u] \in {"accept_email", "accept_member"} =>
               Unspent(call[u].invite)' /\ invite'[call[u].invite].kind = "organization",
           Accepting(u) /\ pc[u] = "accept_member" =>
               \A a \in Actors : email'[a] # call[u].email,
           call[u].op = "create_invite" /\ pc[u] # "done" => invite'[call[u].invite] = NoInvite,
           \A i \in InviteIds : invite[i] # NoInvite => invite'[i] # NoInvite
    PROVE  Stands(u)'
<1>1. \A r, m : Claims(u, r, m)' <=> Claims(u, r, m)
    BY DEF Claims
<1>2. Accepting(u)' <=> Accepting(u)
    BY DEF Accepting
<1>4. CourseStands(u)'
    BY DEF Stands, CourseStands
<1>5. Accepting(u) => AcceptanceStands(u)'
    <2> SUFFICES ASSUME Accepting(u) PROVE AcceptanceStands(u)'
        OBVIOUS
    <2>1. AcceptanceStands(u)
        BY DEF Stands
    <2> QED
        BY <1>1, <2>1 DEF AcceptanceStands
<1>6. call[u].op = "revoke_invite" /\ pc[u] = "invite_revoke" => RevocationStands(u)'
    BY <1>1 DEF Stands, RevocationStands
<1>7. Leaving(u)' <=> Leaving(u)
    BY DEF Leaving
<1> QED
    BY <1>2, <1>4, <1>5, <1>6, <1>7 DEF Stands
----------------------------------------------------------------------------
(* What a step does to people and invites: one of five things.             *)

Quiet == MembersKept /\ UNCHANGED <<actor, users, ivars>>

Leaves(t) == Departs(t) /\ MembersKept /\ KeepInvites

Inserts(t) ==
    LET c == call[t]
    IN /\ At(t, "invite_insert", "create_invite")
       /\ invite' = [invite EXCEPT ![c.invite] =
              [NoInvite EXCEPT !.org = c.org, !.kind = "organization", !.max = c.max]]
       /\ recorded' = invite_created(c.invite) /\ UNCHANGED <<tables, email>>

\* Nothing is written.
LEMMA QuietSteps ==
    ASSUME PeopleShaped, UNCHANGED <<tables, ivars>>
    PROVE  Quiet
BY UnchangedKept DEF Quiet, tables

\* The steps of invites.rs that write are the three commits.
LEMMA InviteChange ==
    ASSUME PeopleShaped, NEW t \in Tx, InvitesStep(t)
    PROVE  Quiet \/ Inserts(t) \/ WriteRevocation(t) \/ CommitAcceptance(t)
<1>1. ASSUME NEW r, Answer(t, r)
      PROVE  Quiet
    BY <1>1, QuietSteps DEF Answer, Rollback
<1>2. ASSUME NEW p, NEW m, NEW rows, GoOn(t, p, m, rows)
      PROVE  Quiet
    BY <1>2, QuietSteps DEF GoOn, Start
<1>3. CASE LockInviter(t)
    <2> DEFINE rows == {ActorRow(a) : a \in {b \in {call[t].by} : SeesActor(b, b)}}
    <2>1. GoOn(t, "invite_actor", Share, rows)
        BY <1>3 DEF LockInviter
    <2> HIDE DEF rows
    <2> QED
        BY <1>2, <2>1
<1>4. CASE LockInviteOrganization(t)
    BY <1>1, <1>2, <1>4 DEF LockInviteOrganization
<1>5. CASE CreateInvite(t)
    BY <1>1, <1>2, <1>5 DEF CreateInvite
<1>6. CASE InsertInvite(t)
    BY <1>1, <1>6 DEF InsertInvite, Inserts, Rollback
<1>7. CASE RevokeInvite(t)
    BY <1>1, <1>2, <1>7 DEF RevokeInvite
<1>8. CASE InviteIsUsable(t)
    BY <1>1, <1>8 DEF InviteIsUsable
<1>9. CASE AcceptInvite(t)
    BY <1>1, <1>2, <1>9 DEF AcceptInvite
<1>10. CASE AcceptPerson(t)
    BY <1>1, <1>2, <1>10 DEF AcceptPerson
<1>11. CASE AcceptMember(t)
    BY <1>1, <1>2, <1>11 DEF AcceptMember
<1> QED
    BY <1>3, <1>4, <1>5, <1>6, <1>7, <1>8, <1>9, <1>10, <1>11 DEF InvitesStep

\* Emails go with their users rows, and with nothing else.
LEMMA EmailsStay ==
    ASSUME PeopleShaped, NobodyIsHalfCreated, KeepInvites, UNCHANGED users
    PROVE  UNCHANGED ivars
<1>1. DOMAIN email = Actors /\ email = [a \in Actors |-> email[a]]
    BY DEF PeopleShaped
<1>2. \A a \in Actors : a \notin users => email[a] = 0
    BY DEF NobodyIsHalfCreated
<1>3. email' = [a \in Actors |-> IF a \in users THEN email[a] ELSE 0]
    BY DEF KeepInvites
<1>4. email' = email
    BY <1>1, <1>2, <1>3
<1> QED
    BY <1>4 DEF KeepInvites, ivars

LEMMA PeopleChange ==
    ASSUME PeopleInvariant, NEW t \in Tx, PeopleStep(t)
    PROVE  Quiet \/ Leaves(t) \/ Inserts(t) \/ WriteRevocation(t) \/ CommitAcceptance(t)
<1>1. PeopleShaped /\ NobodyIsHalfCreated
    BY DEF PeopleInvariant
<1>2. CASE (Begin(t) \/ Step(t) \/ Cancel(t)) /\ KeepInvites
    <2>1. MembersKept /\ (UNCHANGED <<actor, users>> \/ Departs(t))
        BY <1>1, <1>2, TenantPeople
    <2>2. CASE UNCHANGED <<actor, users>>
        BY <1>1, <1>2, <2>1, <2>2, EmailsStay DEF Quiet
    <2> QED
        BY <1>2, <2>1, <2>2 DEF Leaves
<1>3. CASE Asks(t) \/ Aside(t)
    BY <1>1, <1>3, QuietSteps DEF Asks, Aside
<1> QED
    BY <1>1, <1>2, <1>3, InviteChange DEF PeopleStep

----------------------------------------------------------------------------
(* The three commits of invites.rs, row by row.                            *)

\* An invite that was made is a row of its own.
LEMMA RowsOfInvites ==
    /\ NoInvite.used = 0 /\ NoInvite.max = 0 /\ NoInvite.kind = "none"
    /\ NoInvite.org = 0 /\ ~NoInvite.revoked /\ ~NoInvite.expired
    /\ \A r \in InviteRows :
           /\ r.used \in Nat /\ r.max \in Nat
           /\ r # NoInvite => r.org \in Orgs /\ r.kind \in InviteKinds /\ r.kind # "none"
BY DEF NoInvite, InviteRows, InviteKinds

\* Columns of an invite that change.
LEMMA InviteColumns ==
    ASSUME NEW r \in InviteRows, r # NoInvite
    PROVE  /\ [r EXCEPT !.used = @ + 1] \in InviteRows
           /\ [r EXCEPT !.revoked = TRUE] \in InviteRows
           /\ [r EXCEPT !.expired = TRUE] \in InviteRows
           /\ [r EXCEPT !.used = @ + 1].used = r.used + 1
           /\ [r EXCEPT !.used = @ + 1].max = r.max
           /\ [r EXCEPT !.used = @ + 1].org = r.org
           /\ [r EXCEPT !.used = @ + 1].kind = r.kind
           /\ [r EXCEPT !.used = @ + 1].revoked = r.revoked
           /\ [r EXCEPT !.revoked = TRUE].used = r.used
           /\ [r EXCEPT !.revoked = TRUE].max = r.max
           /\ [r EXCEPT !.revoked = TRUE].org = r.org
           /\ [r EXCEPT !.revoked = TRUE].kind = r.kind
           /\ [r EXCEPT !.revoked = TRUE].revoked
           /\ [r EXCEPT !.expired = TRUE].used = r.used
           /\ [r EXCEPT !.expired = TRUE].max = r.max
           /\ [r EXCEPT !.expired = TRUE].org = r.org
           /\ [r EXCEPT !.expired = TRUE].kind = r.kind
           /\ [r EXCEPT !.expired = TRUE].revoked = r.revoked
<1>1. r \in [org : Orgs, kind : InviteKinds, max : Nat \ {0}, used : Nat,
             revoked : BOOLEAN, expired : BOOLEAN]
    BY DEF InviteRows
<1> DEFINE R == [org : Orgs, kind : InviteKinds, max : Nat \ {0}, used : Nat,
                 revoked : BOOLEAN, expired : BOOLEAN]
<1>2. /\ [r EXCEPT !.used = @ + 1] \in R
      /\ [r EXCEPT !.revoked = TRUE] \in R
      /\ [r EXCEPT !.expired = TRUE] \in R
    <2>1. r.used + 1 \in Nat
        BY <1>1
    <2>2. [r EXCEPT !.used = r.used + 1] \in R
        BY <1>1, <2>1
    <2>3. [r EXCEPT !.revoked = TRUE] \in R
        BY <1>1
    <2>4. [r EXCEPT !.expired = TRUE] \in R
        BY <1>1
    <2> QED
        BY <2>2, <2>3, <2>4
<1>3. R \subseteq InviteRows
    BY DEF InviteRows
<1>4. DOMAIN r = {"org", "kind", "max", "used", "revoked", "expired"}
    BY <1>1
<1>5. /\ [r EXCEPT !.used = @ + 1].used = r.used + 1
      /\ [r EXCEPT !.used = @ + 1].max = r.max
      /\ [r EXCEPT !.used = @ + 1].org = r.org
      /\ [r EXCEPT !.used = @ + 1].kind = r.kind
    BY <1>4
<1>6. /\ [r EXCEPT !.revoked = TRUE].used = r.used
      /\ [r EXCEPT !.revoked = TRUE].max = r.max
      /\ [r EXCEPT !.revoked = TRUE].org = r.org
      /\ [r EXCEPT !.revoked = TRUE].kind = r.kind
    BY <1>4
<1>7. /\ [r EXCEPT !.expired = TRUE].used = r.used
      /\ [r EXCEPT !.expired = TRUE].max = r.max
      /\ [r EXCEPT !.expired = TRUE].org = r.org
      /\ [r EXCEPT !.expired = TRUE].kind = r.kind
    BY <1>4
<1>8. /\ [r EXCEPT !.used = @ + 1].revoked = r.revoked
      /\ [r EXCEPT !.expired = TRUE].revoked = r.revoked
      /\ [r EXCEPT !.revoked = TRUE].revoked
    BY <1>4
<1> QED
    BY <1>2, <1>3, <1>5, <1>6, <1>7, <1>8
Records == [created : Nat, revoked : Nat, joined : SUBSET Actors]

\* Columns of an invite's records that change.
LEMMA RecordColumns ==
    ASSUME NEW r \in Records, NEW a \in Actors
    PROVE  /\ [r EXCEPT !.created = @ + 1] \in Records
           /\ [r EXCEPT !.revoked = @ + 1] \in Records
           /\ [r EXCEPT !.joined = @ \cup {a}] \in Records
           /\ [r EXCEPT !.created = @ + 1].created = r.created + 1
           /\ [r EXCEPT !.created = @ + 1].revoked = r.revoked
           /\ [r EXCEPT !.created = @ + 1].joined = r.joined
           /\ [r EXCEPT !.revoked = @ + 1].created = r.created
           /\ [r EXCEPT !.revoked = @ + 1].revoked = r.revoked + 1
           /\ [r EXCEPT !.revoked = @ + 1].joined = r.joined
           /\ [r EXCEPT !.joined = @ \cup {a}].created = r.created
           /\ [r EXCEPT !.joined = @ \cup {a}].revoked = r.revoked
           /\ [r EXCEPT !.joined = @ \cup {a}].joined = r.joined \cup {a}
<1>1. r.created + 1 \in Nat /\ r.revoked + 1 \in Nat /\ r.joined \cup {a} \in SUBSET Actors
    BY DEF Records
<1>2. [r EXCEPT !.created = r.created + 1] \in Records
    BY <1>1 DEF Records
<1>3. [r EXCEPT !.revoked = r.revoked + 1] \in Records
    BY <1>1 DEF Records
<1>4. [r EXCEPT !.joined = r.joined \cup {a}] \in Records
    BY <1>1 DEF Records
<1>5. DOMAIN r = {"created", "revoked", "joined"}
    BY DEF Records
<1> QED
    BY <1>2, <1>3, <1>4, <1>5

\* The tables of invites are functions on the identifiers.
LEMMA InviteTables ==
    ASSUME PeopleShaped
    PROVE  /\ DOMAIN invite = InviteIds /\ DOMAIN recorded = InviteIds /\ DOMAIN email = Actors
           /\ \A i \in InviteIds : invite[i] \in InviteRows /\ recorded[i] \in Records
           /\ invite = [i \in InviteIds |-> invite[i]]
           /\ recorded = [i \in InviteIds |-> recorded[i]]
BY DEF PeopleShaped, Records

\* What the transaction that takes a step stands on.
LEMMA StandsNow ==
    ASSUME PeopleInvariant, NEW t \in Tx
    PROVE  Stands(t) /\ \A u \in Tx : u # t => Apart(t, u) /\ Apart(u, t)
BY StandsParts DEF PeopleInvariant, AllStand, AllApart

\* create_invite's commit.
LEMMA InsertRow ==
    ASSUME PeopleInvariant, NEW t \in Tx, Inserts(t)
    PROVE  LET i == call[t].invite
           IN /\ i \in InviteIds /\ invite[i] = NoInvite
              /\ invite'[i] \in InviteRows /\ invite'[i] # NoInvite
              /\ invite'[i].used = 0 /\ ~invite'[i].revoked
              /\ recorded'[i] \in Records
              /\ recorded'[i].created = recorded[i].created + 1
              /\ recorded'[i].revoked = recorded[i].revoked
              /\ recorded'[i].joined = recorded[i].joined
              /\ DOMAIN invite' = InviteIds /\ DOMAIN recorded' = InviteIds
              /\ \A j \in InviteIds : j # i => invite'[j] = invite[j] /\ recorded'[j] = recorded[j]
<1> DEFINE i == call[t].invite
           row == [NoInvite EXCEPT !.org = call[t].org, !.kind = "organization",
                                   !.max = call[t].max]
<1>1. call[t].op = "create_invite" /\ pc[t] = "invite_insert"
    BY DEF Inserts, At
<1>2. Stands(t)
    BY StandsNow
<1>3. call[t].op \in PeopleOperations
    BY <1>1 DEF PeopleOperations, InviteOperations
<1>4. InviteCallOK(call[t]) /\ call[t].org \in Orgs
    BY <1>1, <1>2, <1>3 DEF Stands, CourseStands
<1>5. i \in InviteIds /\ call[t].max \in Nat \ {0} /\ invite[i] = NoInvite
    BY <1>1, <1>2, <1>4 DEF InviteCallOK, Stands
<1>6. row \in InviteRows /\ row # NoInvite
    <2>1. /\ DOMAIN NoInvite = {"org", "kind", "max", "used", "revoked", "expired"}
          /\ NoInvite.used = 0 /\ NoInvite.kind = "none"
          /\ NoInvite.revoked \in BOOLEAN /\ NoInvite.expired \in BOOLEAN
        BY DEF NoInvite
    <2>2. row.kind = "organization" /\ row.org = call[t].org /\ row.max = call[t].max
        BY <2>1
    <2>3. row.used = 0 /\ row.revoked \in BOOLEAN /\ row.expired \in BOOLEAN
        BY <2>1
    <2> DEFINE Wide == [org : Nat, kind : {"none", "organization"}, max : Nat, used : Nat,
                        revoked : BOOLEAN, expired : BOOLEAN]
    <2>4. row \in Wide
        <3>1. NoInvite \in Wide
            BY DEF NoInvite
        <3>2. call[t].org \in Nat /\ call[t].max \in Nat
            BY <1>4, <1>5, IdentifiersAssumption
        <3> QED
            BY <3>1, <3>2
    <2>5. row # NoInvite
        BY <2>1, <2>2
    <2> HIDE DEF row
    <2>6. row \in [org : Orgs, kind : InviteKinds, max : Nat \ {0}, used : Nat,
                   revoked : BOOLEAN, expired : BOOLEAN]
        BY <1>4, <1>5, <2>2, <2>3, <2>4 DEF InviteKinds
    <2> QED
        BY <2>5, <2>6 DEF InviteRows
<1>7. row.used = 0 /\ ~row.revoked
    BY DEF NoInvite
<1>8. /\ invite' = [invite EXCEPT ![i] = row]
      /\ recorded' = [recorded EXCEPT ![i].created = @ + 1]
    BY DEF Inserts, invite_created
<1>9. /\ DOMAIN invite = InviteIds /\ DOMAIN recorded = InviteIds /\ recorded[i] \in Records
    BY <1>5, InviteTables DEF PeopleInvariant
<1> HIDE DEF row
<1>10. invite'[i] = row /\ recorded'[i] = [recorded[i] EXCEPT !.created = @ + 1]
    BY <1>5, <1>8, <1>9
<1>11. /\ DOMAIN invite' = InviteIds /\ DOMAIN recorded' = InviteIds
       /\ \A j \in InviteIds : j # i => invite'[j] = invite[j] /\ recorded'[j] = recorded[j]
    BY <1>8, <1>9
<1>12. /\ recorded'[i] \in Records
       /\ recorded'[i].created = recorded[i].created + 1
       /\ recorded'[i].revoked = recorded[i].revoked
       /\ recorded'[i].joined = recorded[i].joined
    <2>1. DOMAIN recorded[i] = {"created", "revoked", "joined"}
        BY <1>9 DEF Records
    <2>2. recorded[i].created + 1 \in Nat
        BY <1>9 DEF Records
    <2>3. [recorded[i] EXCEPT !.created = recorded[i].created + 1] \in Records
        BY <1>9, <2>2 DEF Records
    <2> QED
        BY <1>10, <2>1, <2>3
<1> QED
    BY <1>5, <1>6, <1>7, <1>10, <1>11, <1>12

\* revoke_invite's commit: it holds the invite.
LEMMA RevokeRow ==
    ASSUME PeopleInvariant, NEW t \in Tx, WriteRevocation(t)
    PROVE  LET i == call[t].invite
               again == invite[i].revoked
           IN /\ i \in InviteIds /\ invite[i] # NoInvite
              /\ held[t][InviteRow(i)] >= Update
              /\ invite'[i] = [invite[i] EXCEPT !.revoked = TRUE]
              /\ again => recorded'[i] = recorded[i]
              /\ ~again => recorded'[i] = [recorded[i] EXCEPT !.revoked = @ + 1]
              /\ DOMAIN invite' = InviteIds /\ DOMAIN recorded' = InviteIds
              /\ \A j \in InviteIds : j # i => invite'[j] = invite[j] /\ recorded'[j] = recorded[j]
              /\ UNCHANGED <<tables, email>>
<1> DEFINE i == call[t].invite
<1>1. At(t, "invite_revoke", "revoke_invite")
    BY DEF WriteRevocation
<1>2. RevocationStands(t)
    BY <1>1, StandsNow DEF Stands, At
<1>3. i \in InviteIds /\ invite[i] # NoInvite /\ held[t][InviteRow(i)] >= Update
    BY <1>1, <1>2, ClaimReturned DEF RevocationStands, At
<1>4. DOMAIN invite = InviteIds /\ DOMAIN recorded = InviteIds
    BY InviteTables DEF PeopleInvariant
<1>5. /\ invite' = [invite EXCEPT ![i].revoked = TRUE]
      /\ recorded' = IF invite[i].revoked THEN recorded
                     ELSE [recorded EXCEPT ![i].revoked = @ + 1]
      /\ UNCHANGED <<tables, email>>
    BY DEF WriteRevocation, invite_revoked, Rollback
<1>6. /\ invite'[i] = [invite[i] EXCEPT !.revoked = TRUE] /\ DOMAIN invite' = InviteIds
      /\ \A j \in InviteIds : j # i => invite'[j] = invite[j]
    BY <1>3, <1>4, <1>5
<1>7. CASE invite[i].revoked
    BY <1>3, <1>4, <1>5, <1>6, <1>7
<1>8. CASE ~invite[i].revoked
    <2>1. recorded' = [recorded EXCEPT ![i].revoked = @ + 1]
        BY <1>5, <1>8
    <2>2. /\ recorded'[i] = [recorded[i] EXCEPT !.revoked = @ + 1] /\ DOMAIN recorded' = InviteIds
          /\ \A j \in InviteIds : j # i => recorded'[j] = recorded[j]
        BY <1>3, <1>4, <2>1
    <2> QED
        BY <1>3, <1>5, <1>6, <1>8, <2>2
<1> QED
    BY <1>7, <1>8
\* What an acceptance stands on when it commits.
LEMMA AdmitStands ==
    ASSUME PeopleInvariant, NEW t \in Tx, CommitAcceptance(t)
    PROVE  LET c == call[t]
               i == c.invite
           IN /\ Accepting(t) /\ pc[t] = "accept_member"
              /\ c.by \in Actors /\ i \in InviteIds /\ c.email \in Emails
              /\ Unspent(i) /\ invite[i].kind = "organization" /\ invite[i] # NoInvite
              /\ invite[i].org \in Orgs /\ actor[c.by] = "absent"
              /\ held[t][InviteRow(i)] >= NoKeyUpdate /\ held[t][EmailKey(c.email)] >= Update
              /\ \A a \in Actors : email[a] # c.email
<1> DEFINE c == call[t]
           i == c.invite
<1>1. Accepting(t) /\ pc[t] = "accept_member"
    BY DEF CommitAcceptance, AdmitAs, At, Accepting
<1>2. Stands(t)
    BY StandsNow
<1>3. AcceptanceStands(t)
    BY <1>1, <1>2 DEF Stands
<1>4. InviteCallOK(c)
    BY <1>1, <1>2 DEF Stands, CourseStands, Accepting, PeopleOperations, InviteOperations
<1>5. c.by \in Actors /\ i \in InviteIds /\ c.email \in Emails
    BY <1>1, <1>4 DEF InviteCallOK, Accepting
<1>6. /\ Unspent(i) /\ invite[i].kind = "organization" /\ actor[c.by] = "absent"
      /\ held[t][InviteRow(i)] >= NoKeyUpdate /\ held[t][EmailKey(c.email)] >= Update
      /\ \A a \in Actors : email[a] # c.email
    BY <1>1, <1>3 DEF AcceptanceStands
<1>7. invite[i] \in InviteRows
    BY <1>5, InviteTables DEF PeopleInvariant
<1>8. invite[i] # NoInvite /\ invite[i].org \in Orgs
    BY <1>6, <1>7, RowsOfInvites
<1> QED
    BY <1>1, <1>5, <1>6, <1>8

\* accept_invite's commit, table by table.
LEMMA AdmitRow ==
    ASSUME PeopleInvariant, NEW t \in Tx, CommitAcceptance(t)
    PROVE  LET c == call[t]
               i == c.invite
           IN /\ invite'[i] = [invite[i] EXCEPT !.used = @ + 1]
              /\ recorded'[i] = [recorded[i] EXCEPT !.joined = @ \cup {c.by}]
              /\ DOMAIN invite' = InviteIds /\ DOMAIN recorded' = InviteIds
              /\ \A j \in InviteIds : j # i => invite'[j] = invite[j] /\ recorded'[j] = recorded[j]
              /\ DOMAIN email' = Actors /\ email'[c.by] = c.email
              /\ DOMAIN actor' = Actors /\ actor'[c.by] = "live"
              /\ \A a \in Actors : a # c.by => email'[a] = email[a] /\ actor'[a] = actor[a]
              /\ users' = users \cup {c.by}
<1> DEFINE c == call[t]
           i == c.invite
<1>1. i \in InviteIds /\ c.by \in Actors
    BY AdmitStands
<1>2. DOMAIN invite = InviteIds /\ DOMAIN recorded = InviteIds /\ DOMAIN email = Actors
    BY InviteTables DEF PeopleInvariant
<1>3. DOMAIN actor = Actors
    BY DEF PeopleInvariant, PeopleShaped
<1>4. /\ invite' = [invite EXCEPT ![i].used = @ + 1]
      /\ recorded' = [recorded EXCEPT ![i].joined = @ \cup {c.by}]
      /\ email' = [email EXCEPT ![c.by] = c.email]
      /\ users' = users \cup {c.by}
      /\ actor' = [actor EXCEPT ![c.by] = "live"]
    BY DEF CommitAcceptance, AdmitAs, member_invited
<1> HIDE DEF c, i
<1>5. /\ invite'[i] = [invite[i] EXCEPT !.used = @ + 1] /\ DOMAIN invite' = InviteIds
      /\ \A j \in InviteIds : j # i => invite'[j] = invite[j]
    BY <1>1, <1>2, <1>4
<1>6. /\ recorded'[i] = [recorded[i] EXCEPT !.joined = @ \cup {c.by}]
      /\ DOMAIN recorded' = InviteIds
      /\ \A j \in InviteIds : j # i => recorded'[j] = recorded[j]
    BY <1>1, <1>2, <1>4
<1>7. /\ DOMAIN email' = Actors /\ email'[c.by] = c.email
      /\ DOMAIN actor' = Actors /\ actor'[c.by] = "live"
      /\ \A a \in Actors : a # c.by => email'[a] = email[a] /\ actor'[a] = actor[a]
    BY <1>1, <1>2, <1>3, <1>4
<1> QED
    BY <1>4, <1>5, <1>6, <1>7 DEF c, i

\* The membership it makes.
LEMMA AdmitMember ==
    ASSUME PeopleInvariant, NEW t \in Tx, CommitAcceptance(t)
    PROVE  /\ member'[invite[call[t].invite].org][call[t].by] = Member("member", "active")
           /\ MembersKept
<1> DEFINE c == call[t]
           o == invite[c.invite].org
           row == Member("member", "active")
<1>1. c.by \in Actors /\ o \in Orgs
    BY AdmitStands
<1>2. member' = [member EXCEPT ![o][c.by] = row]
    BY DEF CommitAcceptance, AdmitAs
<1>3. PeopleShaped
    BY DEF PeopleInvariant
<1>4. row.status # "none"
    BY DEF Member
<1> HIDE DEF c, o, row
<1>5. MembersKept
    BY <1>2, <1>3, <1>4, RowKept
<1>6. member'[o][c.by] = row
    BY <1>1, <1>2, <1>3 DEF PeopleShaped
<1> QED
    BY <1>5, <1>6 DEF c, o, row

\* Nobody who was there becomes absent, and no invite goes.
LEMMA NothingUnmade ==
    ASSUME PeopleInvariant, NEW t \in Tx, PeopleStep(t)
    PROVE  /\ \A a \in Actors : actor[a] # "absent" => actor'[a] # "absent"
           /\ \A i \in InviteIds : invite[i] # NoInvite => invite'[i] # NoInvite
<1>1. CASE Quiet
    BY <1>1 DEF Quiet, ivars
<1>2. CASE Leaves(t)
    <2>1. actor' = [actor EXCEPT ![call[t].by] = "departed"] /\ DOMAIN actor = Actors
        BY <1>2 DEF Leaves, Departs, PeopleInvariant, PeopleShaped
    <2>2. UNCHANGED invite
        BY <1>2 DEF Leaves, KeepInvites
    <2> QED
        BY <2>1, <2>2
<1>3. CASE Inserts(t)
    <2>1. UNCHANGED actor
        BY <1>3 DEF Inserts, tables
    <2> QED
        BY <1>3, <2>1, InsertRow
<1>4. ASSUME NEW i \in InviteIds, invite[i] # NoInvite,
             \/ invite'[i] = [invite[i] EXCEPT !.revoked = TRUE]
             \/ invite'[i] = [invite[i] EXCEPT !.used = @ + 1]
      PROVE  invite'[i] # NoInvite
    <2>1. invite[i] \in InviteRows
        BY InviteTables DEF PeopleInvariant
    <2>2. invite'[i].kind = invite[i].kind
        BY <1>4, <2>1, InviteColumns
    <2> QED
        BY <1>4, <2>1, <2>2, RowsOfInvites
<1>5. CASE WriteRevocation(t)
    <2>1. UNCHANGED actor
        BY <1>5, RevokeRow DEF tables
    <2> QED
        BY <1>4, <1>5, <2>1, RevokeRow
<1>6. CASE CommitAcceptance(t)
    <2> DEFINE c == call[t]
    <2>1. c.invite \in InviteIds /\ invite[c.invite] # NoInvite
        BY <1>6, AdmitStands
    <2>2. /\ invite'[c.invite] = [invite[c.invite] EXCEPT !.used = @ + 1]
          /\ \A j \in InviteIds : j # c.invite => invite'[j] = invite[j]
        BY <1>6, AdmitRow
    <2>3. /\ actor'[c.by] = "live"
          /\ \A a \in Actors : a # c.by => actor'[a] = actor[a]
        BY <1>6, AdmitRow
    <2> HIDE DEF c
    <2>4. invite'[c.invite] # NoInvite
        BY <1>4, <2>1, <2>2
    <2> QED
        BY <2>2, <2>3, <2>4
<1> QED
    BY <1>1, <1>2, <1>3, <1>5, <1>6, PeopleChange
\* The step of another transaction leaves these facts standing.
LEMMA StandsForOthers ==
    ASSUME PeopleInvariant, NEW t \in Tx, NEW u \in Tx, t # u, PeopleStep(t)
    PROVE  Stands(u)'
<1> DEFINE c == call[u]
           d == call[t]
<1>1. Stands(u) /\ Apart(t, u)
    BY StandsNow
<1>2. Shaped /\ LocksExclude /\ PeopleShaped
    BY DEF PeopleInvariant
<1>3. Only(t)
    BY <1>2, PeopleFrame
<1>4. /\ pc'[u] = pc[u] /\ call'[u] = call[u] /\ held'[u] = held[u] /\ todo'[u] = todo[u]
    BY <1>3 DEF Only
<1>5. ASSUME Accepting(u)
      PROVE  /\ c.by \in Actors /\ c.invite \in InviteIds /\ c.email \in Emails
             /\ InviteRow(c.invite) \in Rows /\ EmailKey(c.email) \in Rows
             /\ c.email # 0 /\ AcceptanceStands(u)
    <2>1. InviteCallOK(c)
        BY <1>1, <1>5 DEF Stands, CourseStands, Accepting, PeopleOperations, InviteOperations
    <2>2. c.by \in Actors /\ c.invite \in InviteIds /\ c.email \in Emails
        BY <1>5, <2>1 DEF InviteCallOK, Accepting
    <2> QED
        BY <1>1, <1>5, <2>2, IdentifiersAssumption DEF Rows, Stands
<1>6. ASSUME Leaving(u)
      PROVE  actor'[c.by] # "absent"
    <2>1. actor[c.by] # "absent" /\ c.by \in Actors
        BY <1>1, <1>6 DEF Stands
    <2> QED
        BY <2>1, NothingUnmade
<1>7. ASSUME Accepting(u), pc[u] # "done"
      PROVE  actor'[c.by] = "absent"
    <2>1. actor[c.by] = "absent" /\ c.by \in Actors
        BY <1>5, <1>7 DEF AcceptanceStands
    <2>2. CASE UNCHANGED actor
        BY <2>1, <2>2
    <2>3. CASE Leaves(t)
        <3>1. Leaving(t) /\ actor' = [actor EXCEPT ![d.by] = "departed"]
            BY <2>3 DEF Leaves, Departs
        <3>2. actor[d.by] # "absent"
            BY <3>1, StandsNow DEF Stands
        <3> QED
            BY <1>2, <2>1, <3>1, <3>2 DEF PeopleShaped
    <2>4. CASE CommitAcceptance(t)
        <3>1. Accepting(t)
            BY <2>4, AdmitStands
        <3>2. c.by # d.by
            BY <1>1, <1>7, <3>1 DEF Apart
        <3> QED
            BY <2>1, <2>4, <3>2, AdmitRow
    <2> QED
        BY <2>2, <2>3, <2>4, PeopleChange, RevokeRow DEF Quiet, Inserts, tables
<1>8. ASSUME Accepting(u), pc[u] \in {"accept_email", "accept_member"}
      PROVE  invite'[c.invite] = invite[c.invite]
    <2>1. /\ held[u][InviteRow(c.invite)] >= NoKeyUpdate /\ Unspent(c.invite)
          /\ c.invite \in InviteIds /\ InviteRow(c.invite) \in Rows
        BY <1>5, <1>8 DEF AcceptanceStands
    <2>2. CASE UNCHANGED invite
        BY <2>2
    <2>3. CASE Inserts(t)
        <3>1. invite[c.invite] # NoInvite
            BY <2>1 DEF Unspent, NoInvite
        <3> QED
            BY <2>1, <2>3, <3>1, InsertRow
    <2>4. ASSUME held[t][InviteRow(d.invite)] >= NoKeyUpdate
          PROVE  c.invite # d.invite
        BY <1>2, <2>1, <2>4, OneWriter
    <2>5. CASE WriteRevocation(t)
        <3>1. held[t][InviteRow(d.invite)] >= Update /\ d.invite \in InviteIds
            BY <2>5, RevokeRow
        <3>2. InviteRow(d.invite) \in Rows
            BY <3>1 DEF Rows
        <3>3. held[t][InviteRow(d.invite)] \in 0 .. Update
            BY <1>2, <3>2 DEF Shaped
        <3>4. c.invite # d.invite
            BY <2>4, <3>1, <3>3 DEF Update, NoKeyUpdate
        <3> QED
            BY <2>1, <2>5, <3>4, RevokeRow
    <2>6. CASE CommitAcceptance(t)
        <3>1. c.invite # d.invite
            BY <2>4, <2>6, AdmitStands
        <3> QED
            BY <2>1, <2>6, <3>1, AdmitRow
    <2> QED
        BY <2>2, <2>3, <2>5, <2>6, PeopleChange DEF Quiet, Leaves, KeepInvites, ivars
<1>9. ASSUME Accepting(u), pc[u] = "accept_member", NEW a \in Actors
      PROVE  email'[a] # c.email
    <2>1. /\ held[u][EmailKey(c.email)] >= Update /\ email[a] # c.email
          /\ c.email # 0 /\ EmailKey(c.email) \in Rows
        BY <1>5, <1>9 DEF AcceptanceStands
    <2>2. CASE UNCHANGED email
        BY <2>1, <2>2
    <2>3. CASE KeepInvites
        BY <2>1, <2>3 DEF KeepInvites
    <2>4. CASE CommitAcceptance(t)
        <3>1. held[t][EmailKey(d.email)] >= Update /\ d.email \in Emails
            BY <2>4, AdmitStands
        <3>2. EmailKey(d.email) \in Rows
            BY <3>1 DEF Rows
        <3>3. held[t][EmailKey(d.email)] \in 0 .. Update /\ held[u][EmailKey(c.email)] \in 0 .. Update
            BY <1>2, <2>1, <3>2 DEF Shaped
        <3>4. held[t][EmailKey(d.email)] >= NoKeyUpdate /\ held[u][EmailKey(c.email)] >= NoKeyUpdate
            BY <2>1, <3>1, <3>3 DEF Update, NoKeyUpdate
        <3>5. d.email # c.email
            BY <1>2, <2>1, <3>4, OneWriter
        <3> QED
            BY <2>1, <2>4, <3>5, AdmitRow
    <2> QED
        BY <2>2, <2>3, <2>4, PeopleChange, RevokeRow DEF Quiet, Leaves, Inserts, ivars
<1>10. ASSUME c.op = "create_invite", pc[u] # "done"
       PROVE  invite'[c.invite] = NoInvite
    <2>1. invite[c.invite] = NoInvite
        BY <1>1, <1>10 DEF Stands
    <2>2. c.invite \in InviteIds
        BY <1>1, <1>10 DEF Stands, CourseStands, PeopleOperations, InviteOperations, InviteCallOK
    <2>3. CASE UNCHANGED invite
        BY <2>1, <2>3
    <2>4. CASE Inserts(t)
        <3>1. d.op = "create_invite"
            BY <2>4 DEF Inserts, At
        <3>2. c.invite # d.invite
            BY <1>1, <1>10, <3>1 DEF Apart
        <3> QED
            BY <2>1, <2>2, <2>4, <3>2, InsertRow
    <2>5. CASE WriteRevocation(t)
        BY <2>1, <2>2, <2>5, RevokeRow
    <2>6. CASE CommitAcceptance(t)
        <3>1. c.invite # d.invite
            BY <2>1, <2>6, AdmitStands
        <3> QED
            BY <2>1, <2>2, <2>6, <3>1, AdmitRow
    <2> QED
        BY <2>3, <2>4, <2>5, <2>6, PeopleChange DEF Quiet, Leaves, KeepInvites, ivars
<1>11. \A i \in InviteIds : invite[i] # NoInvite => invite'[i] # NoInvite
    BY NothingUnmade
<1>12. ASSUME Accepting(u), pc[u] \in {"accept_email", "accept_member"}
       PROVE  Unspent(c.invite)' /\ invite'[c.invite].kind = "organization"
    <2>1. Unspent(c.invite) /\ invite[c.invite].kind = "organization"
        BY <1>5, <1>12 DEF AcceptanceStands
    <2> QED
        BY <1>4, <1>8, <1>12, <2>1 DEF Unspent
<1> QED
    BY <1>1, <1>4, <1>6, <1>7, <1>9, <1>10, <1>11, <1>12, StandsKept
----------------------------------------------------------------------------
(* The steps of a transaction itself.                                      *)

\* No tenant operation is one of these.
LEMMA PeopleAreOthers ==
    /\ TenantOperations \cap PeopleOperations = {}
    /\ "create_invite" \in PeopleOperations /\ "accept_invite" \in PeopleOperations
    /\ "revoke_invite" \in PeopleOperations /\ "leave_service" \in TenantOperations
    /\ {"lock_actor", "leave_orgs", "leave_next", "leave_audit"} \cap PeoplePoints = {}
    /\ "done" \in PeoplePoints
BY DEF TenantOperations, PeopleOperations, InviteOperations, Routes, NeedsSession, PeoplePoints

\* Another operation than these has nothing to stand on but its departure.
LEMMA OthersStand ==
    ASSUME NEW t \in Tx, call'[t].op \notin PeopleOperations,
           call'[t].op = "leave_service" => call'[t].by \in Actors,
           Leaving(t)' => call'[t].op = "leave_service" /\ actor'[call'[t].by] # "absent"
    PROVE  Stands(t)'
BY PeopleAreOthers DEF Stands, CourseStands, Accepting

\* A transaction that is over has nothing left to stand on.
LEMMA DoneStands ==
    ASSUME NEW t \in Tx, Stands(t), pc'[t] = "done", call'[t] = call[t]
    PROVE  Stands(t)'
<1>1. CourseStands(t)'
    BY PeopleAreOthers DEF Stands, CourseStands
<1>2. AcceptanceStands(t)'
    BY DEF AcceptanceStands
<1> QED
    BY <1>1, <1>2 DEF Stands, Leaving

\* The steps of tenant operations.
LEMMA TenantStands ==
    ASSUME PeopleInvariant, NEW t \in Tx, (Begin(t) \/ Step(t) \/ Cancel(t)) /\ KeepInvites
    PROVE  Stands(t)'
<1>1. Shaped /\ PeopleShaped /\ LocksExclude /\ Stands(t)
    BY StandsNow DEF PeopleInvariant
<1>2. CASE Begin(t)
    <2>1. PICK d \in Requests : call' = [call EXCEPT ![t] = d]
        BY <1>2 DEF Begin
    <2>2. call'[t] \in Calls
        BY <1>1, <2>1, RequestsAssumption DEF Shaped
    <2>3. call'[t].op \notin PeopleOperations /\ call'[t].by \in Actors
        BY <2>2, TenantCalls, CallFacts, PeopleAreOthers
    <2>4. ~Leaving(t)'
        BY <1>1, <1>2, NotLeaving
    <2> QED
        BY <2>3, <2>4, OthersStand
<1>3. CASE ~Begin(t)
    <2>1. Kinds(t)
        BY <1>1, <1>3, TenantKinds
    <2>2. UNCHANGED call
        BY <2>1 DEF Kinds, TakeLock, Over, End, Proceeds
    <2>3. Over(t) => pc'[t] = "done"
        BY <1>1, Comes DEF Over
    <2>4. CASE Over(t)
        BY <1>1, <2>2, <2>3, <2>4, DoneStands
    <2>5. CASE call[t].op \in PeopleOperations /\ ~Over(t)
        <3>1. pc[t] \in PeoplePoints /\ InviteCallOK(call[t])
            BY <1>1, <2>5 DEF Stands, CourseStands
        <3>2. pc[t] # "lock_actor" /\ call[t].op \notin TenantOperations
            BY <2>5, <3>1, PeopleAreOthers
        <3>3. TakeLock(t)
            BY <1>3, <2>5, <3>2, TenantMeets DEF DeadlockAbort, Cancel, Rollback, Over
        <3>4. UNCHANGED <<tables, pc>>
            BY <3>3 DEF TakeLock
        <3>5. UNCHANGED <<users, actor, invite, email>>
            BY <1>1, <3>4, EmailsStay DEF tables, ivars, PeopleInvariant
        <3>6. ASSUME NEW r \in Rows, NEW m \in Modes
              PROVE  /\ held[t][r] >= m => held'[t][r] >= m
                     /\ Claims(t, r, m) => Claims(t, r, m)'
            BY <1>1, <3>3, <3>6, ClaimsGrow
        <3>7. CourseStands(t)'
            BY <1>1, <2>2, <3>4 DEF Stands, CourseStands
        <3>8. ASSUME Accepting(t)
              PROVE  AcceptanceStands(t)'
            <4> DEFINE c == call[t]
            <4>1. c.invite \in InviteIds /\ c.email \in Emails
                BY <3>1, <3>8 DEF InviteCallOK, Accepting
            <4>2. InviteRow(c.invite) \in Rows /\ EmailKey(c.email) \in Rows
                BY <4>1 DEF Rows
            <4>3. AcceptanceStands(t)
                BY <1>1, <3>8 DEF Stands
            <4>4. /\ held[t][InviteRow(c.invite)] >= NoKeyUpdate
                         => held'[t][InviteRow(c.invite)] >= NoKeyUpdate
                  /\ held[t][EmailKey(c.email)] >= Update
                         => held'[t][EmailKey(c.email)] >= Update
                BY <3>6, <4>2, ModeFacts
            <4>5. Claims(t, InviteRow(c.invite), NoKeyUpdate)
                      => Claims(t, InviteRow(c.invite), NoKeyUpdate)'
                BY <3>6, <4>2, <2>2, ModeFacts DEF Claims
            <4>6. Claims(t, EmailKey(c.email), Update) => Claims(t, EmailKey(c.email), Update)'
                BY <3>6, <4>2, <2>2, ModeFacts DEF Claims
            <4> QED
                BY <2>2, <3>4, <3>5, <4>3, <4>4, <4>5, <4>6 DEF AcceptanceStands, Claims, Unspent
        <3>9. ASSUME call[t].op = "revoke_invite", pc[t] = "invite_revoke"
              PROVE  RevocationStands(t)'
            <4>1. RevocationStands(t)
                BY <1>1, <3>9 DEF Stands
            <4>2. InviteRow(call[t].invite) \in Rows
                BY <4>1 DEF RevocationStands, Rows
            <4>3. Claims(t, InviteRow(call[t].invite), Update)
                      => Claims(t, InviteRow(call[t].invite), Update)'
                BY <2>2, <3>6, <4>2, ModeFacts DEF Claims
            <4> QED
                BY <2>2, <3>5, <4>1, <4>3 DEF RevocationStands
        <3>10. ~Leaving(t)' /\ call[t].op # "leave_service"
            BY <2>5, <3>1, <3>4, PeopleAreOthers DEF Leaving
        <3> QED
            BY <1>1, <2>2, <3>4, <3>5, <3>7, <3>8, <3>9, <3>10 DEF Stands, Accepting
    <2>6. CASE call[t].op \notin PeopleOperations /\ ~Over(t)
        <3>1. ASSUME Leaving(t)'
              PROVE  call[t].op = "leave_service" /\ actor'[call[t].by] # "absent"
            <4>1. UNCHANGED actor
                BY <1>1, <2>6, TenantPeople DEF Departs
            <4>2. Leaving(t) \/ (call[t].op = "leave_service" /\ actor[call[t].by] = "live")
                BY <1>1, <3>1, LeavingFrom
            <4> QED
                BY <1>1, <4>1, <4>2 DEF Stands
        <3>2. call[t].op = "leave_service" => call[t].by \in Actors
            BY <1>1 DEF Stands
        <3> QED
            BY <2>2, <2>6, <3>1, <3>2, OthersStand
    <2> QED
        BY <2>4, <2>5, <2>6
<1> QED
    BY <1>2, <1>3
\* The call stays, or a handler tells it who the performer is.
SameCall(t) ==
    \/ call'[t] = call[t]
    \/ /\ call'[t].op = call[t].op /\ call[t].op \in PeopleOperations
       /\ InviteCallOK(call'[t])
       /\ call[t].op \in {"create_invite", "accept_invite"} => call'[t].invite = call[t].invite
       /\ Accepting(t) => call'[t].by = call[t].by

\* Where nothing is claimed yet there is little to stand on.
LEMMA EarlyStands ==
    ASSUME NEW t \in Tx, Stands(t), SameCall(t), pc[t] # "done",
           UNCHANGED <<actor, invite>>, pc'[t] \in PeoplePoints,
           pc'[t] \notin {"accept_person", "accept_email", "accept_member", "invite_revoke"},
           pc'[t] \in {"invite_organization", "invite_insert"} => call'[t].org \in Orgs
    PROVE  Stands(t)'
<1>1. ~Leaving(t)'
    BY PeopleAreOthers DEF Leaving
<1>2. call'[t].op = call[t].op
    BY DEF SameCall
<1>3. CourseStands(t)'
    BY DEF Stands, CourseStands, SameCall
<1>4. ASSUME Accepting(t)
      PROVE  AcceptanceStands(t)'
    <2>1. actor[call[t].by] = "absent" /\ call'[t].by = call[t].by
        BY <1>4 DEF Stands, AcceptanceStands, SameCall
    <2> QED
        BY <2>1 DEF AcceptanceStands
<1>5. ASSUME call[t].op = "create_invite"
      PROVE  invite'[call'[t].invite] = NoInvite
    BY <1>5 DEF Stands, SameCall
<1>6. call'[t].op = "leave_service" => call'[t].by \in Actors
    BY PeopleAreOthers DEF Stands, SameCall
<1> QED
    BY <1>1, <1>2, <1>3, <1>4, <1>5, <1>6 DEF Stands, Accepting

\* A statement goes on, and nothing else happens.
LEMMA GoOnFacts ==
    ASSUME Shaped, NEW t \in Tx, NEW p, NEW m, NEW rows, GoOn(t, p, m, rows)
    PROVE  /\ pc'[t] = p /\ call'[t] = call[t] /\ held'[t] = held[t]
           /\ UNCHANGED <<actor, users, invite, email>>
BY Comes DEF GoOn, Start, tables, ivars

\* The points of an acceptance after the invite was found, with what it claims there.
LEMMA AcceptingStands ==
    ASSUME NEW t \in Tx, Stands(t), Accepting(t), call'[t] = call[t], pc[t] # "done",
           UNCHANGED actor, pc'[t] \in PeoplePoints, AcceptanceStands(t)',
           pc'[t] \notin {"invite_organization", "invite_insert", "invite_revoke"}
    PROVE  Stands(t)'
<1>1. Accepting(t)' /\ ~Leaving(t)'
    BY PeopleAreOthers DEF Accepting, Leaving
<1>2. CourseStands(t)'
    BY DEF Stands, CourseStands
<1> QED
    BY <1>1, <1>2 DEF Stands, Accepting

\* The steps of invites.rs.
LEMMA InviteStands ==
    ASSUME PeopleInvariant, NEW t \in Tx, InvitesStep(t)
    PROVE  Stands(t)'
<1> DEFINE c == call[t]
           i == c.invite
<1>1. Shaped /\ PeopleShaped /\ Stands(t)
    BY StandsNow DEF PeopleInvariant
<1>2. CASE Over(t)
    <2>1. pc'[t] = "done" /\ UNCHANGED call
        BY <1>1, <1>2, Comes DEF Over, End
    <2> QED
        BY <1>1, <2>1, DoneStands
<1>3. ASSUME NEW r, Answer(t, r) \/ Rollback(t, r) \/ End(t, r)
      PROVE  Over(t)
    BY <1>3 DEF Answer, Rollback, Over
<1>4. ASSUME NEW p \in PeoplePoints, NEW m, NEW rows, GoOn(t, p, m, rows), pc[t] # "done",
             p \notin {"accept_person", "accept_email", "accept_member", "invite_revoke"},
             p \in {"invite_organization", "invite_insert"} => c.org \in Orgs
      PROVE  Stands(t)'
    BY <1>1, <1>4, GoOnFacts, EarlyStands DEF SameCall
<1>5. ASSUME NEW o \in fukulow_active_organizations(c.by)
      PROVE  o \in Orgs
    BY <1>5 DEF fukulow_active_organizations
<1>6. CASE LockInviter(t)
    <2> DEFINE rows == {ActorRow(a) : a \in {b \in {call[t].by} : SeesActor(b, b)}}
    <2>1. pc[t] = "begin" /\ GoOn(t, "invite_actor", Share, rows)
        BY <1>6 DEF LockInviter
    <2> HIDE DEF rows
    <2>2. "invite_actor" \in PeoplePoints
        BY DEF PeoplePoints
    <2> QED
        BY <1>4, <2>1, <2>2
<1>7. CASE LockInviteOrganization(t) /\ ~Over(t)
    <2>1. /\ pc[t] = "invite_actor" /\ c.org \in Orgs
          /\ GoOn(t, "invite_organization", Share, {OrgRow(c.org)})
        BY <1>3, <1>5, <1>7 DEF LockInviteOrganization
    <2>2. "invite_organization" \in PeoplePoints
        BY DEF PeoplePoints
    <2> QED
        BY <1>4, <2>1, <2>2
<1>8. CASE CreateInvite(t) /\ ~Over(t)
    <2>1. /\ At(t, "invite_organization", "create_invite")
          /\ GoOn(t, "invite_insert", Update, {})
        BY <1>3, <1>8 DEF CreateInvite
    <2>2. c.org \in Orgs /\ pc[t] # "done"
        BY <1>1, <2>1, PeopleAreOthers DEF At, Stands, CourseStands
    <2>3. "invite_insert" \in PeoplePoints
        BY DEF PeoplePoints
    <2> QED
        BY <1>4, <2>1, <2>2, <2>3
<1>9. CASE RevokeInvite(t) /\ ~Over(t)
    <2>1. /\ At(t, "invite_organization", "revoke_invite")
          /\ i # 0 /\ invite[i].org = c.org
          /\ GoOn(t, "invite_revoke", Update, {InviteRow(i)})
        BY <1>3, <1>9 DEF RevokeInvite
    <2>2. c.op = "revoke_invite" /\ pc[t] = "invite_organization"
        BY <2>1 DEF At
    <2>3. c.org \in Orgs /\ InviteCallOK(c)
        BY <1>1, <2>2, PeopleAreOthers DEF Stands, CourseStands
    <2>4. i \in InviteIds /\ invite[i] # NoInvite
        BY <2>1, <2>2, <2>3, IdentifiersAssumption DEF InviteCallOK, NoInvite
    <2>5. /\ pc'[t] = "invite_revoke" /\ call'[t] = call[t]
          /\ UNCHANGED <<actor, users, invite, email>>
        BY <1>1, <2>1, GoOnFacts
    <2>6. Claims(t, InviteRow(i), Update)'
        BY <1>1, <2>1, StartClaims, ModeFacts DEF GoOn
    <2>7. RevocationStands(t)'
        BY <2>4, <2>5, <2>6 DEF RevocationStands, Claims
    <2>8. CourseStands(t)'
        BY <2>3, <2>5 DEF CourseStands, PeoplePoints
    <2>9. ~Leaving(t)' /\ ~Accepting(t)'
        BY <2>2, <2>5 DEF Leaving, Accepting
    <2> QED
        BY <2>2, <2>5, <2>7, <2>8, <2>9 DEF Stands
<1>10. ASSUME Accepting(t)
       PROVE  i \in InviteIds /\ c.email \in Emails /\ AcceptanceStands(t)
    BY <1>1, <1>10, PeopleAreOthers
       DEF Accepting, Stands, CourseStands, InviteCallOK
<1>11. CASE AcceptInvite(t) /\ ~Over(t)
    <2>1. /\ At(t, "begin", "accept_invite")
          /\ GoOn(t, "accept_person", NoKeyUpdate, {InviteRow(i)})
        BY <1>3, <1>11 DEF AcceptInvite
    <2>2. Accepting(t) /\ pc[t] = "begin"
        BY <2>1 DEF At, Accepting
    <2>3. /\ pc'[t] = "accept_person" /\ call'[t] = call[t]
          /\ UNCHANGED <<actor, users, invite, email>>
        BY <1>1, <2>1, GoOnFacts
    <2>4. Claims(t, InviteRow(i), NoKeyUpdate)'
        BY <1>1, <2>1, StartClaims, ModeFacts DEF GoOn
    <2>5. AcceptanceStands(t)'
        BY <1>10, <2>2, <2>3, <2>4 DEF AcceptanceStands, Claims
    <2> QED
        BY <1>1, <2>2, <2>3, <2>5, AcceptingStands DEF PeoplePoints
<1>12. CASE AcceptPerson(t) /\ ~Over(t)
    <2>1. /\ At(t, "accept_person", "accept_invite")
          /\ Unspent(i) /\ invite[i].kind = "organization"
          /\ GoOn(t, "accept_email", Update, {EmailKey(c.email)})
        BY <1>3, <1>12 DEF AcceptPerson
    <2>2. Accepting(t) /\ pc[t] = "accept_person" /\ Returned(t)
        BY <2>1 DEF At, Accepting
    <2>3. /\ pc'[t] = "accept_email" /\ call'[t] = call[t] /\ held'[t] = held[t]
          /\ UNCHANGED <<actor, users, invite, email>>
        BY <1>1, <2>1, GoOnFacts
    <2>4. held[t][InviteRow(i)] >= NoKeyUpdate
        BY <1>10, <2>2, ClaimReturned DEF AcceptanceStands
    <2>5. Claims(t, EmailKey(c.email), Update)'
        BY <1>1, <2>1, StartClaims, ModeFacts DEF GoOn
    <2>6. AcceptanceStands(t)'
        BY <1>10, <2>1, <2>2, <2>3, <2>4, <2>5 DEF AcceptanceStands, Claims, Unspent
    <2> QED
        BY <1>1, <2>2, <2>3, <2>6, AcceptingStands DEF PeoplePoints
<1>13. CASE AcceptMember(t) /\ ~Over(t)
    <2>1. /\ At(t, "accept_email", "accept_invite")
          /\ \A a \in Actors : email[a] # c.email
          /\ GoOn(t, "accept_member", KeyShare, {OrgRow(invite[i].org)})
        BY <1>3, <1>13 DEF AcceptMember
    <2>2. Accepting(t) /\ pc[t] = "accept_email" /\ Returned(t)
        BY <2>1 DEF At, Accepting
    <2>3. /\ pc'[t] = "accept_member" /\ call'[t] = call[t] /\ held'[t] = held[t]
          /\ UNCHANGED <<actor, users, invite, email>>
        BY <1>1, <2>1, GoOnFacts
    <2>4. held[t][EmailKey(c.email)] >= Update
        BY <1>10, <2>2, ClaimReturned DEF AcceptanceStands
    <2>5. AcceptanceStands(t)'
        BY <1>10, <2>1, <2>2, <2>3, <2>4 DEF AcceptanceStands, Unspent
    <2> QED
        BY <1>1, <2>2, <2>3, <2>5, AcceptingStands DEF PeoplePoints
<1>14. InsertInvite(t) \/ WriteRevocation(t) \/ InviteIsUsable(t) \/ CommitAcceptance(t)
           => Over(t)
    BY <1>3 DEF InsertInvite, WriteRevocation, InviteIsUsable, CommitAcceptance, AdmitAs, Commit
<1> QED
    BY <1>2, <1>6, <1>7, <1>8, <1>9, <1>11, <1>12, <1>13, <1>14 DEF InvitesStep
\* Being called, and the steps of handlers.
LEMMA AsideStands ==
    ASSUME PeopleInvariant, NEW t \in Tx, Asks(t) \/ Aside(t)
    PROVE  Stands(t)'
<1>1. Shaped /\ Stands(t)
    BY StandsNow DEF PeopleInvariant
<1>2. UNCHANGED <<actor, invite>>
    BY DEF Asks, Aside, tables, ivars
<1>3. CASE Asks(t)
    <2> DEFINE c == call'[t]
    <2>1. /\ c.op \in PeopleOperations /\ InviteCallOK(c)
          /\ pc'[t] \in {"begin", "web_session", "web_body", "done"}
          /\ c.op = "create_invite" => invite[c.invite] = NoInvite
          /\ c.op = "accept_invite" => actor[c.by] = "absent"
        BY <1>3 DEF Asks, FreshInvite
    <2>2. CourseStands(t)'
        BY <2>1 DEF CourseStands, PeoplePoints
    <2>3. Accepting(t)' => AcceptanceStands(t)'
        BY <1>2, <2>1 DEF Accepting, AcceptanceStands
    <2>4. ~Leaving(t)' /\ c.op # "leave_service"
        BY <2>1, PeopleAreOthers DEF Leaving
    <2> QED
        BY <1>2, <2>1, <2>2, <2>3, <2>4 DEF Stands
<1>4. CASE Aside(t)
    <2>1. SameCall(t)
        BY <1>4 DEF Aside, SameCall, PeopleOperations
    <2>2. pc'[t] \in PeoplePoints /\ pc[t] # "done"
        BY <1>4 DEF Aside, PeoplePoints
    <2>3. pc'[t] \notin {"accept_person", "accept_email", "accept_member", "invite_revoke",
                         "invite_organization", "invite_insert"}
        BY <1>4 DEF Aside
    <2> QED
        BY <1>1, <1>2, <2>1, <2>2, <2>3, EarlyStands
<1> QED
    BY <1>3, <1>4

\* What a new call makes is nobody else's.
LEMMA ApartStep ==
    ASSUME PeopleInvariant, NEW t \in Tx, PeopleStep(t),
           NEW v \in Tx, NEW w \in Tx, v # w
    PROVE  Apart(v, w)'
<1>1. Shaped /\ LocksExclude
    BY DEF PeopleInvariant
<1>2. \A u \in Tx : u # t => call'[u] = call[u]
    BY <1>1, PeopleFrame DEF Only
<1>3. Apart(v, w)
    BY StandsNow
<1>4. CASE SameCall(t)
    BY <1>2, <1>3, <1>4 DEF SameCall, Apart, Accepting
<1>5. CASE call'[t].op \in TenantOperations
    <2>1. call'[t].op # "create_invite" /\ call'[t].op # "accept_invite"
        BY <1>5, PeopleAreOthers
    <2> QED
        BY <1>2, <1>3, <2>1 DEF Apart, Accepting
<1>6. CASE FreshInvite(call'[t])
    <2> DEFINE c == call'[t]
    <2>1. /\ c.op = "create_invite" =>
                 \A u \in Tx : call[u].op = c.op => call[u].invite # c.invite
          /\ c.op = "accept_invite" => \A u \in Tx : call[u].op = c.op => call[u].by # c.by
        BY <1>6 DEF FreshInvite
    <2> HIDE DEF c
    <2>2. CASE v = t
        BY <1>2, <2>1, <2>2 DEF Apart, Accepting, c
    <2>3. CASE w = t
        BY <1>2, <2>1, <2>3 DEF Apart, Accepting, c
    <2>4. CASE v # t /\ w # t
        BY <1>2, <1>3, <2>4 DEF Apart, Accepting
    <2> QED
        BY <2>2, <2>3, <2>4
<1>7. CASE Begin(t)
    <2>1. PICK d \in Requests : call' = [call EXCEPT ![t] = d]
        BY <1>7 DEF Begin
    <2>2. call'[t] \in Calls
        BY <1>1, <2>1, RequestsAssumption DEF Shaped
    <2> QED
        BY <1>5, <2>2, TenantCalls
<1>8. CASE Step(t) \/ Cancel(t) \/ InvitesStep(t)
    <2>1. Kinds(t)
        BY <1>1, <1>8, TenantKinds, InviteStepKinds DEF Kinds
    <2>2. UNCHANGED call
        BY <2>1 DEF Kinds, TakeLock, Over, End, Proceeds
    <2> QED
        BY <1>4, <2>2 DEF SameCall
<1>9. CASE Asks(t)
    BY <1>6, <1>9 DEF Asks
<1>10. CASE Aside(t)
    BY <1>4, <1>10 DEF Aside, SameCall, PeopleOperations
<1> QED
    BY <1>7, <1>8, <1>9, <1>10 DEF PeopleStep

----------------------------------------------------------------------------
(* The tables.                                                             *)

\* Who joined is counted once more when somebody new joins.
LEMMA OneMore ==
    ASSUME NEW S, IsFiniteSet(S), NEW a, a \notin S
    PROVE  IsFiniteSet(S \cup {a}) /\ Cardinality(S \cup {a}) = Cardinality(S) + 1
BY FS_AddElement

\* The record of each invite agrees with it.
Accounted(i) ==
    /\ invite[i].used <= invite[i].max
    /\ Cardinality(recorded[i].joined) = invite[i].used
    /\ recorded[i].created = (IF invite[i] = NoInvite THEN 0 ELSE 1)
    /\ recorded[i].revoked = (IF invite[i].revoked THEN 1 ELSE 0)
    /\ \A a \in recorded[i].joined :
           actor[a] # "absent" /\ member[invite[i].org][a].status # "none"
    /\ invite[i] \in InviteRows /\ recorded[i] \in Records /\ IsFiniteSet(recorded[i].joined)

LEMMA AccountedParts ==
    ASSUME PeopleInvariant, NEW i \in InviteIds
    PROVE  Accounted(i)
<1>1. invite[i] \in InviteRows /\ recorded[i] \in Records
    BY InviteTables DEF PeopleInvariant
<1>2. IsFiniteSet(recorded[i].joined)
    BY DEF PeopleInvariant, PeopleShaped
<1>3. \A a \in recorded[i].joined :
           actor[a] # "absent" /\ member[invite[i].org][a].status # "none"
    BY DEF PeopleInvariant, JoinedThere
<1> QED
    BY <1>1, <1>2, <1>3 DEF PeopleInvariant, InvitesAccounted, Accounted

\* Only the three commits, and time, concern what an invite is accounted for.
LEMMA AccountedStep ==
    ASSUME PeopleInvariant, NEW t \in Tx, PeopleStep(t), NEW i \in InviteIds
    PROVE  Accounted(i)'
<1>1. Accounted(i)
    BY AccountedParts
<1>2. PeopleShaped
    BY DEF PeopleInvariant
<1>3. MembersKept
    BY <1>2, PeopleChange, UnchangedKept, RevokeRow, AdmitMember
       DEF Quiet, Leaves, Inserts, tables
<1>4. \A a \in Actors : actor[a] # "absent" => actor'[a] # "absent"
    BY NothingUnmade
<1>5. recorded[i].joined \subseteq Actors
    BY <1>1 DEF Accounted, Records
<1>6. invite[i] # NoInvite => invite[i].org \in Orgs
    BY <1>1, RowsOfInvites DEF Accounted
<1>7. invite[i] = NoInvite => recorded[i].joined = {}
    <2> SUFFICES ASSUME invite[i] = NoInvite PROVE recorded[i].joined = {}
        OBVIOUS
    <2>1. Cardinality(recorded[i].joined) = 0 /\ IsFiniteSet(recorded[i].joined)
        BY <1>1 DEF Accounted, NoInvite
    <2> QED
        BY <2>1, FS_EmptySet
<1>8. ASSUME NEW a \in recorded[i].joined
      PROVE  actor'[a] # "absent" /\ member'[invite[i].org][a].status # "none"
    <2>1. invite[i].org \in Orgs /\ a \in Actors
        BY <1>5, <1>6, <1>7, <1>8
    <2> QED
        BY <1>1, <1>3, <1>4, <1>8, <2>1 DEF Accounted, MembersKept
<1>9. CASE invite'[i] = invite[i] /\ recorded'[i] = recorded[i]
    BY <1>1, <1>8, <1>9 DEF Accounted
<1>10. CASE Inserts(t) /\ call[t].invite = i
    <2>1. /\ invite[i] = NoInvite /\ invite'[i] \in InviteRows /\ invite'[i] # NoInvite
          /\ invite'[i].used = 0 /\ ~invite'[i].revoked
          /\ recorded'[i] \in Records
          /\ recorded'[i].created = recorded[i].created + 1
          /\ recorded'[i].revoked = recorded[i].revoked
          /\ recorded'[i].joined = recorded[i].joined
        BY <1>10, InsertRow
    <2>2. recorded[i].joined = {} /\ recorded[i].created = 0 /\ recorded[i].revoked = 0
          /\ Cardinality(recorded[i].joined) = 0
        BY <1>1, <1>7, <2>1 DEF Accounted, NoInvite
    <2>3. invite'[i].max \in Nat
        BY <2>1, RowsOfInvites
    <2> QED
        BY <1>1, <2>1, <2>2, <2>3 DEF Accounted
<1>11. CASE WriteRevocation(t) /\ call[t].invite = i
    <2> DEFINE row == invite[i]
    <2>1. /\ row # NoInvite /\ row \in InviteRows /\ recorded[i] \in Records
          /\ invite'[i] = [row EXCEPT !.revoked = TRUE]
          /\ row.revoked => recorded'[i] = recorded[i]
          /\ ~row.revoked => recorded'[i] = [recorded[i] EXCEPT !.revoked = @ + 1]
        BY <1>1, <1>11, RevokeRow DEF Accounted
    <2>2. /\ invite'[i] \in InviteRows /\ invite'[i].used = row.used /\ invite'[i].max = row.max
          /\ invite'[i].org = row.org /\ invite'[i].kind = row.kind /\ invite'[i].revoked
        <3> HIDE DEF row
        <3>1. row # NoInvite /\ row \in InviteRows
            BY <2>1
        <3> DEFINE new == [row EXCEPT !.revoked = TRUE]
        <3>2. /\ new \in InviteRows /\ new.used = row.used /\ new.max = row.max
              /\ new.org = row.org /\ new.kind = row.kind
            BY <3>1, InviteColumns
        <3>3. new.revoked
            BY <3>1, InviteColumns
        <3>4. invite'[i] = new
            BY <2>1
        <3> HIDE DEF new
        <3> QED
            BY <3>2, <3>3, <3>4
    <2>3. invite'[i] # NoInvite
        BY <2>1, <2>2, RowsOfInvites
    <2>4. DOMAIN recorded[i] = {"created", "revoked", "joined"}
        BY <2>1 DEF Records
    <2>5. /\ recorded'[i] \in Records /\ recorded'[i].created = recorded[i].created
          /\ recorded'[i].joined = recorded[i].joined
          /\ recorded'[i].revoked = 1
        <3>1. CASE row.revoked
            BY <1>1, <2>1, <3>1 DEF Accounted
        <3>2. CASE ~row.revoked
            <4>1. recorded[i].revoked = 0
                BY <1>1, <3>2 DEF Accounted
            <4>2. recorded'[i] = [recorded[i] EXCEPT !.revoked = 1]
                BY <2>1, <3>2, <4>1
            <4>3. recorded'[i] \in Records
                BY <2>1, <4>2 DEF Records
            <4> QED
                BY <2>4, <4>2, <4>3
        <3> QED
            BY <3>1, <3>2
    <2> HIDE DEF row
    <2> QED
        BY <1>1, <1>8, <2>1, <2>2, <2>3, <2>5 DEF Accounted, row
<1>12. CASE CommitAcceptance(t) /\ call[t].invite = i
    <2> DEFINE row == invite[i]
               a == call[t].by
               old == recorded[i]
    <2>1. /\ row # NoInvite /\ row.used < row.max /\ ~row.revoked /\ row.org \in Orgs
          /\ a \in Actors /\ actor[a] = "absent"
        BY <1>12, AdmitStands DEF Unspent
    <2>2. /\ invite'[i] = [row EXCEPT !.used = @ + 1]
          /\ recorded'[i] = [old EXCEPT !.joined = @ \cup {a}]
          /\ actor'[a] = "live"
        BY <1>12, AdmitRow
    <2>3. row \in InviteRows /\ old \in Records /\ row.used \in Nat /\ row.max \in Nat
        BY <1>1, RowsOfInvites DEF Accounted
    <2>4. /\ invite'[i] \in InviteRows /\ invite'[i].used = row.used + 1
          /\ invite'[i].max = row.max /\ invite'[i].org = row.org
          /\ invite'[i].kind = row.kind /\ invite'[i].revoked = row.revoked
        <3> HIDE DEF row
        <3>1. row # NoInvite /\ row \in InviteRows
            BY <2>1, <2>3
        <3> DEFINE new == [row EXCEPT !.used = @ + 1]
        <3>2. /\ new \in InviteRows /\ new.used = row.used + 1 /\ new.max = row.max
              /\ new.org = row.org /\ new.kind = row.kind
            BY <3>1, InviteColumns
        <3>3. new.revoked = row.revoked
            BY <3>1, InviteColumns
        <3>4. invite'[i] = new
            BY <2>2
        <3> HIDE DEF new
        <3> QED
            BY <3>2, <3>3, <3>4
    <2>5. invite'[i] # NoInvite
        BY <2>1, <2>3, <2>4, RowsOfInvites
    <2>6. /\ recorded'[i] \in Records /\ recorded'[i].created = old.created
          /\ recorded'[i].revoked = old.revoked /\ recorded'[i].joined = old.joined \cup {a}
        <3> HIDE DEF old, a
        <3> DEFINE new == [old EXCEPT !.joined = @ \cup {a}]
        <3>1. old \in Records /\ a \in Actors
            BY <2>1, <2>3
        <3>2. /\ new \in Records /\ new.created = old.created
              /\ new.revoked = old.revoked /\ new.joined = old.joined \cup {a}
            BY <3>1, RecordColumns
        <3>3. recorded'[i] = new
            BY <2>2
        <3> HIDE DEF new
        <3> QED
            BY <3>2, <3>3
    <2>7. a \notin old.joined
        BY <1>1, <2>1 DEF Accounted
    <2>8. /\ IsFiniteSet(old.joined \cup {a})
          /\ Cardinality(old.joined \cup {a}) = row.used + 1
        BY <1>1, <2>7, OneMore DEF Accounted
    <2>9. member'[row.org][a].status # "none"
        <3>1. member'[row.org][a] = Member("member", "active")
            BY <1>12, AdmitMember
        <3> QED
            BY <3>1 DEF Member
    <2>10. \A b \in recorded'[i].joined :
               actor'[b] # "absent" /\ member'[invite'[i].org][b].status # "none"
        BY <1>8, <2>2, <2>4, <2>6, <2>9
    <2>11. invite'[i].used <= invite'[i].max
        BY <2>1, <2>3, <2>4
    <2>12. old.created = 1 /\ old.revoked = 0
        BY <1>1, <2>1 DEF Accounted
    <2> HIDE DEF row, a, old
    <2> QED
        BY <2>1, <2>4, <2>5, <2>6, <2>8, <2>10, <2>11, <2>12 DEF Accounted
<1>13. CASE Quiet \/ Leaves(t)
    BY <1>9, <1>13 DEF Quiet, Leaves, KeepInvites, ivars
<1> QED
    BY <1>9, <1>10, <1>11, <1>12, <1>13, PeopleChange, InsertRow, RevokeRow, AdmitRow
\* The tables keep their shape.
LEMMA ShapeStep ==
    ASSUME PeopleInvariant, NEW t \in Tx, PeopleStep(t)
    PROVE  PeopleShaped' /\ MembersKept
<1>1. PeopleShaped
    BY DEF PeopleInvariant
<1>2. MembersKept
    BY <1>1, PeopleChange, UnchangedKept, RevokeRow, AdmitMember
       DEF Quiet, Leaves, Inserts, tables
<1>3. \A i \in InviteIds : Accounted(i)'
    BY AccountedStep
<1>4. /\ invite \in [InviteIds -> InviteRows] /\ recorded \in [InviteIds -> Records]
      /\ email \in [Actors -> Emails \cup {0}] /\ DOMAIN actor = Actors /\ users \subseteq Actors
    BY <1>1 DEF PeopleShaped, Records
<1>5. ASSUME NEW i, NEW x, invite' = [invite EXCEPT ![i] = x]
      PROVE  invite' \in [InviteIds -> InviteRows]
    BY <1>3, <1>4, <1>5 DEF Accounted
<1>6. ASSUME NEW i, NEW x, recorded' = [recorded EXCEPT ![i] = x]
      PROVE  recorded' \in [InviteIds -> Records]
    BY <1>3, <1>4, <1>6 DEF Accounted
<1>7. /\ invite' \in [InviteIds -> InviteRows] /\ recorded' \in [InviteIds -> Records]
    <2>1. CASE Quiet \/ Leaves(t)
        BY <1>4, <2>1 DEF Quiet, Leaves, KeepInvites, ivars
    <2>2. CASE Inserts(t)
        <3> DEFINE row == [NoInvite EXCEPT !.org = call[t].org, !.kind = "organization",
                                           !.max = call[t].max]
                   new == [recorded[call[t].invite] EXCEPT !.created = @ + 1]
        <3>1. /\ invite' = [invite EXCEPT ![call[t].invite] = row]
              /\ recorded' = [recorded EXCEPT ![call[t].invite] = new]
            BY <2>2 DEF Inserts, invite_created
        <3> HIDE DEF row, new
        <3> QED
            BY <1>5, <1>6, <3>1
    <2>3. CASE WriteRevocation(t)
        <3> DEFINE row == [invite[call[t].invite] EXCEPT !.revoked = TRUE]
                   new == [recorded[call[t].invite] EXCEPT !.revoked = @ + 1]
        <3>1. /\ invite' = [invite EXCEPT ![call[t].invite] = row]
              /\ recorded' = recorded \/ recorded' = [recorded EXCEPT ![call[t].invite] = new]
            BY <2>3 DEF WriteRevocation, invite_revoked
        <3> HIDE DEF row, new
        <3> QED
            BY <1>4, <1>5, <1>6, <3>1
    <2>4. CASE CommitAcceptance(t)
        <3> DEFINE row == [invite[call[t].invite] EXCEPT !.used = @ + 1]
                   new == [recorded[call[t].invite] EXCEPT !.joined = @ \cup {call[t].by}]
        <3>1. /\ invite' = [invite EXCEPT ![call[t].invite] = row]
              /\ recorded' = [recorded EXCEPT ![call[t].invite] = new]
            BY <2>4 DEF CommitAcceptance, AdmitAs, member_invited
        <3> HIDE DEF row, new
        <3> QED
            BY <1>5, <1>6, <3>1
    <2> QED
        BY <2>1, <2>2, <2>3, <2>4, PeopleChange
<1>8. /\ email' \in [Actors -> Emails \cup {0}] /\ DOMAIN actor' = Actors /\ users' \subseteq Actors
    <2>1. CASE UNCHANGED <<actor, users, email>>
        BY <1>4, <2>1
    <2>2. CASE Leaves(t)
        BY <1>4, <2>2 DEF Leaves, Departs, KeepInvites
    <2>3. CASE CommitAcceptance(t)
        <3> DEFINE c == call[t]
        <3>1. /\ email' = [email EXCEPT ![c.by] = c.email] /\ users' = users \cup {c.by}
              /\ actor' = [actor EXCEPT ![c.by] = "live"]
            BY <2>3 DEF CommitAcceptance, AdmitAs
        <3>2. c.email \in Emails /\ c.by \in Actors
            BY <2>3, AdmitStands
        <3> HIDE DEF c
        <3> QED
            BY <1>4, <3>1, <3>2
    <2> QED
        BY <2>1, <2>2, <2>3, PeopleChange, RevokeRow DEF Quiet, Inserts, tables, ivars
<1>9. \A i \in InviteIds : IsFiniteSet(recorded'[i].joined)
    BY <1>3 DEF Accounted
<1> QED
    BY <1>2, <1>7, <1>8, <1>9 DEF PeopleShaped, MembersKept, Records

\* A person is there as a whole, and nobody else has their email.
WholePeople ==
    /\ \A a \in Actors :
           /\ (actor[a] = "live") <=> (a \in users)
           /\ a \in users => email[a] # 0
           /\ a \notin users => email[a] = 0
    /\ \A a, b \in users : email[a] = email[b] => a = b

LEMMA WholeParts ==
    PeopleHaveMemberships /\ WholePeople => NobodyIsHalfCreated
BY DEF PeopleHaveMemberships, WholePeople, NobodyIsHalfCreated, NoMember

\* Departures and acceptances keep people whole.
LEMMA WholeStep ==
    ASSUME PeopleInvariant, NEW t \in Tx, PeopleStep(t)
    PROVE  NobodyIsHalfCreated' /\ PeopleHaveMemberships'
<1>1. PeopleShaped /\ PeopleHaveMemberships /\ WholePeople
    BY DEF PeopleInvariant, NobodyIsHalfCreated, WholePeople
<1>2. MembersKept
    BY ShapeStep
<1>3. CASE UNCHANGED <<actor, users, email>>
    <2>1. WholePeople'
        BY <1>1, <1>3 DEF WholePeople
    <2>2. PeopleHaveMemberships'
        BY <1>1, <1>2, <1>3 DEF PeopleHaveMemberships, PeopleShaped, MembersKept
    <2> QED
        BY <2>1, <2>2, WholeParts, PTL
<1>4. CASE Leaves(t)
    <2> DEFINE a == call[t].by
    <2>1. /\ users' = users \ {a} /\ actor' = [actor EXCEPT ![a] = "departed"]
          /\ email' = [b \in Actors |-> IF b \in users' THEN email[b] ELSE 0]
        BY <1>4 DEF Leaves, Departs, KeepInvites
    <2> HIDE DEF a
    <2>2. \A b \in Actors : actor'[b] = IF b = a THEN "departed" ELSE actor[b]
        BY <1>1, <2>1 DEF PeopleShaped
    <2>3. \A b \in users' : b \in Actors /\ b \in users /\ email'[b] = email[b]
        BY <1>1, <2>1 DEF PeopleShaped
    <2>4. WholePeople'
        <3>1. \A b \in Actors : (actor'[b] = "live") <=> (b \in users')
            BY <1>1, <2>1, <2>2 DEF WholePeople
        <3>2. \A b \in Actors : /\ b \in users' => email'[b] # 0
                                /\ b \notin users' => email'[b] = 0
            BY <1>1, <2>1, <2>3 DEF WholePeople
        <3>3. \A b, d \in users' : email'[b] = email'[d] => b = d
            BY <1>1, <2>3 DEF WholePeople
        <3> QED
            BY <3>1, <3>2, <3>3 DEF WholePeople
    <2>5. PeopleHaveMemberships'
        BY <1>1, <1>2, <2>3 DEF PeopleHaveMemberships, MembersKept
    <2> QED
        BY <2>4, <2>5, WholeParts, PTL
<1>5. CASE CommitAcceptance(t)
    <2> DEFINE c == call[t]
               o == invite[c.invite].org
    <2>1. /\ c.by \in Actors /\ c.email \in Emails /\ actor[c.by] = "absent" /\ o \in Orgs
          /\ \A a \in Actors : email[a] # c.email
        BY <1>5, AdmitStands
    <2>2. /\ email'[c.by] = c.email /\ actor'[c.by] = "live" /\ users' = users \cup {c.by}
          /\ \A a \in Actors : a # c.by => email'[a] = email[a] /\ actor'[a] = actor[a]
        BY <1>5, AdmitRow
    <2>3. member'[o][c.by].status # "none"
        <3>1. member'[o][c.by] = Member("member", "active")
            BY <1>5, AdmitMember
        <3> QED
            BY <3>1 DEF Member
    <2>4. c.email # 0
        BY <2>1, IdentifiersAssumption
    <2> HIDE DEF c, o
    <2>5. WholePeople'
        <3>1. \A b \in Actors : (actor'[b] = "live") <=> (b \in users')
            BY <1>1, <2>1, <2>2 DEF WholePeople
        <3>2. \A b \in Actors : /\ b \in users' => email'[b] # 0
                                /\ b \notin users' => email'[b] = 0
            BY <1>1, <2>1, <2>2, <2>4 DEF WholePeople
        <3>3. \A b, d \in users' : email'[b] = email'[d] => b = d
            <4>1. users \subseteq Actors
                BY <1>1 DEF PeopleShaped
            <4> QED
                BY <1>1, <2>1, <2>2, <4>1 DEF WholePeople
        <3> QED
            BY <3>1, <3>2, <3>3 DEF WholePeople
    <2>6. PeopleHaveMemberships'
        <3>1. users \subseteq Actors
            BY <1>1 DEF PeopleShaped
        <3>2. \A a \in users : \E p \in Orgs : member'[p][a].status # "none"
            BY <1>1, <1>2, <3>1 DEF PeopleHaveMemberships, MembersKept
        <3> QED
            BY <2>1, <2>2, <2>3, <3>2 DEF PeopleHaveMemberships
    <2> QED
        BY <2>5, <2>6, WholeParts, PTL
<1> QED
    BY <1>3, <1>4, <1>5, PeopleChange, RevokeRow DEF Quiet, Inserts, tables, ivars

\* The accounts, row by row, say what the invariant says.
AllAccounted == \A i \in InviteIds : Accounted(i)

LEMMA AccountsParts ==
    AllAccounted => InvitesAccounted /\ JoinedThere
<1> SUFFICES ASSUME AllAccounted PROVE InvitesAccounted /\ JoinedThere
    OBVIOUS
<1> USE DEF AllAccounted
<1>1. JoinedThere
    BY DEF Accounted, JoinedThere
<1>2. ASSUME NEW i \in InviteIds, NEW a \in recorded[i].joined
      PROVE  member[invite[i].org][a] # NoMember
    BY <1>2 DEF Accounted, NoMember
<1> QED
    BY <1>1, <1>2 DEF Accounted, InvitesAccounted

\* Every step of a transaction keeps the invariant.
LEMMA PeopleInductive ==
    ASSUME PeopleInvariant, NEW t \in Tx, PeopleStep(t)
    PROVE  PeopleInvariant'
<1>1. Shaped' /\ LocksExclude'
    BY PeopleFrame DEF PeopleInvariant
<1>2. AllStand'
    <2>1. Stands(t)'
        BY TenantStands, InviteStands, AsideStands DEF PeopleStep
    <2>2. \A u \in Tx : u # t => Stands(u)'
        BY StandsForOthers
    <2> QED
        BY <2>1, <2>2 DEF AllStand
<1>3. AllApart'
    BY ApartStep DEF AllApart
<1>4. /\ PeopleCourse' /\ NewcomersFresh' /\ InvitesFresh' /\ InviteHeld' /\ EmailHeld'
      /\ RevocationHeld' /\ LeaverThere'
    BY <1>2, <1>3, StandsParts, PTL
<1>5. InvitesAccounted' /\ JoinedThere'
    <2>1. AllAccounted'
        BY AccountedStep DEF AllAccounted
    <2> QED
        BY <2>1, AccountsParts, PTL
<1>6. PeopleShaped' /\ NobodyIsHalfCreated' /\ PeopleHaveMemberships'
    BY ShapeStep, WholeStep
<1> QED
    BY <1>1, <1>4, <1>5, <1>6 DEF PeopleInvariant
\* Time passes.
LEMMA ExpireInductive ==
    ASSUME PeopleInvariant, NEW i \in InviteIds, Expire(i)
    PROVE  PeopleInvariant'
<1>1. /\ UNCHANGED <<actor, users, member, pc, call, held, todo, loc, result, recorded, email>>
      /\ invite[i] # NoInvite /\ invite' = [invite EXCEPT ![i].expired = TRUE]
    BY DEF Expire, vars, tables, locks
<1>2. DOMAIN invite = InviteIds /\ invite[i] \in InviteRows
    BY InviteTables DEF PeopleInvariant
<1> DEFINE row == invite[i]
           new == [row EXCEPT !.expired = TRUE]
<1>3. invite'[i] = new /\ \A j \in InviteIds : j # i => invite'[j] = invite[j]
    BY <1>1, <1>2
<1>4. /\ new \in InviteRows /\ new.used = row.used /\ new.max = row.max
      /\ new.org = row.org /\ new.kind = row.kind
    BY <1>1, <1>2, InviteColumns
<1>5. new.revoked = row.revoked
    BY <1>1, <1>2, InviteColumns
<1>6. new # NoInvite
    BY <1>1, <1>2, <1>4, RowsOfInvites
<1> HIDE DEF new
<1>7. ASSUME NEW u \in Tx
      PROVE  Stands(u)'
    <2> DEFINE c == call[u]
    <2>1. Stands(u)
        BY StandsNow
    <2>2. /\ pc'[u] = pc[u] /\ call'[u] = call[u] /\ held'[u] = held[u] /\ todo'[u] = todo[u]
        BY <1>1
    <2>3. ASSUME Accepting(u), pc[u] # "done"
          PROVE  actor'[c.by] = "absent"
        BY <1>1, <2>1, <2>3 DEF Stands, AcceptanceStands
    <2>4. Leaving(u) => actor'[c.by] # "absent"
        BY <1>1, <2>1 DEF Stands
    <2>5. ASSUME Accepting(u), pc[u] \in {"accept_email", "accept_member"}
          PROVE  Unspent(c.invite)' /\ invite'[c.invite].kind = "organization"
        <3>1. Unspent(c.invite) /\ row.kind = row.kind /\ invite[c.invite].kind = "organization"
            BY <2>1, <2>5 DEF Stands, AcceptanceStands
        <3>2. c.invite \in InviteIds
            BY <2>1, <2>5, PeopleAreOthers DEF Stands, CourseStands, Accepting, InviteCallOK
        <3>3. CASE c.invite # i
            BY <1>3, <2>2, <3>1, <3>2, <3>3 DEF Unspent
        <3>4. CASE c.invite = i
            <4>1. new.used < new.max /\ ~new.revoked /\ new.kind = "organization"
                BY <1>4, <1>5, <3>1, <3>4 DEF Unspent
            <4> QED
                BY <1>3, <2>2, <3>4, <4>1 DEF Unspent
        <3> QED
            BY <3>3, <3>4
    <2>6. Accepting(u) /\ pc[u] = "accept_member" => \A a \in Actors : email'[a] # c.email
        BY <1>1, <2>1 DEF Stands, AcceptanceStands
    <2>7. ASSUME c.op = "create_invite", pc[u] # "done"
          PROVE  invite'[c.invite] = NoInvite
        <3>1. invite[c.invite] = NoInvite /\ c.invite \in InviteIds
            BY <2>1, <2>7, PeopleAreOthers DEF Stands, CourseStands, InviteCallOK
        <3> QED
            BY <1>1, <1>3, <3>1
    <2>8. \A j \in InviteIds : invite[j] # NoInvite => invite'[j] # NoInvite
        BY <1>3, <1>6
    <2> QED
        BY <2>1, <2>2, <2>3, <2>4, <2>5, <2>6, <2>7, <2>8, StandsKept
<1>8. AllStand' /\ AllApart'
    <2>1. AllApart
        BY StandsParts DEF PeopleInvariant
    <2> QED
        BY <1>1, <1>7, <2>1 DEF AllStand, AllApart, Apart, Accepting
<1>9. /\ PeopleCourse' /\ NewcomersFresh' /\ InvitesFresh' /\ InviteHeld' /\ EmailHeld'
      /\ RevocationHeld' /\ LeaverThere'
    BY <1>8, StandsParts, PTL
<1>10. AllAccounted'
    <2> SUFFICES ASSUME NEW j \in InviteIds PROVE Accounted(j)'
        BY DEF AllAccounted
    <2>1. Accounted(j)
        BY AccountedParts
    <2>2. CASE j # i
        BY <1>1, <1>3, <2>1, <2>2 DEF Accounted
    <2>3. CASE j = i
        <3>1. /\ new.used <= new.max /\ Cardinality(recorded[i].joined) = new.used
              /\ recorded[i].created = (IF new = NoInvite THEN 0 ELSE 1)
              /\ \A a \in recorded[i].joined :
                     actor[a] # "absent" /\ member[new.org][a].status # "none"
            BY <1>1, <1>4, <1>6, <2>1, <2>3 DEF Accounted
        <3>2. recorded[i].revoked = (IF new.revoked THEN 1 ELSE 0)
            BY <1>5, <2>1, <2>3 DEF Accounted
        <3>3. recorded[i] \in Records /\ IsFiniteSet(recorded[i].joined)
            BY <2>1, <2>3 DEF Accounted
        <3> QED
            BY <1>1, <1>3, <1>4, <2>3, <3>1, <3>2, <3>3 DEF Accounted
    <2> QED
        BY <2>2, <2>3
<1>11. InvitesAccounted' /\ JoinedThere'
    BY <1>10, AccountsParts, PTL
<1>12. PeopleShaped'
    <2>1. invite' = [invite EXCEPT ![i] = new] /\ new \in InviteRows
        BY <1>1, <1>4 DEF new
    <2> QED
        BY <1>1, <2>1 DEF PeopleInvariant, PeopleShaped
<1>13. Shaped' /\ LocksExclude' /\ PeopleHaveMemberships' /\ NobodyIsHalfCreated'
    BY <1>1 DEF PeopleInvariant, Shaped, LocksExclude, PeopleHaveMemberships,
                NobodyIsHalfCreated
<1> QED
    BY <1>9, <1>11, <1>12, <1>13 DEF PeopleInvariant

\* Nothing happens.
LEMMA PeopleStutter ==
    ASSUME PeopleInvariant, UNCHANGED inviteVars
    PROVE  PeopleInvariant'
<1>1. UNCHANGED <<actor, users, member, pc, call, held, todo, loc, result, invite, recorded, email>>
    BY DEF inviteVars, ivars, vars, tables, locks
<1>2. Shaped' /\ LocksExclude' /\ PeopleHaveMemberships' /\ NobodyIsHalfCreated'
    BY <1>1 DEF PeopleInvariant, Shaped, LocksExclude, PeopleHaveMemberships,
                NobodyIsHalfCreated
<1>3. PeopleShaped' /\ InvitesAccounted' /\ JoinedThere'
    BY <1>1 DEF PeopleInvariant, PeopleShaped, InvitesAccounted, JoinedThere
<1>4. ASSUME NEW u \in Tx
      PROVE  Stands(u)'
    <2>1. Stands(u)
        BY StandsNow
    <2>2. Unspent(call[u].invite) => Unspent(call[u].invite)'
        BY <1>1 DEF Unspent
    <2> QED
        BY <1>1, <2>1, <2>2, StandsKept DEF Stands, AcceptanceStands
<1>5. AllStand' /\ AllApart'
    <2>1. AllApart
        BY StandsParts DEF PeopleInvariant
    <2> QED
        BY <1>1, <1>4, <2>1 DEF AllStand, AllApart, Apart, Accepting
<1>6. /\ PeopleCourse' /\ NewcomersFresh' /\ InvitesFresh' /\ InviteHeld' /\ EmailHeld'
      /\ RevocationHeld' /\ LeaverThere'
    BY <1>5, StandsParts, PTL
<1> QED
    BY <1>2, <1>3, <1>6 DEF PeopleInvariant

\* A run starts with people who are there and invites nobody has used.
LEMMA PeopleInit ==
    ASSUME InvitesInit
    PROVE  PeopleInvariant
<1>1. PICK db \in Initial : actor = db.actor /\ users = db.users /\ member = db.member
    BY DEF InvitesInit, StoreInit
<1>2. db \in Databases /\ Sound(db)
    BY InitialAssumption
<1>3. /\ actor \in [Actors -> {"absent", "live", "departed"}] /\ users \subseteq Actors
      /\ member \in [Orgs -> [Actors -> MemberRows]]
    BY <1>1, <1>2 DEF Databases
<1>4. /\ held = [t \in Tx |-> NoLocks] /\ todo = [t \in Tx |-> NoStatement]
      /\ pc = [t \in Tx |-> "idle"] /\ call = [t \in Tx |-> NoCall]
      /\ loc = [t \in Tx |-> NoLocals] /\ result = [t \in Tx |-> "none"]
    BY DEF InvitesInit, StoreInit
<1>5. invite \in [InviteIds -> InviteRows] /\ \A i \in InviteIds : invite[i].used = 0
    BY InitialInvitesAssumption DEF InvitesInit
<1>6. \A t \in Tx : pc[t] = "idle" /\ call[t].op = "none"
    BY <1>4 DEF NoCall
<1>7. Shaped
    <2>1. NoLocks \in [Rows -> 0 .. Update] /\ NoStatement.mode \in Modes
        BY ModeFacts DEF NoLocks, NoStatement, Update
    <2> QED
        BY <1>4, <2>1 DEF Shaped
<1>8. LocksExclude
    <2>1. \A t \in Tx, r \in Rows : held[t][r] = 0
        BY <1>4 DEF NoLocks
    <2> QED
        BY <2>1 DEF LocksExclude, Conflict
<1>9. AllStand /\ AllApart
    <2>1. "none" \notin PeopleOperations
        BY DEF PeopleOperations, InviteOperations, Routes, NeedsSession
    <2> QED
        BY <1>6, <2>1 DEF AllStand, AllApart, Stands, Apart, CourseStands, Accepting, Leaving
<1>10. ASSUME NEW i \in InviteIds
       PROVE  /\ recorded[i] \in Records /\ recorded[i].joined = {} /\ Accounted(i)
    <2>1. recorded = [j \in InviteIds |-> [created |-> IF invite[j] = NoInvite THEN 0 ELSE 1,
                                           revoked |-> IF invite[j].revoked THEN 1 ELSE 0,
                                           joined |-> {}]]
        BY DEF InvitesInit
    <2>2. /\ recorded[i].created = (IF invite[i] = NoInvite THEN 0 ELSE 1)
          /\ recorded[i].revoked = (IF invite[i].revoked THEN 1 ELSE 0)
          /\ recorded[i].joined = {}
        BY <2>1
    <2>3. recorded[i] \in Records
        BY <2>1 DEF Records
    <2>4. IsFiniteSet({}) /\ Cardinality({}) = 0
        BY FS_EmptySet
    <2>5. invite[i].used = 0 /\ invite[i].max \in Nat /\ invite[i] \in InviteRows
        BY <1>5, RowsOfInvites
    <2> QED
        BY <2>2, <2>3, <2>4, <2>5 DEF Accounted
<1>11. recorded \in [InviteIds -> Records] /\ email \in [Actors -> Emails \cup {0}]
    BY <1>10, InitialPeopleAssumption DEF InvitesInit
<1>12. PeopleShaped
    BY <1>3, <1>5, <1>10, <1>11, FS_EmptySet DEF PeopleShaped, Records
<1>13. /\ \A a \in Actors :
              /\ (db.actor[a] = "live") <=> (a \in db.users)
              /\ (InitialEmails[a] = 0) <=> (a \notin db.users)
              /\ a \in db.users => \E o \in Orgs : db.member[o][a] # NoMember
       /\ \A a, b \in db.users : InitialEmails[a] = InitialEmails[b] => a = b
    BY InitialPeopleAssumption
<1>14. PeopleHaveMemberships
    <2>1. \A r \in MemberRows : r # NoMember => r.status # "none"
        BY DEF MemberRows, NoMember, Statuses
    <2> QED
        BY <1>1, <1>3, <1>13, <2>1 DEF PeopleHaveMemberships
<1>15. NobodyIsHalfCreated
    BY <1>1, <1>13 DEF NobodyIsHalfCreated, InvitesInit
<1>16. InvitesAccounted /\ JoinedThere
    BY <1>10, AccountsParts DEF AllAccounted
<1> QED
    BY <1>7, <1>8, <1>9, <1>12, <1>14, <1>15, <1>16, StandsParts DEF PeopleInvariant
----------------------------------------------------------------------------
(* The theorems about invites.                                             *)

\* A call of an invite operation.
LEMMA CallAsks ==
    ASSUME Shaped, NEW t \in Tx, CallInvites(t)
    PROVE  Asks(t)
<1>1. PICK c \in InviteCalls :
          /\ pc[t] = "idle" /\ FreshInvite(c)
          /\ call' = [call EXCEPT ![t] = c] /\ pc' = [pc EXCEPT ![t] = "begin"]
          /\ UNCHANGED <<tables, blind, locks, loc, result, ivars>>
    BY DEF CallInvites
<1>2. c.op \in PeopleOperations /\ InviteCallOK(c)
    BY InviteCallsAssumption DEF PeopleOperations
<1>3. call'[t] = c /\ pc'[t] = "begin"
    BY <1>1 DEF Shaped
<1>4. Called(t)
    BY <1>1 DEF Called, locks
<1> QED
    BY <1>1, <1>2, <1>3, <1>4 DEF Asks

\* The steps of Invites are steps of a transaction, or time passing.
LEMMA InvitesSteps ==
    ASSUME Shaped, InvitesNext
    PROVE  (\E t \in Tx : PeopleStep(t)) \/ \E i \in InviteIds : Expire(i)
BY CallAsks DEF InvitesNext, Next, PeopleStep

\* PeopleInvariant holds however calls, acceptances, revocations, departures and the
\* expiry of invites interleave.
THEOREM PeopleAgree == InvitesSpec => []PeopleInvariant
<1>1. InvitesInit => PeopleInvariant
    BY PeopleInit
<1>2. PeopleInvariant /\ [InvitesNext]_inviteVars => PeopleInvariant'
    <2> SUFFICES ASSUME PeopleInvariant, [InvitesNext]_inviteVars PROVE PeopleInvariant'
        OBVIOUS
    <2>1. CASE UNCHANGED inviteVars
        BY <2>1, PeopleStutter
    <2>2. CASE InvitesNext
        BY <2>2, InvitesSteps, PeopleInductive, ExpireInductive DEF PeopleInvariant
    <2> QED
        BY <2>1, <2>2
<1> QED
    BY <1>1, <1>2, PTL DEF InvitesSpec

\* An invite is never used more often than it allows, one person joined for each use, and
\* it was made once and revoked at most once: the row lock of the conditional UPDATE holds
\* every use apart from the next.
THEOREM InvitesAreAccounted == InvitesSpec => []InvitesAccounted
<1>1. PeopleInvariant => InvitesAccounted
    BY DEF PeopleInvariant
<1> QED
    BY <1>1, PeopleAgree, PTL

\* A person has a users row, an email of their own and a membership, or nothing.
THEOREM PeopleAreWhole == InvitesSpec => []NobodyIsHalfCreated
<1>1. PeopleInvariant => NobodyIsHalfCreated
    BY DEF PeopleInvariant
<1> QED
    BY <1>1, PeopleAgree, PTL

\* Whoever becomes a person is admitted by an invite that is unspent in that very step.
LEMMA JoinIsAdmitted ==
    ASSUME PeopleInvariant, NEW t \in Tx, PeopleStep(t),
           NEW a \in Actors, actor[a] = "absent", actor'[a] # "absent"
    PROVE  \E i \in InviteIds :
               /\ Unspent(i) /\ invite[i].kind = "organization"
               /\ invite' = [invite EXCEPT ![i].used = @ + 1]
               /\ member'[invite[i].org][a] = Member("member", "active")
<1>1. ~Leaves(t)
    <2> SUFFICES ASSUME Leaves(t) PROVE FALSE
        OBVIOUS
    <2>1. Leaving(t) /\ actor' = [actor EXCEPT ![call[t].by] = "departed"]
        BY DEF Leaves, Departs
    <2>2. actor[call[t].by] # "absent"
        BY <2>1, StandsNow DEF Stands
    <2>3. DOMAIN actor = Actors
        BY DEF PeopleInvariant, PeopleShaped
    <2> QED
        BY <2>1, <2>2, <2>3
<1>2. CommitAcceptance(t)
    BY <1>1, PeopleChange, RevokeRow DEF Quiet, Inserts, tables
<1> DEFINE c == call[t]
           i == c.invite
<1>3. i \in InviteIds /\ Unspent(i) /\ invite[i].kind = "organization"
    BY <1>2, AdmitStands
<1>4. a = c.by
    BY <1>2, AdmitRow
<1>5. member'[invite[i].org][c.by] = Member("member", "active")
    BY <1>2, AdmitMember
<1>6. invite' = [invite EXCEPT ![i].used = @ + 1]
    BY <1>2 DEF CommitAcceptance, AdmitAs
<1> HIDE DEF c, i
<1> QED
    BY <1>3, <1>4, <1>5, <1>6

\* People appear only by such a use, however long an acceptance waited for its locks.
THEOREM JoinsAdmitted == InvitesSpec => JoinsAreAdmitted
<1> DEFINE A == \A a \in Actors :
                    actor[a] = "absent" /\ actor'[a] # "absent" =>
                        \E i \in InviteIds :
                            /\ Unspent(i) /\ invite[i].kind = "organization"
                            /\ invite' = [invite EXCEPT ![i].used = @ + 1]
                            /\ member'[invite[i].org][a] = Member("member", "active")
<1>1. PeopleInvariant /\ [InvitesNext]_inviteVars => [A]_inviteVars
    <2> SUFFICES ASSUME PeopleInvariant, InvitesNext PROVE A
        OBVIOUS
    <2>1. CASE \E i \in InviteIds : Expire(i)
        BY <2>1 DEF Expire, vars, tables
    <2>2. CASE \E t \in Tx : PeopleStep(t)
        BY <2>2, JoinIsAdmitted
    <2> QED
        BY <2>1, <2>2, InvitesSteps DEF PeopleInvariant
<1>2. InvitesSpec => [][A]_inviteVars
    BY <1>1, PeopleAgree, PTL DEF InvitesSpec
<1> QED
    BY <1>2 DEF JoinsAreAdmitted
----------------------------------------------------------------------------
(* Handlers and sessions: every step of theirs stands aside.               *)

\* A transaction that answers.
LEMMA AnswerAside ==
    ASSUME PeopleInvariant, NEW t \in Tx, call[t].op \in Routes, pc[t] # "done",
           NEW r, Answer(t, r)
    PROVE  Aside(t) /\ pc'[t] = "done"
<1>1. Stands(t) /\ DOMAIN pc = Tx
    BY StandsNow DEF PeopleInvariant, Shaped
<1>2. InviteCallOK(call[t])
    BY <1>1 DEF Stands, CourseStands, PeopleOperations
<1>3. Over(t) /\ UNCHANGED <<tables, ivars, call>> /\ pc'[t] = "done"
    BY <1>1 DEF Answer, Rollback, End, Over
<1>4. InviteCallOK(call'[t])
    BY <1>2, <1>3
<1> QED
    BY <1>3, <1>4 DEF Aside

\* One that goes on to a point of its handler.
LEMMA GoOnAside ==
    ASSUME PeopleInvariant, NEW t \in Tx, call[t].op \in Routes, pc[t] # "done",
           NEW p \in {"web_hash", "sign_in_actor", "sign_in_insert"}, NEW m \in Modes,
           NEW rows, GoOn(t, p, m, rows)
    PROVE  Aside(t) /\ pc'[t] = p
<1>1. Stands(t) /\ Shaped
    BY StandsNow DEF PeopleInvariant
<1>2. InviteCallOK(call[t])
    BY <1>1 DEF Stands, CourseStands, PeopleOperations
<1>3. Start(t, p, m, rows) /\ UNCHANGED <<loc, ivars>>
    BY DEF GoOn
<1>4. Proceeds(t)
    BY <1>1, <1>3, StartProceeds DEF Shaped
<1>5. UNCHANGED <<tables, ivars, call>> /\ pc'[t] = p
    BY <1>1, <1>3, Comes DEF Start
<1>6. InviteCallOK(call'[t])
    BY <1>2, <1>5
<1> QED
    BY <1>4, <1>5, <1>6 DEF Aside

\* One that learns who its actor is.
LEMMA ActorAside ==
    ASSUME PeopleInvariant, NEW t \in Tx, call[t].op \in Routes, pc[t] # "done",
           NEW a, call[t].op = "accept_invite" => a = call[t].by,
           NEW p \in {"begin", "verify"},
           call' = [call EXCEPT ![t].by = a], pc' = [pc EXCEPT ![t] = p],
           UNCHANGED <<tables, blind, locks, loc, result, ivars>>
    PROVE  Aside(t) /\ pc'[t] = p /\ call'[t].by = a /\ call'[t].op = call[t].op
<1>1. Stands(t) /\ Shaped
    BY StandsNow DEF PeopleInvariant
<1> DEFINE c == call[t]
           d == [c EXCEPT !.by = a]
<1>2. InviteCallOK(c)
    BY <1>1 DEF Stands, CourseStands, PeopleOperations
<1>3. call'[t] = d /\ pc'[t] = p /\ call' = [call EXCEPT ![t] = d]
    BY <1>1 DEF Shaped
<1>4. {"op", "by"} \subseteq DOMAIN c
    BY <1>2 DEF InviteCallOK
<1>5. DOMAIN d = DOMAIN c /\ d.by = a /\ \A f \in DOMAIN c : f # "by" => d[f] = c[f]
    BY <1>4
<1>6. d.op = c.op
    BY <1>4, <1>5
<1>7. "invite" \in DOMAIN c => d.invite = c.invite
    BY <1>5
<1>8. "email" \in DOMAIN c => d.email = c.email
    BY <1>5
<1>9. "max" \in DOMAIN c => d.max = c.max
    BY <1>5
<1> HIDE DEF d
<1>10. InviteCallOK(d)
    BY <1>2, <1>5, <1>6, <1>7, <1>8, <1>9 DEF InviteCallOK
<1>11. Called(t)
    BY <1>3 DEF Called, locks
<1>12. c.op \in {"create_invite", "accept_invite"} => d.invite = c.invite
    BY <1>2, <1>7 DEF InviteCallOK
<1> QED
    BY <1>3, <1>5, <1>6, <1>10, <1>11, <1>12 DEF Aside, Accepting

\* An operation that begins has an actor, if it needs a session.
Served(t) == pc'[t] = "begin" /\ call'[t].op = "revoke_session" => call'[t].by # 0

\* The routes a session answers for are not what an invite is accepted by.
LEMMA RouteKinds ==
    /\ NeedsSession \subseteq Routes /\ "sign_in" \in Routes /\ "accept_invite" \in Routes
    /\ "revoke_session" \in NeedsSession /\ "me" \in NeedsSession
    /\ "sign_in" \notin NeedsSession /\ "accept_invite" \notin NeedsSession
BY DEF NeedsSession, Routes

LEMMA HandlersStandAside ==
    ASSUME PeopleInvariant, SessionsCourse, NEW t \in Tx, WebStep(t)
    PROVE  Aside(t) /\ pc'[t] # "web_session" /\ Served(t) /\ UNCHANGED session
<1> USE RouteKinds DEF Served
<1>1. CASE Authenticate(t)
    <2> DEFINE r == call[t]
               a == IF r.cookie = 0 THEN 0 ELSE resolve_session(r.cookie)
    <2>1. /\ pc[t] = "web_session"
          /\ \/ \E s : Answer(t, s) /\ UNCHANGED session
             \/ a # 0 /\ BeginOperation(t, a)
        BY <1>1 DEF Authenticate, Refuse
    <2>2. r.op \in NeedsSession /\ r.op \in Routes /\ r.op # "accept_invite"
        BY <2>1 DEF SessionsCourse
    <2> HIDE DEF a
    <2>3. CASE \E s : Answer(t, s) /\ UNCHANGED session
        BY <2>1, <2>2, <2>3, AnswerAside
    <2>4. CASE a # 0 /\ BeginOperation(t, a)
        BY <2>1, <2>2, <2>4, ActorAside DEF BeginOperation
    <2> QED
        BY <2>1, <2>3, <2>4
<1>2. CASE ReadSignIn(t)
    <2>1. /\ pc[t] = "web_body" /\ call[t].op = "sign_in"
          /\ (Answer(t, "InvalidBody") /\ UNCHANGED session) \/ BeginOperation(t, 0)
        BY <1>2 DEF ReadSignIn, Refuse, At
    <2>2. CASE Answer(t, "InvalidBody") /\ UNCHANGED session
        BY <2>1, <2>2, AnswerAside
    <2>3. CASE BeginOperation(t, 0)
        <3>1. Aside(t) /\ pc'[t] = "begin" /\ call'[t].op = "sign_in" /\ UNCHANGED session
            BY <2>1, <2>3, ActorAside DEF BeginOperation
        <3> QED
            BY <3>1
    <2> QED
        BY <2>1, <2>2, <2>3
<1>3. CASE FilterAcceptance(t)
    <2>1. /\ pc[t] = "web_body" /\ call[t].op = "accept_invite" /\ UNCHANGED session
          /\ (\E s : Answer(t, s)) \/ GoOn(t, "web_hash", KeyShare, {})
        BY <1>3 DEF FilterAcceptance, Refuse, At
    <2>2. CASE \E s : Answer(t, s)
        BY <2>1, <2>2, AnswerAside
    <2>3. CASE GoOn(t, "web_hash", KeyShare, {})
        BY <2>1, <2>3, GoOnAside, ModeFacts
    <2> QED
        BY <2>1, <2>2, <2>3
<1>4. CASE HashPassword(t)
    <2>1. /\ pc[t] = "web_hash" /\ call[t].op = "accept_invite"
          /\ (Answer(t, "HashFailed") /\ UNCHANGED session) \/ BeginOperation(t, call[t].by)
        BY <1>4 DEF HashPassword, Refuse, At
    <2>2. CASE Answer(t, "HashFailed") /\ UNCHANGED session
        BY <2>1, <2>2, AnswerAside
    <2>3. CASE BeginOperation(t, call[t].by)
        <3>1. Aside(t) /\ pc'[t] = "begin" /\ call'[t].op = "accept_invite" /\ UNCHANGED session
            BY <2>1, <2>3, ActorAside DEF BeginOperation
        <3> QED
            BY <3>1
    <2> QED
        BY <2>1, <2>2, <2>3
<1> QED
    BY <1>1, <1>2, <1>3, <1>4 DEF WebStep

LEMMA SessionsStandAside ==
    ASSUME PeopleInvariant, NEW t \in Tx, SessionsStep(t)
    PROVE  Aside(t) /\ pc'[t] \notin {"web_session", "begin"}
<1> USE RouteKinds
<1>1. CASE ReadPerson(t)
    <2>1. PICK person : call' = [call EXCEPT ![t].by = person]
        BY <1>1 DEF ReadPerson
    <2>2. /\ pc[t] = "begin" /\ call[t].op = "sign_in" /\ pc' = [pc EXCEPT ![t] = "verify"]
          /\ UNCHANGED <<tables, blind, locks, loc, result, ivars>>
        BY <1>1 DEF ReadPerson, At
    <2> QED
        BY <2>1, <2>2, ActorAside
<1>2. CASE Verify(t)
    <2> DEFINE rows == {ActorRow(a) : a \in {b \in {call[t].by} : SeesActor(b, b)}}
    <2>1. /\ pc[t] = "verify" /\ call[t].op = "sign_in"
          /\ (\E s : Answer(t, s)) \/ GoOn(t, "sign_in_actor", Share, rows)
        BY <1>2 DEF Verify, At
    <2> HIDE DEF rows
    <2>2. CASE \E s : Answer(t, s)
        BY <2>1, <2>2, AnswerAside
    <2>3. CASE GoOn(t, "sign_in_actor", Share, rows)
        BY <2>1, <2>3, GoOnAside, ModeFacts
    <2> QED
        BY <2>1, <2>2, <2>3
<1>3. CASE RereadPerson(t)
    <2>1. /\ pc[t] = "sign_in_actor" /\ call[t].op = "sign_in"
          /\ (\E s : Answer(t, s)) \/ GoOn(t, "sign_in_insert", KeyShare, {})
        BY <1>3 DEF RereadPerson, At
    <2>2. CASE \E s : Answer(t, s)
        BY <2>1, <2>2, AnswerAside
    <2>3. CASE GoOn(t, "sign_in_insert", KeyShare, {})
        BY <2>1, <2>3, GoOnAside, ModeFacts
    <2> QED
        BY <2>1, <2>2, <2>3
<1>4. CASE InsertSession(t) \/ RevokeSession(t) \/ ReadMe(t)
    <2>1. /\ pc[t] # "done" /\ call[t].op \in Routes
          /\ \E s : Answer(t, s)
        BY <1>4 DEF InsertSession, RevokeSession, ReadMe, At
    <2> QED
        BY <2>1, AnswerAside
<1> QED
    BY <1>1, <1>2, <1>3, <1>4 DEF SessionsStep

\* protect: a request is a call; those that need a session go to look for it first.
LEMMA ReceiveAsks ==
    ASSUME Shaped, NEW t \in Tx, Receive(t)
    PROVE  /\ Asks(t) /\ UNCHANGED session /\ pc'[t] # "begin"
           /\ pc'[t] = "web_session" => call'[t].op \in NeedsSession
<1>1. PICK r \in WebRequests :
          LET refused == checks_origin(r) /\ ~r.origin
          IN /\ pc[t] = "idle" /\ FreshToken(r) /\ FreshInvite(r)
             /\ call' = [call EXCEPT ![t] = r]
             /\ pc' = [pc EXCEPT ![t] = IF refused THEN "done"
                          ELSE IF r.op \in NeedsSession THEN "web_session" ELSE "web_body"]
             /\ result' = [result EXCEPT ![t] = IF refused THEN "BadOrigin" ELSE "none"]
             /\ UNCHANGED <<tables, blind, locks, loc, ivars, session>>
    BY DEF Receive
<1> DEFINE refused == checks_origin(r) /\ ~r.origin
           p == IF refused THEN "done"
                ELSE IF r.op \in NeedsSession THEN "web_session" ELSE "web_body"
           s == IF refused THEN "BadOrigin" ELSE "none"
<1>2. /\ call' = [call EXCEPT ![t] = r] /\ pc' = [pc EXCEPT ![t] = p]
      /\ result' = [result EXCEPT ![t] = s]
      /\ UNCHANGED <<tables, blind, locks, loc, ivars, session>>
    BY <1>1
<1>3. p \in {"done", "web_session", "web_body"} /\ (p = "web_session" => r.op \in NeedsSession)
    OBVIOUS
<1> HIDE DEF p, s
<1>4. call'[t] = r /\ pc'[t] = p
    BY <1>2 DEF Shaped
<1>5. Called(t)
    BY <1>2 DEF Called, locks
<1>6. r.op \in PeopleOperations /\ InviteCallOK(r)
    BY WebRequestsAssumption DEF PeopleOperations
<1>7. pc[t] = "idle" /\ FreshInvite(r)
    BY <1>1
<1> QED
    BY <1>2, <1>3, <1>4, <1>5, <1>6, <1>7 DEF Asks

\* The points of invites.rs are not those of handlers.
LEMMA InviteArrives ==
    ASSUME Shaped, NEW t \in Tx, InvitesStep(t)
    PROVE  pc'[t] \notin {"idle", "web_session", "web_body", "web_hash", "begin", "verify",
                          "sign_in_actor", "sign_in_insert"}
<1>1. ASSUME NEW r, Answer(t, r)
      PROVE  pc'[t] = "done"
    BY <1>1, Comes DEF Answer
<1>2. ASSUME NEW p, NEW m, NEW rows, GoOn(t, p, m, rows)
      PROVE  pc'[t] = p
    BY <1>2, Comes DEF GoOn
<1>3. CASE LockInviter(t)
    <2> DEFINE rows == {ActorRow(a) : a \in {b \in {call[t].by} : SeesActor(b, b)}}
    <2>1. GoOn(t, "invite_actor", Share, rows)
        BY <1>3 DEF LockInviter
    <2> HIDE DEF rows
    <2> QED
        BY <1>2, <2>1
<1>4. CASE LockInviteOrganization(t) \/ CreateInvite(t) \/ RevokeInvite(t)
    BY <1>1, <1>2, <1>4 DEF LockInviteOrganization, CreateInvite, RevokeInvite
<1>5. CASE InsertInvite(t) \/ WriteRevocation(t) \/ InviteIsUsable(t) \/ CommitAcceptance(t)
    BY <1>1, <1>5, Comes DEF InsertInvite, WriteRevocation, InviteIsUsable, CommitAcceptance,
                             AdmitAs, Commit
<1>6. CASE AcceptInvite(t) \/ AcceptPerson(t) \/ AcceptMember(t)
    BY <1>1, <1>2, <1>6 DEF AcceptInvite, AcceptPerson, AcceptMember
<1> QED
    BY <1>3, <1>4, <1>5, <1>6 DEF InvitesStep

\* One transaction's part of SessionsCourse.
Looked(t) ==
    /\ pc[t] = "web_session" => call[t].op \in NeedsSession
    /\ pc[t] = "begin" /\ call[t].op = "revoke_session" => call[t].by # 0

\* Who looks for a session needs it, whichever step t takes.
LEMMA LookedFor ==
    ASSUME PeopleInvariant, SessionsCourse, NEW t \in Tx, PeopleStep(t), Looked(t)'
    PROVE  SessionsCourse'
<1>1. \A u \in Tx \ {t} : pc'[u] = pc[u] /\ call'[u] = call[u]
    <2>1. Shaped /\ LocksExclude
        BY DEF PeopleInvariant
    <2> QED
        BY <2>1, PeopleFrame DEF Only
<1>2. ASSUME NEW u \in Tx
      PROVE  Looked(u)'
    <2>1. Looked(u)
        BY DEF SessionsCourse, Looked
    <2>2. CASE u # t
        BY <1>1, <2>1, <2>2 DEF Looked
    <2> QED
        BY <2>2
<1> QED
    BY <1>2 DEF SessionsCourse, Looked

\* Tenant operations and invites never get there.
LEMMA InvitesLook ==
    ASSUME PeopleInvariant, SessionsCourse, NEW t \in Tx,
           \/ (Begin(t) \/ Step(t) \/ Cancel(t)) /\ KeepInvites
           \/ CallInvites(t) \/ InvitesStep(t)
    PROVE  Looked(t)'
<1>1. Shaped /\ Looked(t)
    BY DEF PeopleInvariant, SessionsCourse, Looked
<1>2. "web_session" \notin Points /\ "begin" \notin Points
    BY DEF Points
<1>3. CASE Step(t) \/ Cancel(t)
    <2>1. pc'[t] = pc[t] \/ pc'[t] \in Points
        BY <1>1, <1>3, TenantPoint
    <2>2. call'[t] = call[t]
        BY <1>1, <1>3, TenantKinds DEF Kinds, Over, End, Proceeds, TakeLock
    <2> QED
        BY <1>1, <1>2, <2>1, <2>2 DEF Looked
<1>4. CASE Begin(t)
    <2>1. pc'[t] \in Points
        BY <1>1, <1>4, TenantArrives DEF Points
    <2> QED
        BY <1>2, <2>1 DEF Looked
<1>5. CASE CallInvites(t)
    <2>1. PICK c \in InviteCalls : call' = [call EXCEPT ![t] = c] /\ pc' = [pc EXCEPT ![t] = "begin"]
        BY <1>5 DEF CallInvites
    <2>2. call'[t] = c /\ pc'[t] = "begin" /\ c.op \in InviteOperations
        BY <1>1, <2>1, InviteCallsAssumption DEF Shaped
    <2> QED
        BY <2>2 DEF Looked, InviteOperations
<1>6. CASE InvitesStep(t)
    BY <1>1, <1>6, InviteArrives DEF Looked
<1> QED
    BY <1>3, <1>4, <1>5, <1>6

----------------------------------------------------------------------------
(* The sessions.                                                           *)

\* A row of the sessions table: typed, and somebody's.
SessionOK(k) ==
    /\ session[k] \in SessionRows
    /\ session[k] # NoSession => session[k].actor \in users

\* Who has a users row is there.
LEMMA SessionParts ==
    PeopleInvariant /\ DOMAIN session = Tokens /\ session = [k \in Tokens |-> session[k]]
            /\ (\A k \in Tokens : SessionOK(k))
        => session \in [Tokens -> SessionRows] /\ SessionsHavePeople
<1> SUFFICES ASSUME PeopleInvariant, session = [k \in Tokens |-> session[k]],
                    \A k \in Tokens : SessionOK(k)
             PROVE  session \in [Tokens -> SessionRows] /\ SessionsHavePeople
    OBVIOUS
<1>1. \A a \in users : actor[a] = "live"
    BY DEF PeopleInvariant, NobodyIsHalfCreated, PeopleShaped
<1> QED
    BY <1>1 DEF SessionOK, SessionsHavePeople

\* ON DELETE CASCADE: who is deleted takes their sessions along.
LEMMA CascadeKeeps ==
    ASSUME SessionsInvariant, Cascade, NEW k \in Tokens
    PROVE  /\ SessionOK(k)' /\ DOMAIN session' = Tokens
<1>1. session[k] \in SessionRows /\ (session[k] # NoSession => session[k].actor \in users)
    BY DEF SessionsInvariant, SessionsHavePeople
<1>2. /\ DOMAIN session' = Tokens
      /\ session'[k] = IF session[k].actor \in users \ users' THEN NoSession ELSE session[k]
    BY DEF Cascade
<1>3. NoSession \in SessionRows
    BY DEF SessionRows
<1> QED
    BY <1>1, <1>2, <1>3 DEF SessionOK

\* One session is written, for somebody who is there.
LEMMA WrittenKeeps ==
    ASSUME SessionsInvariant, UNCHANGED users, NEW j, NEW row,
           j \in Tokens => row \in SessionRows /\ row.actor \in users,
           session' = [session EXCEPT ![j] = row], NEW k \in Tokens
    PROVE  SessionOK(k)' /\ DOMAIN session' = Tokens
<1>1. /\ session[k] \in SessionRows /\ DOMAIN session = Tokens
      /\ session[k] # NoSession => session[k].actor \in users
    BY DEF SessionsInvariant, SessionsHavePeople
<1>2. DOMAIN session' = Tokens /\ session'[k] = IF k = j THEN row ELSE session[k]
    BY <1>1
<1> QED
    BY <1>1, <1>2 DEF SessionOK

\* Revoking or expiring a session leaves it its person's.
LEMMA MarkedRow ==
    ASSUME NEW row \in SessionRows, row # NoSession
    PROVE  /\ [row EXCEPT !.revoked = TRUE] \in SessionRows
           /\ [row EXCEPT !.expired = TRUE] \in SessionRows
           /\ [row EXCEPT !.revoked = TRUE].actor = row.actor
           /\ [row EXCEPT !.expired = TRUE].actor = row.actor
<1>1. row \in [actor : Actors, revoked : BOOLEAN, expired : BOOLEAN]
    BY DEF SessionRows
<1>2. /\ [row EXCEPT !.revoked = TRUE] \in [actor : Actors, revoked : BOOLEAN, expired : BOOLEAN]
      /\ [row EXCEPT !.expired = TRUE] \in [actor : Actors, revoked : BOOLEAN, expired : BOOLEAN]
    BY <1>1
<1> QED
    BY <1>1, <1>2 DEF SessionRows

\* Signing in writes a session of a person, revoking one marks it.
LEMMA SessionsWritten ==
    ASSUME SessionsInvariant, NEW t \in Tx, SessionsStep(t), NEW k \in Tokens
    PROVE  SessionOK(k)' /\ DOMAIN session' = Tokens
<1>1. /\ PeopleInvariant /\ session \in [Tokens -> SessionRows] /\ DOMAIN session = Tokens
      /\ \A j \in Tokens : session[j] # NoSession => session[j].actor \in users
    BY DEF SessionsInvariant, SessionsHavePeople
<1>2. UNCHANGED users /\ users \subseteq Actors
    BY <1>1, SessionsStandAside DEF Aside, tables, PeopleInvariant, PeopleShaped
<1>3. CASE UNCHANGED session
    BY <1>1, <1>2, <1>3 DEF SessionOK
<1>4. CASE InsertSession(t) /\ session' # session
    <2> DEFINE row == [NoSession EXCEPT !.actor = call[t].by]
    <2>1. call[t].by \in users /\ session' = [session EXCEPT ![call[t].token] = row]
        BY <1>4 DEF InsertSession
    <2>2. row \in SessionRows /\ row.actor = call[t].by
        BY <1>2, <2>1 DEF NoSession, SessionRows
    <2> HIDE DEF row
    <2> QED
        BY <1>2, <2>1, <2>2, WrittenKeeps
<1>5. CASE RevokeSession(t) /\ session' # session
    <2> DEFINE c == call[t]
               old == session[c.token]
               row == [old EXCEPT !.revoked = TRUE]
    <2>1. /\ pc[t] = "begin" /\ c.op = "revoke_session" /\ old.actor = c.by
          /\ session' = [session EXCEPT ![c.token] = row]
        BY <1>5 DEF RevokeSession, At
    <2>2. old.actor # 0
        BY <2>1 DEF SessionsInvariant, SessionsCourse
    <2>3. old # NoSession
        BY <2>2 DEF NoSession
    <2>4. ASSUME c.token \in Tokens
          PROVE  row \in SessionRows /\ row.actor \in users
        <3>1. old \in SessionRows /\ old.actor \in users
            BY <1>1, <2>3, <2>4
        <3> HIDE DEF old
        <3> QED
            BY <2>3, <3>1, MarkedRow
    <2> HIDE DEF row
    <2> QED
        BY <1>2, <2>1, <2>4, WrittenKeeps
<1> QED
    BY <1>3, <1>4, <1>5 DEF SessionsStep, ReadPerson, Verify, RereadPerson, ReadMe,
                            InsertSession, RevokeSession

\* What a step leaves to show, once people and their course are as they should be.
LEMMA SessionsFrom ==
    ASSUME PeopleInvariant', SessionsCourse', DOMAIN session' = Tokens,
           session' = [k \in Tokens |-> session'[k]], \A k \in Tokens : SessionOK(k)'
    PROVE  SessionsInvariant'
<1>1. /\ PeopleInvariant' /\ (DOMAIN session = Tokens)'
      /\ (session = [k \in Tokens |-> session[k]])' /\ (\A k \in Tokens : SessionOK(k))'
    OBVIOUS
<1>2. (session \in [Tokens -> SessionRows])' /\ SessionsHavePeople'
    BY <1>1, SessionParts, PTL
<1> QED
    BY <1>2 DEF SessionsInvariant

\* Every step of handlers, sessions, invites and tenant operations keeps the invariant.
LEMMA SessionsInductive ==
    ASSUME SessionsInvariant, WebNext
    PROVE  SessionsInvariant'
<1>1. /\ PeopleInvariant /\ SessionsCourse /\ Shaped
      /\ session \in [Tokens -> SessionRows] /\ DOMAIN session = Tokens
      /\ \A k \in Tokens : session[k] # NoSession => session[k].actor \in users
    BY DEF SessionsInvariant, SessionsHavePeople, PeopleInvariant
<1>2. ASSUME UNCHANGED <<session, users>>
      PROVE  /\ DOMAIN session' = Tokens /\ session' = [k \in Tokens |-> session'[k]]
             /\ \A k \in Tokens : SessionOK(k)'
    BY <1>1, <1>2 DEF SessionOK
<1>3. CASE InvitesNext /\ Cascade
    <2>1. (\E t \in Tx : PeopleStep(t)) \/ \E i \in InviteIds : Expire(i)
        BY <1>1, <1>3, InvitesSteps
    <2>2. PeopleInvariant'
        BY <1>1, <2>1, PeopleInductive, ExpireInductive
    <2>3. SessionsCourse'
        <3>1. CASE \E i \in InviteIds : Expire(i)
            BY <1>1, <3>1 DEF Expire, vars, SessionsCourse
        <3>2. ASSUME NEW t \in Tx,
                     \/ (Begin(t) \/ Step(t) \/ Cancel(t)) /\ KeepInvites
                     \/ CallInvites(t) \/ InvitesStep(t)
              PROVE  SessionsCourse'
            <4>1. Looked(t)'
                BY <1>1, <3>2, InvitesLook
            <4>2. PeopleStep(t)
                BY <1>1, <3>2, CallAsks DEF PeopleStep
            <4> QED
                BY <1>1, <4>1, <4>2, LookedFor
        <3> QED
            BY <1>3, <3>1, <3>2 DEF InvitesNext, Next
    <2>4. DOMAIN session' = Tokens /\ session' = [k \in Tokens |-> session'[k]]
        BY <1>3 DEF Cascade
    <2>5. \A k \in Tokens : SessionOK(k)'
        BY <1>3, CascadeKeeps
    <2> QED
        BY <2>2, <2>3, <2>4, <2>5, SessionsFrom
<1>4. ASSUME NEW t \in Tx, SessionsStep(t)
      PROVE  SessionsInvariant'
    <2>1. Aside(t) /\ pc'[t] \notin {"web_session", "begin"}
        BY <1>1, <1>4, SessionsStandAside
    <2>2. PeopleStep(t) /\ Looked(t)'
        BY <2>1 DEF PeopleStep, Looked
    <2>3. PeopleInvariant' /\ SessionsCourse'
        BY <1>1, <2>2, PeopleInductive, LookedFor
    <2>4. \A k \in Tokens : SessionOK(k)'
        BY <1>4, SessionsWritten
    <2>5. DOMAIN session' = Tokens /\ session' = [k \in Tokens |-> session'[k]]
        BY <1>1, <1>4 DEF SessionsStep, ReadPerson, Verify, RereadPerson, InsertSession,
                          RevokeSession, ReadMe
    <2> QED
        BY <2>3, <2>4, <2>5, SessionsFrom
<1>5. ASSUME NEW j \in Tokens, ExpireSession(j)
      PROVE  SessionsInvariant'
    <2> DEFINE old == session[j]
               row == [old EXCEPT !.expired = TRUE]
    <2>1. old # NoSession /\ session' = [session EXCEPT ![j] = row] /\ UNCHANGED inviteVars
        BY <1>5 DEF ExpireSession
    <2>2. old \in SessionRows /\ old.actor \in users
        BY <1>1, <2>1
    <2>3. DOMAIN session' = Tokens /\ session' = [k \in Tokens |-> session'[k]]
        BY <1>1, <2>1
    <2>4. row \in SessionRows /\ row.actor \in users
        <3> HIDE DEF old
        <3> QED
            BY <2>1, <2>2, MarkedRow
    <2> HIDE DEF row, old
    <2>5. UNCHANGED users /\ UNCHANGED <<pc, call>>
        BY <2>1 DEF inviteVars, vars, tables
    <2>6. \A k \in Tokens : SessionOK(k)'
        BY <2>1, <2>4, <2>5, WrittenKeeps
    <2>7. PeopleInvariant'
        BY <1>1, <2>1, PeopleStutter
    <2>8. SessionsCourse'
        BY <1>1, <2>5 DEF SessionsCourse
    <2> QED
        BY <2>3, <2>6, <2>7, <2>8, SessionsFrom
<1>6. ASSUME NEW t \in Tx, Receive(t) \/ WebStep(t)
      PROVE  SessionsInvariant'
    <2>1. /\ Asks(t) \/ Aside(t)
          /\ UNCHANGED session /\ Looked(t)'
        BY <1>1, <1>6, ReceiveAsks, HandlersStandAside DEF Looked, Served
    <2>2. PeopleStep(t) /\ UNCHANGED users
        BY <2>1 DEF PeopleStep, Asks, Aside, tables
    <2>3. PeopleInvariant' /\ SessionsCourse'
        BY <1>1, <2>1, <2>2, PeopleInductive, LookedFor
    <2> QED
        BY <1>2, <2>1, <2>2, <2>3, SessionsFrom
<1> QED
    BY <1>3, <1>4, <1>5, <1>6 DEF WebNext, SessionsNext

LEMMA SessionsStart ==
    ASSUME SessionsInit
    PROVE  SessionsInvariant
<1>1. InvitesInit /\ session \in InitialSessions
    BY DEF SessionsInit
<1>2. PeopleInvariant
    BY <1>1, PeopleInit
<1>3. PICK db \in Initial : users = db.users
    BY <1>1 DEF InvitesInit, StoreInit
<1>4. session \in [Tokens -> SessionRows] /\ \A k \in Tokens : SessionOK(k)
    BY <1>1, <1>3, InitialSessionsAssumption DEF SessionOK
<1>5. SessionsHavePeople
    BY <1>2, <1>4, SessionParts
<1>6. SessionsCourse
    BY <1>1 DEF InvitesInit, StoreInit, SessionsCourse
<1> QED
    BY <1>2, <1>4, <1>5, <1>6 DEF SessionsInvariant

LEMMA SessionsStay ==
    ASSUME SessionsInvariant, UNCHANGED sessionVars
    PROVE  SessionsInvariant'
<1>1. UNCHANGED inviteVars /\ UNCHANGED <<session, pc, call, users, actor>>
    BY DEF sessionVars, inviteVars, vars, tables
<1>2. PeopleInvariant'
    BY <1>1, PeopleStutter DEF SessionsInvariant
<1> QED
    BY <1>1, <1>2 DEF SessionsInvariant, SessionsCourse, SessionsHavePeople

\* SessionsInvariant, with what it says of people and invites, holds behind the HTTP
\* routes too, however requests, sign-ins, departures and expiries interleave.
THEOREM SessionsAgree == WebSpec => []SessionsInvariant
<1>1. SessionsInit => SessionsInvariant
    BY SessionsStart
<1>2. SessionsInvariant /\ [WebNext]_sessionVars => SessionsInvariant'
    BY SessionsInductive, SessionsStay
<1> QED
    BY <1>1, <1>2, PTL DEF WebSpec

\* Every session belongs to a person who is there, whatever signs in, leaves, revokes or
\* expires at the same time: a sign-in inserts its session only beside the users row, and
\* a departure takes the sessions along.
THEOREM SessionsBelong == WebSpec => []SessionsHavePeople
<1>1. SessionsInvariant => SessionsHavePeople
    BY DEF SessionsInvariant
<1> QED
    BY <1>1, SessionsAgree, PTL
===============================================================================
