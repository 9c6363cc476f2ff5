---------------------------- MODULE AuthorityProofs ----------------------------
(***************************************************************************)
(* Machine-checked proofs that nobody acts on what they no longer are:     *)
(* AuthorityInvariant is inductive beside any number of tenant operations, *)
(* invites and sessions, so capabilities hold at the commit and handlers   *)
(* answer truly.                                                           *)
(***************************************************************************)
EXTENDS PeopleProofs, Authority

\* Whoever holds a row FOR UPDATE is the only one who holds it.
LEMMA HoldsAlone ==
    ASSUME Shaped, LocksExclude, NEW t \in Tx, NEW u \in Tx, t # u, NEW r \in Rows,
           held[t][r] >= Update, held[u][r] >= KeyShare
    PROVE  FALSE
<1>1. held[t][r] \in 0 .. 4 /\ held[u][r] \in 0 .. 4
    BY DEF Shaped, Update
<1>2. ~(held[t][r] + held[u][r] > 4)
    BY DEF LocksExclude, Conflict
<1> QED
    BY <1>1, <1>2 DEF Update, KeyShare

----------------------------------------------------------------------------
(* What a step does to actors and memberships, row by row.                 *)

\* A change of a membership: what counts after it counted before.
Governs(t) ==
    LET c == call[t]
    IN /\ pc[t] = "write" /\ c.op \in Governing
       /\ \E row : /\ member' = [member EXCEPT ![c.org][c.who] = row]
                   /\ row.status \in {"active", "suspended"} => Present(c.org, c.who)
       /\ UNCHANGED actor

Founds(t) ==
    LET c == call[t]
    IN /\ pc[t] = "insert" /\ c.op = "create_organization"
       /\ member' = [member EXCEPT ![c.org][c.by] = Member("owner", "active")]
       /\ UNCHANGED actor

\* UPDATE organization_members makes no membership count.
LEMMA WriteGoverns ==
    ASSUME NEW t \in Tx, pc[t] = "write", call[t].op \in Governing,
           NEW role, NEW status, NEW event, WriteMember(t, role, status, event),
           status = member[call[t].org][call[t].who].status \/ Present(call[t].org, call[t].who)
    PROVE  UNCHANGED <<actor, member>> \/ Governs(t)
<1> DEFINE c == call[t]
           old == member[c.org][c.who]
           row == SetColumns(old, role, status)
<1>1. row.status \in {"active", "suspended"} => Present(c.org, c.who)
    <2>1. CASE old = NoMember
        BY <2>1 DEF SetColumns, NoMember
    <2>2. CASE old # NoMember
        <3>1. row.status = status
            BY <2>2 DEF SetColumns, Member
        <3> QED
            BY <3>1 DEF Present
    <2> QED
        BY <2>1, <2>2
<1>2. \/ Rollback(t, "Database")
      \/ member' = [member EXCEPT ![c.org][c.who] = row] /\ UNCHANGED actor
    BY DEF WriteMember
<1> HIDE DEF row
<1> QED
    BY <1>1, <1>2 DEF Governs, Rollback, tables

LEMMA TenantRows ==
    ASSUME AuthorityInvariant, NEW t \in Tx, Begin(t) \/ Step(t) \/ Cancel(t)
    PROVE  UNCHANGED <<actor, member>> \/ Governs(t) \/ Founds(t) \/ LeaveCommit(t)
<1>1. TenantHolds(t)
    BY DEF AuthorityInvariant, Holds
<1>2. CASE UNCHANGED tables
    BY <1>2 DEF tables
<1>3. CASE InsertOrganization(t)
    BY <1>2, <1>3 DEF InsertOrganization, At, Rollback, Founds
<1>4. CASE WriteMemberRole(t)
    BY <1>4, WriteGoverns DEF WriteMemberRole, At, Governing
<1>5. CASE WriteSuspension(t)
    BY <1>1, <1>5, WriteGoverns DEF WriteSuspension, At, Governing, TenantHolds
<1>6. CASE WriteReactivation(t)
    BY <1>1, <1>6, WriteGoverns DEF WriteReactivation, At, Governing, TenantHolds
<1>7. ASSUME NEW role, NEW event, WriteTeamMember(t, role, event)
      PROVE  UNCHANGED <<actor, member>>
    BY <1>7 DEF WriteTeamMember, Rollback, tables
<1>8. CASE CreateTeam(t) \/ WriteTeamMembership(t) \/ WriteTeamRole(t) \/ WriteTeamRemoval(t)
    BY <1>7, <1>8 DEF CreateTeam, WriteTeamMembership, WriteTeamRole, WriteTeamRemoval,
                      Rollback, tables
<1>9. CASE WriteChannel(t) \/ WriteChannelMember(t)
    BY <1>9 DEF WriteChannel, WriteChannelMember, Rollback, tables
<1> QED
    BY <1>2, <1>3, <1>4, <1>5, <1>6, <1>8, <1>9, ReadsKeep
       DEF Step, MembershipStep, LeavingStep, TeamsStep, ChannelsStep

LEMMA RowsChange ==
    ASSUME AuthorityInvariant, NEW t \in Tx, PeopleStep(t)
    PROVE  \/ UNCHANGED <<actor, member>> \/ Governs(t) \/ Founds(t) \/ LeaveCommit(t)
           \/ CommitAcceptance(t)
<1>1. PeopleInvariant
    BY DEF AuthorityInvariant
<1>2. CASE Begin(t) \/ Step(t) \/ Cancel(t)
    BY <1>2, TenantRows
<1>3. CASE Asks(t) \/ Aside(t)
    BY <1>3 DEF Asks, Aside, tables
<1>4. CASE InvitesStep(t)
    <2>1. \/ UNCHANGED tables \/ CommitAcceptance(t)
        <3>1. ASSUME NEW r, Answer(t, r) \/ Rollback(t, r)
              PROVE  UNCHANGED tables
            BY <3>1 DEF Answer, Rollback
        <3>2. ASSUME NEW p, NEW m, NEW rows, GoOn(t, p, m, rows)
              PROVE  UNCHANGED tables
            BY <3>2 DEF GoOn, Start
        <3>3. CASE LockInviter(t)
            BY <3>3 DEF LockInviter, GoOn, Start
        <3>4. CASE LockInviteOrganization(t) \/ CreateInvite(t) \/ InsertInvite(t)
            BY <3>1, <3>2, <3>4 DEF LockInviteOrganization, CreateInvite, InsertInvite
        <3>5. CASE RevokeInvite(t) \/ WriteRevocation(t) \/ InviteIsUsable(t)
            BY <3>1, <3>2, <3>5 DEF RevokeInvite, WriteRevocation, InviteIsUsable
        <3>6. CASE AcceptInvite(t) \/ AcceptPerson(t) \/ AcceptMember(t)
            BY <3>1, <3>2, <3>6 DEF AcceptInvite, AcceptPerson, AcceptMember
        <3> QED
            BY <1>4, <3>3, <3>4, <3>5, <3>6 DEF InvitesStep
    <2> QED
        BY <2>1 DEF tables
<1> QED
    BY <1>2, <1>3, <1>4 DEF PeopleStep

\* A departure has found all its memberships, and ends them.
LEMMA LeaveEnds ==
    ASSUME AuthorityInvariant, NEW t \in Tx, LeaveCommit(t), NEW o \in Orgs, NEW a \in Actors
    PROVE  /\ a = call[t].by => ~Present(o, a)' /\ actor'[a] = "departed"
           /\ a # call[t].by => member'[o][a] = member[o][a] /\ actor'[a] = actor[a]
           /\ a = call[t].by /\ Present(o, a) => held[t][OrgRow(o)] >= KeyShare
           /\ Leaving(t) /\ held[t][ActorRow(call[t].by)] >= Update /\ actor[call[t].by] = "live"
<1> DEFINE by == call[t].by
           row == SetColumns(member[o][by], member[o][by].role, "left")
<1>1. /\ pc[t] = "leave_next" /\ Returned(t) /\ loc[t].rest = {}
      /\ member' = [p \in Orgs |-> IF p \in loc[t].memberships
                       THEN [member[p] EXCEPT ![by] = SetColumns(@, @.role, "left")]
                       ELSE member[p]]
      /\ actor' = [actor EXCEPT ![by] = "departed"]
    BY DEF LeaveCommit, Leaver, At
<1>2. LeaverHolds(t) /\ PeopleShaped
    BY DEF AuthorityInvariant, Holds, PeopleInvariant
<1>3. Leaving(t) /\ Looping(t)
    BY <1>1 DEF Leaving, Looping
<1>4. held[t][ActorRow(by)] >= Update /\ actor[by] = "live"
    BY <1>2, <1>3 DEF LeaverHolds
<1>5. Present(o, by) => o \in loc[t].memberships /\ held[t][OrgRow(o)] >= KeyShare
    BY <1>1, <1>2, <1>3, ClaimReturned DEF LeaverHolds
<1>6. row.status \notin {"active", "suspended"}
    BY DEF SetColumns, NoMember, Member
<1>7. DOMAIN member[o] = Actors /\ DOMAIN actor = Actors
    BY <1>2 DEF PeopleShaped
<1>8. o \in loc[t].memberships => member'[o] = [member[o] EXCEPT ![by] = row]
    BY <1>1
<1>9. o \notin loc[t].memberships => member'[o] = member[o]
    BY <1>1
<1> HIDE DEF row
<1>10. a = by => ~Present(o, a)'
    BY <1>5, <1>6, <1>7, <1>8, <1>9 DEF Present
<1>11. a # by => member'[o][a] = member[o][a]
    BY <1>7, <1>8, <1>9
<1> QED
    BY <1>1, <1>3, <1>4, <1>5, <1>7, <1>10, <1>11

\* Every membership after a step, and what made it.
LEMMA RowsAfter ==
    ASSUME AuthorityInvariant, NEW t \in Tx, PeopleStep(t), NEW o \in Orgs, NEW a \in Actors
    PROVE  \/ member'[o][a] = member[o][a] /\ actor'[a] = actor[a]
           \/ /\ Governs(t) /\ o = call[t].org /\ a = call[t].who /\ actor'[a] = actor[a]
              /\ Present(o, a)' => Present(o, a)
           \/ /\ Founds(t) /\ o = call[t].org /\ a = call[t].by /\ actor'[a] = actor[a]
              /\ member'[o][a] = Member("owner", "active")
           \/ LeaveCommit(t) /\ a = call[t].by
           \/ /\ CommitAcceptance(t) /\ a = call[t].by
              /\ actor[a] = "absent" /\ actor'[a] = "live"
              /\ member'[o][a] \in {member[o][a], Member("member", "active")}
<1>1. PeopleInvariant /\ PeopleShaped
    BY DEF AuthorityInvariant, PeopleInvariant
<1>0. DOMAIN member = Orgs /\ \A p \in Orgs : DOMAIN member[p] = Actors
    BY <1>1 DEF PeopleShaped
<1>2. CASE Governs(t)
    <2> DEFINE c == call[t]
    <2>1. PICK row : /\ member' = [member EXCEPT ![c.org][c.who] = row]
                     /\ row.status \in {"active", "suspended"} => Present(c.org, c.who)
        BY <1>2 DEF Governs
    <2>2. member'[o][a] = IF o = c.org /\ a = c.who THEN row ELSE member[o][a]
        BY <1>0, <2>1
    <2>3. actor' = actor
        BY <1>2 DEF Governs
    <2> QED
        BY <1>2, <2>1, <2>2, <2>3 DEF Present
<1>3. CASE Founds(t)
    <2> DEFINE c == call[t]
    <2>1. member' = [member EXCEPT ![c.org][c.by] = Member("owner", "active")]
        BY <1>3 DEF Founds
    <2>2. member'[o][a] = IF o = c.org /\ a = c.by THEN Member("owner", "active")
                          ELSE member[o][a]
        BY <1>0, <2>1
    <2>3. actor' = actor
        BY <1>3 DEF Founds
    <2> QED
        BY <1>3, <2>2, <2>3
<1>4. CASE LeaveCommit(t)
    BY <1>4, LeaveEnds
<1>5. CASE CommitAcceptance(t)
    <2> DEFINE c == call[t]
    <2>1. member' = [member EXCEPT ![invite[c.invite].org][c.by] = Member("member", "active")]
        BY <1>5 DEF CommitAcceptance, AdmitAs
    <2>2. member'[o][a] = IF o = invite[c.invite].org /\ a = c.by
                          THEN Member("member", "active") ELSE member[o][a]
        BY <1>0, <2>1
    <2>3. actor'[c.by] = "live" /\ (a # c.by => actor'[a] = actor[a])
        BY <1>1, <1>5, AdmitRow
    <2>4. actor[c.by] = "absent"
        BY <1>1, <1>5, AdmitStands
    <2> QED
        BY <1>5, <2>2, <2>3, <2>4
<1> QED
    BY <1>2, <1>3, <1>4, <1>5, RowsChange

\* Every actor after a step.
LEMMA ActorAfter ==
    ASSUME AuthorityInvariant, NEW t \in Tx, PeopleStep(t), NEW a \in Actors
    PROVE  \/ actor'[a] = actor[a]
           \/ /\ LeaveCommit(t) /\ a = call[t].by /\ actor[a] = "live" /\ actor'[a] = "departed"
              /\ held[t][ActorRow(a)] >= Update
           \/ /\ CommitAcceptance(t) /\ a = call[t].by
              /\ actor[a] = "absent" /\ actor'[a] = "live"
<1>1. PeopleInvariant /\ PeopleShaped /\ LeaverHolds(t)
    BY DEF AuthorityInvariant, PeopleInvariant, Holds
<1>2. CASE Governs(t) \/ Founds(t)
    BY <1>2 DEF Governs, Founds
<1>3. CASE LeaveCommit(t)
    <2>1. Leaving(t) /\ actor' = [actor EXCEPT ![call[t].by] = "departed"]
        BY <1>3 DEF LeaveCommit, Leaver, At, Leaving
    <2> QED
        BY <1>1, <1>3, <2>1 DEF LeaverHolds, PeopleShaped
<1>4. CASE CommitAcceptance(t)
    <2>1. actor'[call[t].by] = "live" /\ (a # call[t].by => actor'[a] = actor[a])
        BY <1>1, <1>4, AdmitRow
    <2>2. actor[call[t].by] = "absent"
        BY <1>1, <1>4, AdmitStands
    <2> QED
        BY <1>4, <2>1, <2>2
<1> QED
    BY <1>2, <1>3, <1>4, RowsChange

\* An actor that another transaction holds is neither made nor departs meanwhile.
LEMMA HeldActorStays ==
    ASSUME AuthorityInvariant, NEW t \in Tx, NEW u \in Tx, t # u, PeopleStep(t),
           NEW a \in Actors, held[u][ActorRow(a)] >= KeyShare, actor[a] # "absent"
    PROVE  actor'[a] = actor[a]
<1>1. Shaped /\ LocksExclude
    BY DEF AuthorityInvariant, PeopleInvariant
<1>2. ActorRow(a) \in Rows
    BY RowFacts
<1>3. ~(held[t][ActorRow(a)] >= Update)
    BY <1>1, <1>2, HoldsAlone
<1> QED
    BY <1>3, ActorAfter

\* Whoever has come to be stays, if only as one who left.
LEMMA KnownStays ==
    ASSUME AuthorityInvariant, NEW t \in Tx, PeopleStep(t), NEW a \in Actors,
           actor[a] # "absent"
    PROVE  actor'[a] # "absent"
BY ActorAfter
----------------------------------------------------------------------------
(* What a transaction holds is kept by the steps of others.                *)

\* A membership under somebody's FOR UPDATE on its organization stays, or is founded.
LEMMA GovernedStays ==
    ASSUME AuthorityInvariant, NEW t \in Tx, NEW u \in Tx, t # u, PeopleStep(t),
           NEW o \in Orgs, NEW a \in Actors, held[u][OrgRow(o)] >= Update, Present(o, a)
    PROVE  Present(o, a)'
<1>1. Shaped /\ LocksExclude /\ TenantHolds(t)
    BY DEF AuthorityInvariant, PeopleInvariant, Holds
<1>2. OrgRow(o) \in Rows
    BY RowFacts
<1>3. ~(held[t][OrgRow(o)] >= KeyShare)
    BY <1>1, <1>2, HoldsAlone
<1>4. ~(Governs(t) /\ o = call[t].org)
    <2> SUFFICES ASSUME Governs(t), o = call[t].org PROVE FALSE
        OBVIOUS
    <2>1. held[t][OrgRow(o)] >= Update
        BY <1>1 DEF Governs, TenantHolds
    <2>2. held[t][OrgRow(o)] \in 0 .. 4
        BY <1>1, <1>2 DEF Shaped, Update
    <2> QED
        BY <1>3, <2>1, <2>2 DEF Update, KeyShare
<1>5. ~(LeaveCommit(t) /\ a = call[t].by)
    BY <1>3, LeaveEnds
<1>6. Member("owner", "active").status = "active" /\ Member("member", "active").status = "active"
    BY DEF Member
<1> QED
    BY <1>4, <1>5, <1>6, RowsAfter DEF Present

\* Nobody gets a membership that counts behind the back of one who is leaving.
LEMMA LeaverGetsNone ==
    ASSUME AuthorityInvariant, NEW t \in Tx, NEW u \in Tx, t # u, PeopleStep(t),
           NEW o \in Orgs, NEW a \in Actors, held[u][ActorRow(a)] >= Update,
           actor[a] = "live", Present(o, a)'
    PROVE  Present(o, a)
<1>1. Shaped /\ LocksExclude /\ FounderHolds(t)
    BY DEF AuthorityInvariant, PeopleInvariant, Holds
<1>2. ActorRow(a) \in Rows
    BY RowFacts
<1>3. ~(held[t][ActorRow(a)] >= KeyShare)
    BY <1>1, <1>2, HoldsAlone
<1>4. ~(Founds(t) /\ a = call[t].by)
    <2> SUFFICES ASSUME Founds(t), a = call[t].by PROVE FALSE
        OBVIOUS
    <2>1. held[t][ActorRow(a)] >= Share
        BY <1>1 DEF Founds, FounderHolds
    <2>2. held[t][ActorRow(a)] \in 0 .. 4
        BY <1>1, <1>2 DEF Shaped, Update
    <2> QED
        BY <1>3, <2>1, <2>2 DEF Share, KeyShare
<1>5. ~(LeaveCommit(t) /\ a = call[t].by)
    BY LeaveEnds
<1> QED
    BY <1>4, <1>5, RowsAfter DEF Present

\* The heart of it: who is locked FOR SHARE with its organization stays capable.
LEMMA CapableStays ==
    ASSUME AuthorityInvariant, NEW t \in Tx, NEW u \in Tx, t # u, PeopleStep(t),
           NEW o \in Orgs, NEW a \in Actors, held[u][ActorRow(a)] >= Share,
           held[u][OrgRow(o)] >= Share, Capable(o, a)
    PROVE  Capable(o, a)'
<1>1. Shaped /\ LocksExclude /\ TenantHolds(t)
    BY DEF AuthorityInvariant, PeopleInvariant, Holds
<1>2. ActorRow(a) \in Rows /\ OrgRow(o) \in Rows
    BY RowFacts
<1>3. held[u][ActorRow(a)] \in 0 .. 4 /\ held[u][OrgRow(o)] \in 0 .. 4
    BY <1>1, <1>2 DEF Shaped, Update
<1>4. held[u][ActorRow(a)] >= KeyShare /\ held[u][OrgRow(o)] >= KeyShare
    BY <1>3 DEF Share, KeyShare
<1>5. ~(held[t][OrgRow(o)] >= Update) /\ ~(held[t][ActorRow(a)] >= Update)
    BY <1>1, <1>2, <1>4, HoldsAlone
<1>6. actor'[a] = "live"
    BY <1>4, HeldActorStays DEF Capable
<1>7. ~(Governs(t) /\ o = call[t].org)
    BY <1>1, <1>5 DEF Governs, TenantHolds
<1>8. ~(LeaveCommit(t) /\ a = call[t].by)
    BY <1>5, LeaveEnds
<1>9. /\ Member("owner", "active").status = "active" /\ Member("owner", "active").role = "owner"
    BY DEF Member
<1>10. \/ member'[o][a] = member[o][a] \/ member'[o][a] = Member("owner", "active")
    BY <1>7, <1>8, RowsAfter DEF Capable
<1> QED
    BY <1>6, <1>9, <1>10 DEF Capable, holds

LEMMA OthersHold ==
    ASSUME AuthorityInvariant, NEW t \in Tx, NEW u \in Tx, t # u, PeopleStep(t)
    PROVE  Holds(u)'
<1> DEFINE c == call[u]
<1>1. Shaped /\ LocksExclude /\ Holds(u) /\ PeopleInvariant
    BY DEF AuthorityInvariant, PeopleInvariant
<1>2. Only(t)
    BY <1>1, PeopleFrame
<1>3. /\ pc'[u] = pc[u] /\ call'[u] = call[u] /\ loc'[u] = loc[u]
      /\ held'[u] = held[u] /\ todo'[u] = todo[u]
    BY <1>2 DEF Only
<1>4. \A r, m : Claims(u, r, m)' <=> Claims(u, r, m)
    BY <1>3 DEF Claims
<1>5. TenantHolds(u)'
    <2>1. TenantHolds(u)
        BY <1>1 DEF Holds
    <2>2. ASSUME pc[u] = "write", c.op \in {"suspend_member", "reactivate_member"}
          PROVE  member'[c.org][c.who].status \in {"active", "suspended"}
        <3>1. c \in Calls /\ held[u][OrgRow(c.org)] >= Update /\ Present(c.org, c.who)
            BY <2>1, <2>2 DEF TenantHolds, Points, Governing
        <3>2. c.org \in Orgs /\ c.who \in Actors
            BY <2>2, <3>1, CallFacts DEF WithTarget
        <3> QED
            BY <3>1, <3>2, GovernedStays DEF Present
    <2> QED
        BY <1>3, <1>4, <2>1, <2>2 DEF TenantHolds, Present
<1>6. FounderHolds(u)'
    <2>1. FounderHolds(u) /\ TenantHolds(u)
        BY <1>1 DEF Holds
    <2>2. ASSUME c.op = "create_organization", pc[u] = "lock_actor", loc[u].departed # "None"
          PROVE  actor'[c.by] # "absent"
        <3>1. c \in Calls /\ actor[c.by] # "absent"
            BY <2>1, <2>2 DEF TenantHolds, FounderHolds, Points
        <3> QED
            BY <3>1, CallFacts, KnownStays
    <2>3. ASSUME c.op = "create_organization", pc[u] = "insert"
          PROVE  actor'[c.by] = "live"
        <3>1. c \in Calls /\ actor[c.by] = "live" /\ held[u][ActorRow(c.by)] >= Share
            BY <2>1, <2>3 DEF TenantHolds, FounderHolds, Points
        <3>2. c.by \in Actors /\ ActorRow(c.by) \in Rows
            BY <3>1, CallFacts, RowFacts
        <3>3. held[u][ActorRow(c.by)] >= KeyShare
            BY <1>1, <3>1, <3>2 DEF Shaped, Share, KeyShare, Update
        <3> QED
            BY <3>1, <3>2, <3>3, HeldActorStays
    <2> QED
        BY <1>3, <1>4, <2>1, <2>2, <2>3 DEF FounderHolds
<1>7. LeaverHolds(u)'
    <2>1. LeaverHolds(u) /\ TenantHolds(u)
        BY <1>1 DEF Holds
    <2>2. (Leaving(u)' <=> Leaving(u)) /\ (Looping(u)' <=> Looping(u))
        BY <1>3 DEF Leaving, Looping
    <2>3. Looping(u) => Leaving(u)
        BY DEF Leaving, Looping
    <2>4. ASSUME Leaving(u)
          PROVE  /\ actor'[c.by] = "live"
                 /\ \A o \in Orgs :
                        member'[o][c.by].status \in {"active", "suspended"} => Present(o, c.by)
        <3>1. c \in Calls /\ actor[c.by] = "live" /\ held[u][ActorRow(c.by)] >= Update
            BY <2>1, <2>4 DEF TenantHolds, LeaverHolds, Points, Leaving
        <3>2. c.by \in Actors /\ ActorRow(c.by) \in Rows
            BY <3>1, CallFacts, RowFacts
        <3>3. held[u][ActorRow(c.by)] >= KeyShare
            BY <1>1, <3>1, <3>2 DEF Shaped, KeyShare, Update
        <3>4. actor'[c.by] = "live"
            BY <3>1, <3>2, <3>3, HeldActorStays
        <3> QED
            BY <3>1, <3>2, <3>4, LeaverGetsNone DEF Present
    <2> QED
        BY <1>3, <1>4, <2>1, <2>2, <2>3, <2>4 DEF LeaverHolds, Present
<1>8. InviterHolds(u)'
    <2>1. InviterHolds(u)
        BY <1>1 DEF Holds
    <2>2. ASSUME c.by \in Actors, actor[c.by] # "absent"
          PROVE  actor'[c.by] # "absent"
        BY <2>2, KnownStays
    <2>3. ASSUME c.op \in Inviting, pc[u] \in {"invite_insert", "invite_revoke"}
          PROVE  /\ actor'[c.by] = "live" /\ member'[c.org][c.by].status = "active"
                 /\ holds(member'[c.org][c.by].role)
        <3>1. c.op \in PeopleOperations
            BY <2>3 DEF Inviting, PeopleOperations, InviteOperations
        <3>2. c.org \in Orgs
            BY <1>1, <2>3, <3>1 DEF PeopleInvariant, PeopleCourse
        <3>3. /\ c.by \in Actors /\ held[u][ActorRow(c.by)] >= Share
              /\ held[u][OrgRow(c.org)] >= Share /\ Capable(c.org, c.by)
            BY <2>1, <2>3 DEF InviterHolds
        <3> QED
            BY <3>2, <3>3, CapableStays DEF Capable
    <2> QED
        BY <1>3, <1>4, <2>1, <2>2, <2>3 DEF InviterHolds, Capable
<1> QED
    BY <1>5, <1>6, <1>7, <1>8 DEF Holds
----------------------------------------------------------------------------
(* The steps of a tenant operation, for the transaction that takes them.   *)

\* The local variables keep their names.
LEMMA LocalsKept ==
    ASSUME Shaped, NEW t \in Tx, DOMAIN loc[t] = DOMAIN NoLocals,
           \/ UNCHANGED loc \/ loc' = [loc EXCEPT ![t] = NoLocals]
           \/ \E d : loc' = [loc EXCEPT ![t].departed = d]
           \/ \E r : loc' = [loc EXCEPT ![t].from = r]
           \/ \E S : loc' = [loc EXCEPT ![t].orgs = S]
           \/ \E S : loc' = [loc EXCEPT ![t].removing = S]
           \/ \E S, R : loc' = [loc EXCEPT ![t].rest = S, ![t].removing = {}, ![t].removed = R]
           \/ \E S, R : loc' = [loc EXCEPT ![t].listed = S, ![t].unlisted = R]
           \/ \E S, C, R : loc' = [loc EXCEPT ![t].memberships = S, ![t].rest = S,
                                              ![t].current = C, ![t].listed = R]
    PROVE  DOMAIN loc'[t] = DOMAIN NoLocals
BY DEF Shaped

\* A transaction that is done holds nothing to itself.
LEMMA DoneHolds ==
    ASSUME NEW t \in Tx, pc'[t] = "done", DOMAIN loc'[t] = DOMAIN NoLocals
    PROVE  Holds(t)'
BY DEF Holds, TenantHolds, FounderHolds, LeaverHolds, InviterHolds, Leaving, Looping

LEMMA OverHolds ==
    ASSUME Shaped, NEW t \in Tx, Over(t)
    PROVE  Holds(t)'
<1>1. pc'[t] = "done" /\ loc'[t] = NoLocals
    BY DEF Shaped, Over, End
<1> QED
    BY <1>1, DoneHolds

\* Waiting only adds locks.
LEMMA TakeLockHolds ==
    ASSUME AuthorityInvariant, NEW t \in Tx, TakeLock(t)
    PROVE  Holds(t)'
<1> DEFINE c == call[t]
<1>1. Shaped /\ Holds(t) /\ PeopleInvariant
    BY DEF AuthorityInvariant, PeopleInvariant
<1>2. UNCHANGED <<tables, blind, pc, call, loc, result>>
    BY DEF TakeLock
<1>3. UNCHANGED <<actor, member>>
    BY <1>2 DEF tables
<1>4. /\ \A o \in Orgs, m \in Modes :
             /\ held[t][OrgRow(o)] >= m => held'[t][OrgRow(o)] >= m
             /\ Claims(t, OrgRow(o), m) => Claims(t, OrgRow(o), m)'
      /\ \A a \in Actors, m \in Modes :
             /\ held[t][ActorRow(a)] >= m => held'[t][ActorRow(a)] >= m
             /\ Claims(t, ActorRow(a), m) => Claims(t, ActorRow(a), m)'
    BY <1>1, RowFacts, ClaimsGrow
<1>5. pc[t] \in Points \ {"idle", "done"} =>
          c \in Calls /\ c.by \in Actors /\ (c.op # "leave_service" => c.org \in Orgs)
    BY <1>1, CallFacts DEF Holds, TenantHolds
<1>6. TenantHolds(t)'
    <2>1. TenantHolds(t)
        BY <1>1 DEF Holds
    <2>2. pc[t] = "lock_organization" => Claims(t, OrgRow(c.org), Update)'
        BY <1>2, <1>4, <1>5, <2>1, ModeFacts DEF TenantHolds, Points
    <2>3. pc[t] = "write" /\ c.op \in Governing => held'[t][OrgRow(c.org)] >= Update
        BY <1>4, <1>5, <2>1, ModeFacts DEF TenantHolds, Points, Governing
    <2> QED
        BY <1>2, <1>3, <2>1, <2>2, <2>3 DEF TenantHolds, Present, Claims
<1>7. FounderHolds(t)'
    <2>1. FounderHolds(t)
        BY <1>1 DEF Holds
    <2>2. c.op = "create_organization" /\ pc[t] = "lock_actor" /\ loc[t].departed # "None"
              => Claims(t, ActorRow(c.by), Share)'
        BY <1>2, <1>4, <1>5, <2>1, ModeFacts DEF FounderHolds, Points
    <2>3. c.op = "create_organization" /\ pc[t] = "insert"
              => held'[t][ActorRow(c.by)] >= Share
        BY <1>4, <1>5, <2>1, ModeFacts DEF FounderHolds, Points
    <2> QED
        BY <1>2, <1>3, <2>1, <2>2, <2>3 DEF FounderHolds, Claims
<1>8. LeaverHolds(t)'
    <2>1. LeaverHolds(t)
        BY <1>1 DEF Holds
    <2>2. Leaving(t) => held'[t][ActorRow(c.by)] >= Update
        BY <1>4, <1>5, <2>1, ModeFacts DEF LeaverHolds, Leaving, Points
    <2>3. \A o \in Orgs : Claims(t, OrgRow(o), KeyShare) => Claims(t, OrgRow(o), KeyShare)'
        BY <1>4, ModeFacts
    <2> QED
        BY <1>2, <1>3, <2>1, <2>2, <2>3 DEF LeaverHolds, Leaving, Looping, Present
<1>9. InviterHolds(t)'
    <2>1. InviterHolds(t)
        BY <1>1 DEF Holds
    <2>2. c.op \in Inviting => c.op \in PeopleOperations
        BY DEF Inviting, PeopleOperations, InviteOperations
    <2>3. c.op \in Inviting /\ pc[t] \in {"invite_organization", "invite_insert", "invite_revoke"}
              => c.org \in Orgs
        BY <1>1, <2>2 DEF PeopleInvariant, PeopleCourse
    <2>4. c.op \in Inviting /\ pc[t] = "invite_actor" => Claims(t, ActorRow(c.by), Share)'
        BY <1>2, <1>4, <2>1, ModeFacts DEF InviterHolds
    <2>5. c.op \in Inviting /\ pc[t] \in {"invite_organization", "invite_insert", "invite_revoke"}
              => held'[t][ActorRow(c.by)] >= Share
        BY <1>4, <2>1, ModeFacts DEF InviterHolds
    <2>6. c.op \in Inviting /\ pc[t] = "invite_organization" => Claims(t, OrgRow(c.org), Share)'
        BY <1>2, <1>4, <2>1, <2>3, ModeFacts DEF InviterHolds
    <2>7. c.op \in Inviting /\ pc[t] \in {"invite_insert", "invite_revoke"}
              => held'[t][OrgRow(c.org)] >= Share
        BY <1>4, <2>1, <2>3, ModeFacts DEF InviterHolds
    <2> QED
        BY <1>2, <1>3, <2>1, <2>4, <2>5, <2>6, <2>7 DEF InviterHolds, Capable, Claims
<1> QED
    BY <1>6, <1>7, <1>8, <1>9 DEF Holds

\* A transaction has come to a point by its next statement.
Moved(t, p) ==
    /\ pc'[t] = p /\ DOMAIN loc'[t] = DOMAIN NoLocals
    /\ UNCHANGED <<actor, member, held, call>>

LEMMA StartMoves ==
    ASSUME AuthorityInvariant, NEW t \in Tx, NEW p, NEW m, NEW rows, Start(t, p, m, rows),
           \/ UNCHANGED loc
           \/ \E d : loc' = [loc EXCEPT ![t].departed = d]
           \/ \E r : loc' = [loc EXCEPT ![t].from = r]
           \/ \E S : loc' = [loc EXCEPT ![t].orgs = S]
           \/ \E S : loc' = [loc EXCEPT ![t].removing = S]
           \/ \E S, R : loc' = [loc EXCEPT ![t].rest = S, ![t].removing = {}, ![t].removed = R]
           \/ \E S, R : loc' = [loc EXCEPT ![t].listed = S, ![t].unlisted = R]
           \/ \E S, C, R : loc' = [loc EXCEPT ![t].memberships = S, ![t].rest = S,
                                              ![t].current = C, ![t].listed = R]
    PROVE  Moved(t, p) /\ todo'[t] = Statement(m, rows)
<1>1. Shaped /\ DOMAIN loc[t] = DOMAIN NoLocals
    BY DEF AuthorityInvariant, PeopleInvariant, Holds, TenantHolds
<1>2. DOMAIN loc'[t] = DOMAIN NoLocals
    BY <1>1, LocalsKept
<1> QED
    BY <1>1, <1>2 DEF Moved, Start, Shaped, tables

\* A tenant operation, at a point before its write.
LEMMA MovedHolds ==
    ASSUME NEW t \in Tx, call[t] \in Calls, call[t].op # "leave_service",
           NEW p \in {"lock_organization", "insert", "write"}, Moved(t, p),
           p = "lock_organization" => Claims(t, OrgRow(call[t].org), Update)',
           p = "write" /\ call[t].op \in Governing => held[t][OrgRow(call[t].org)] >= Update,
           p = "write" /\ call[t].op \in {"suspend_member", "reactivate_member"}
               => Present(call[t].org, call[t].who),
           p = "insert" /\ call[t].op = "create_organization"
               => held[t][ActorRow(call[t].by)] >= Share /\ actor[call[t].by] = "live"
    PROVE  Holds(t)'
<1>1. call[t].op \notin Inviting
    BY TenantCalls DEF TenantOperations, Inviting
<1>2. pc'[t] = p /\ call'[t] = call[t] /\ held'[t] = held[t] /\ UNCHANGED <<actor, member>>
    BY DEF Moved
<1>3. TenantHolds(t)'
    BY <1>2 DEF TenantHolds, Moved, Claims, Present
<1>4. FounderHolds(t)' /\ LeaverHolds(t)' /\ InviterHolds(t)'
    BY <1>1, <1>2 DEF FounderHolds, LeaverHolds, InviterHolds, Leaving, Looping
<1> QED
    BY <1>3, <1>4 DEF Holds

\* At any of its points a tenant operation runs one of the calls.
LEMMA AtCalls ==
    ASSUME AuthorityInvariant, NEW t \in Tx,
           pc[t] \in {"lock_actor", "lock_organization", "insert", "write",
                      "leave_actor", "leave_orgs", "leave_next", "leave_audit"}
    PROVE  call[t] \in Calls
BY DEF AuthorityInvariant, Holds, TenantHolds, Points

\* Teams and channels have no part in this.
LEMMA TeamsHold ==
    ASSUME AuthorityInvariant, NEW t \in Tx, TeamsStep(t) \/ ChannelsStep(t)
    PROVE  Holds(t)'
<1> DEFINE ops == {"create_team", "add_team_member", "change_team_member_role",
                   "remove_team_member", "create_channel", "add_channel_member"}
<1>1. Shaped
    BY DEF AuthorityInvariant, PeopleInvariant
<1>2. ASSUME NEW r, Rollback(t, r) \/ End(t, r)
      PROVE  Holds(t)'
    BY <1>1, <1>2, OverHolds DEF Rollback, Over
<1>3. ASSUME NEW p \in {"insert", "write"}, Moved(t, p), call[t].op \in ops,
             pc[t] \in {"lock_organization", "insert"}
      PROVE  Holds(t)'
    <2>1. call[t] \in Calls
        BY <1>3, AtCalls
    <2>2. call[t].op \notin Governing \cup {"create_organization", "leave_service"}
        BY <1>3 DEF Governing
    <2> QED
        BY <1>3, <2>1, <2>2, MovedHolds DEF Governing
<1>4. ASSUME NEW p \in {"insert", "write"}, NEW m, NEW rows, Start(t, p, m, rows),
             UNCHANGED loc, call[t].op \in ops, pc[t] \in {"lock_organization", "insert"}
      PROVE  Holds(t)'
    BY <1>3, <1>4, StartMoves
<1>5. ASSUME NEW role, NEW event, WriteTeamMember(t, role, event)
      PROVE  Holds(t)'
    BY <1>2, <1>5 DEF WriteTeamMember, Commit
<1>6. CASE CreateTeam(t) \/ WriteTeamMembership(t) \/ WriteTeamRole(t) \/ WriteTeamRemoval(t)
    BY <1>2, <1>5, <1>6
       DEF CreateTeam, WriteTeamMembership, WriteTeamRole, WriteTeamRemoval, Commit
<1>7. CASE AddTeamMember(t)
    BY <1>2, <1>4, <1>7 DEF AddTeamMember, At
<1>8. CASE InsertTeamMember(t)
    BY <1>2, <1>4, <1>8 DEF InsertTeamMember, At
<1>9. CASE ChangeTeamMemberRole(t)
    <2>1. CASE /\ loc' = [loc EXCEPT ![t].from = Listing(t)]
               /\ Start(t, "write", NoKeyUpdate, {TeamMemberRow(call[t].team, call[t].who)})
        <3>1. Moved(t, "write")
            BY <2>1, StartMoves
        <3> QED
            BY <1>3, <1>9, <3>1 DEF ChangeTeamMemberRole, At
    <2> QED
        BY <1>2, <1>9, <2>1 DEF ChangeTeamMemberRole
<1>10. CASE RemoveTeamMember(t)
    BY <1>2, <1>4, <1>10 DEF RemoveTeamMember, At
<1>11. CASE CreateChannel(t) \/ AddChannelMember(t)
    BY <1>2, <1>4, <1>11 DEF CreateChannel, AddChannelMember, At
<1>12. CASE WriteChannel(t) \/ WriteChannelMember(t)
    BY <1>2, <1>12 DEF WriteChannel, WriteChannelMember, Commit
<1> QED
    BY <1>6, <1>7, <1>8, <1>9, <1>10, <1>11, <1>12 DEF TeamsStep, ChannelsStep

\* begin, and the statement that locks actors.
LEMMA BeginHolds ==
    ASSUME AuthorityInvariant, NEW t \in Tx, Begin(t)
    PROVE  Holds(t)'
<1>1. Shaped /\ DOMAIN loc[t] = DOMAIN NoLocals
    BY DEF AuthorityInvariant, PeopleInvariant, Holds, TenantHolds
<1>2. PICK c \in Requests :
          /\ call' = [call EXCEPT ![t] = c]
          /\ IF c.op = "leave_service"
             THEN /\ todo' = [todo EXCEPT ![t] = Statement(Update,
                                  {ActorRow(a) : a \in {b \in {c.by} : SeesActor(b, b)}})]
                  /\ pc' = [pc EXCEPT ![t] = "leave_actor"]
                  /\ UNCHANGED loc
             ELSE /\ todo' = [todo EXCEPT ![t] = Statement(Share,
                                  {ActorRow(a) : a \in LockActorRows(c)})]
                  /\ pc' = [pc EXCEPT ![t] = "lock_actor"]
                  /\ loc' = [loc EXCEPT ![t].departed =
                                 IF Subject(c) \in LockActorRows(c) THEN "Some" ELSE "None"]
          /\ UNCHANGED <<tables, blind, held, result>>
    BY DEF Begin
<1>3. c \in Calls /\ call'[t] = c /\ actor' = actor
    BY <1>1, <1>2, RequestsAssumption DEF Shaped, tables
<1>4. c.op \notin Inviting
    BY <1>3, TenantCalls DEF TenantOperations, Inviting
<1>5. CASE c.op = "leave_service"
    <2>1. pc'[t] = "leave_actor" /\ loc'[t] = loc[t]
        BY <1>1, <1>2, <1>5 DEF Shaped
    <2> QED
        BY <1>1, <1>3, <1>4, <1>5, <2>1
           DEF Holds, TenantHolds, FounderHolds, LeaverHolds, InviterHolds, Leaving, Looping
<1>6. CASE c.op # "leave_service"
    <2>1. /\ pc'[t] = "lock_actor"
          /\ todo'[t] = Statement(Share, {ActorRow(a) : a \in LockActorRows(c)})
        BY <1>1, <1>2, <1>6 DEF Shaped
    <2>2. /\ DOMAIN loc'[t] = DOMAIN NoLocals
          /\ loc'[t].departed = IF Subject(c) \in LockActorRows(c) THEN "Some" ELSE "None"
        BY <1>1, <1>2, <1>6 DEF Shaped, NoLocals
    <2>3. ASSUME c.op = "create_organization", loc'[t].departed # "None"
          PROVE  Claims(t, ActorRow(call[t].by), Share)' /\ actor'[c.by] # "absent"
        <3>1. Subject(c) = c.by /\ c.by \in LockActorRows(c)
            BY <2>2, <2>3 DEF Subject
        <3>2. ActorRow(c.by) \in todo'[t].rows /\ todo'[t].mode = Share
            BY <2>1, <3>1 DEF Statement
        <3>3. actor[c.by] # "absent"
            BY <3>1 DEF LockActorRows, SeesActor
        <3> QED
            BY <1>3, <3>2, <3>3 DEF Claims
    <2> QED
        BY <1>3, <1>4, <1>6, <2>1, <2>2, <2>3
           DEF Holds, TenantHolds, FounderHolds, LeaverHolds, InviterHolds, Leaving, Looping
<1> QED
    BY <1>5, <1>6
\* lock_organization
LEMMA LockOrganizationHolds ==
    ASSUME AuthorityInvariant, NEW t \in Tx, LockOrganization(t)
    PROVE  Holds(t)'
<1>1. Shaped /\ TenantHolds(t)
    BY DEF AuthorityInvariant, PeopleInvariant, Holds
<1>2. CASE Rollback(t, "NotFound")
    BY <1>1, <1>2, OverHolds DEF Rollback, Over
<1>3. CASE /\ loc' = [loc EXCEPT ![t].departed = DepartedNow(t)]
           /\ Start(t, "lock_organization", Update, {OrgRow(call[t].org)})
    <2>1. call[t] \in Calls /\ call[t].op # "leave_service"
        BY <1>1, AtCalls DEF LockOrganization, TenantHolds
    <2>2. Moved(t, "lock_organization")
        BY <1>3, StartMoves
    <2>3. todo'[t] = Statement(Update, {OrgRow(call[t].org)}) /\ call'[t] = call[t]
        BY <1>3, <2>2, StartMoves DEF Moved
    <2>4. Claims(t, OrgRow(call[t].org), Update)'
        BY <2>3 DEF Claims, Statement
    <2> QED
        BY <2>1, <2>2, <2>4, MovedHolds
<1> QED
    BY <1>2, <1>3 DEF LockOrganization

\* create_organization: from the check on, the founder is live and locked.
LEMMA CreateOrganizationHolds ==
    ASSUME AuthorityInvariant, NEW t \in Tx, CreateOrganization(t)
    PROVE  Holds(t)'
<1> DEFINE c == call[t]
<1>1. Shaped /\ FounderHolds(t) /\ DepartedAreNowhere
    BY DEF AuthorityInvariant, PeopleInvariant, Holds
<1>2. At(t, "lock_actor", "create_organization")
    BY DEF CreateOrganization
<1>3. CASE Rollback(t, CreateOrganizationRefusal(t))
    BY <1>1, <1>3, OverHolds DEF Rollback, Over
<1>4. CASE /\ CreateOrganizationRefusal(t) = "none" /\ UNCHANGED loc
           /\ Start(t, "insert", Update, {SlugKey(call[t].name)})
    <2>1. c \in Calls /\ c.op = "create_organization" /\ c.by \in Actors
        BY <1>2, AtCalls, CallFacts DEF At
    <2>2. loc[t].departed # "None" /\ actor[c.by] # "departed"
        BY <1>4, <2>1 DEF CreateOrganizationRefusal, DepartedNow, Subject
    <2>3. Claims(t, ActorRow(c.by), Share) /\ actor[c.by] # "absent" /\ Returned(t)
        BY <1>1, <1>2, <2>2 DEF FounderHolds, At
    <2>4. held[t][ActorRow(c.by)] >= Share
        BY <2>3, ClaimReturned
    <2>5. actor[c.by] = "live"
        BY <1>1, <2>1, <2>2, <2>3 DEF DepartedAreNowhere
    <2>6. Moved(t, "insert")
        BY <1>4, StartMoves
    <2> QED
        BY <2>1, <2>4, <2>5, <2>6, MovedHolds
<1> QED
    BY <1>3, <1>4 DEF CreateOrganization

\* The decision to write a membership is taken with the organization locked.
LEMMA DecideHolds ==
    ASSUME AuthorityInvariant, NEW t \in Tx, pc[t] = "lock_organization", Returned(t),
           call[t].op \in Governing, NEW refusal, NEW unchanged, NEW from,
           Decide(t, refusal, unchanged, from),
           refusal = "none" /\ call[t].op \in {"suspend_member", "reactivate_member"}
               => Target(t).status \in {"active", "suspended"}
    PROVE  Holds(t)'
<1> DEFINE c == call[t]
<1>1. Shaped /\ TenantHolds(t)
    BY DEF AuthorityInvariant, PeopleInvariant, Holds
<1>2. CASE Rollback(t, refusal) \/ End(t, "Ok")
    BY <1>1, <1>2, OverHolds DEF Rollback, Over
<1>3. CASE /\ refusal = "none" /\ loc' = [loc EXCEPT ![t].from = from]
           /\ Start(t, "write", Update, {})
    <2>1. c \in Calls /\ c.op # "leave_service" /\ c.op # "create_organization"
        BY AtCalls DEF Governing
    <2>2. held[t][OrgRow(c.org)] >= Update
        BY <1>1, ClaimReturned DEF TenantHolds
    <2>3. Moved(t, "write")
        BY <1>3, StartMoves
    <2>4. c.op \in {"suspend_member", "reactivate_member"} => Present(c.org, c.who)
        BY <1>3 DEF Target, MemberSeen, NoMember, Present
    <2> QED
        BY <2>1, <2>2, <2>3, <2>4, MovedHolds
<1> QED
    BY <1>2, <1>3 DEF Decide

LEMMA MembershipHolds ==
    ASSUME AuthorityInvariant, NEW t \in Tx, MembershipStep(t)
    PROVE  Holds(t)'
<1>1. Shaped
    BY DEF AuthorityInvariant, PeopleInvariant
<1>2. ASSUME NEW r, Rollback(t, r) \/ End(t, r)
      PROVE  Holds(t)'
    BY <1>1, <1>2, OverHolds DEF Rollback, Over
<1>3. ASSUME NEW role, NEW status, NEW event, WriteMember(t, role, status, event)
      PROVE  Holds(t)'
    BY <1>2, <1>3 DEF WriteMember, Commit
<1>4. CASE InsertOrganization(t)
    BY <1>2, <1>4 DEF InsertOrganization, Commit
<1>5. CASE WriteMemberRole(t) \/ WriteSuspension(t) \/ WriteReactivation(t)
    BY <1>3, <1>5 DEF WriteMemberRole, WriteSuspension, WriteReactivation
<1>6. CASE ChangeMemberRole(t)
    <2>1. call[t].op = "change_member_role" /\ pc[t] = "lock_organization" /\ Returned(t)
        BY <1>6 DEF ChangeMemberRole, At
    <2> QED
        BY <1>6, <2>1, DecideHolds DEF ChangeMemberRole, Governing
<1>7. CASE SuspendMember(t)
    <2>1. call[t].op = "suspend_member" /\ pc[t] = "lock_organization" /\ Returned(t)
        BY <1>7 DEF SuspendMember, At
    <2>2. SuspendMemberRefusal(t) = "none" => Target(t).status = "active"
        BY DEF SuspendMemberRefusal
    <2> QED
        BY <1>7, <2>1, <2>2, DecideHolds DEF SuspendMember, Governing
<1>8. CASE ReactivateMember(t)
    <2>1. call[t].op = "reactivate_member" /\ pc[t] = "lock_organization" /\ Returned(t)
        BY <1>8 DEF ReactivateMember, At
    <2>2. ReactivateMemberRefusal(t) = "none" => Target(t).status = "suspended"
        BY DEF ReactivateMemberRefusal
    <2> QED
        BY <1>8, <2>1, <2>2, DecideHolds DEF ReactivateMember, Governing
<1> QED
    BY <1>4, <1>5, <1>6, <1>7, <1>8, CreateOrganizationHolds DEF MembershipStep

\* leave_service goes on with its organizations.
LEMMA LoopHolds ==
    ASSUME AuthorityInvariant, NEW t \in Tx, call[t].op = "leave_service", Leaving(t),
           NEW p \in {"leave_next", "leave_audit"}, Moved(t, p),
           \A o \in Orgs : Present(o, call[t].by) =>
               /\ o \in loc'[t].memberships /\ o \in loc'[t].current
               /\ o \in loc'[t].rest \/ Claims(t, OrgRow(o), KeyShare)'
    PROVE  Holds(t)'
<1>1. LeaverHolds(t) /\ call[t] \in Calls
    BY AtCalls DEF AuthorityInvariant, Holds, Leaving
<1>2. pc'[t] = p /\ call'[t] = call[t] /\ held'[t] = held[t] /\ UNCHANGED <<actor, member>>
    BY DEF Moved
<1>3. TenantHolds(t)' /\ FounderHolds(t)' /\ InviterHolds(t)'
    BY <1>1, <1>2 DEF TenantHolds, FounderHolds, InviterHolds, Moved, Inviting
<1>4. LeaverHolds(t)'
    BY <1>1, <1>2 DEF LeaverHolds, Looping, Leaving, Present
<1> QED
    BY <1>3, <1>4 DEF Holds

\* Between two statements of the loop a claim is a lock.
LEMMA LoopClaims ==
    ASSUME AuthorityInvariant, NEW t \in Tx, Looping(t), Returned(t),
           NEW o \in Orgs, Present(o, call[t].by), UNCHANGED held
    PROVE  /\ o \in loc[t].memberships /\ o \in loc[t].current
           /\ o \in loc[t].rest \/ Claims(t, OrgRow(o), KeyShare)'
<1>1. LeaverHolds(t)
    BY DEF AuthorityInvariant, Holds
<1>2. /\ o \in loc[t].memberships /\ o \in loc[t].current
      /\ o \in loc[t].rest \/ held[t][OrgRow(o)] >= KeyShare
    BY <1>1, ClaimReturned DEF LeaverHolds
<1> QED
    BY <1>2 DEF Claims
LEMMA LeavingHolds ==
    ASSUME AuthorityInvariant, NEW t \in Tx, LeavingStep(t)
    PROVE  Holds(t)'
<1> DEFINE by == call[t].by
<1>1. Shaped
    BY DEF AuthorityInvariant, PeopleInvariant
<1>2. ASSUME NEW r, Rollback(t, r) \/ End(t, r)
      PROVE  Holds(t)'
    BY <1>1, <1>2, OverHolds DEF Rollback, Over
<1>3. DOMAIN loc[t] = DOMAIN NoLocals /\ t \in DOMAIN loc
    BY <1>1 DEF AuthorityInvariant, Holds, TenantHolds, Shaped
<1>4. CASE LeaveActor(t)
    <2> DEFINE active == fukulow_active_organizations(by)
               rows == {OrgRow(o) : o \in active}
    <2>1. pc[t] = "leave_actor" /\ call[t].op = "leave_service"
        BY <1>4 DEF LeaveActor, At
    <2>2. call[t] \in Calls /\ by \in Actors
        BY <2>1, AtCalls, CallFacts
    <2>3. CASE /\ ~(held[t][ActorRow(by)] < Update \/ actor[by] # "live")
               /\ loc' = [loc EXCEPT ![t].orgs = active]
               /\ Start(t, "leave_orgs", Update, rows)
        <3> HIDE DEF active, rows
        <3>1. Moved(t, "leave_orgs")
            BY <2>3, StartMoves
        <3>2. pc'[t] = "leave_orgs" /\ call'[t] = call[t] /\ held'[t] = held[t] /\ UNCHANGED actor
            BY <3>1 DEF Moved
        <3>3. held[t][ActorRow(by)] \in 0 .. 4
            BY <1>1, <2>2, RowFacts DEF Shaped, Update
        <3>4. held[t][ActorRow(by)] >= Update /\ actor[by] = "live"
            BY <2>3, <3>3 DEF Update
        <3> QED
            BY <2>1, <2>2, <3>1, <3>2, <3>4
               DEF Holds, TenantHolds, FounderHolds, LeaverHolds, InviterHolds, Leaving,
                   Looping, Moved, Inviting
    <2> QED
        BY <1>2, <1>4, <2>3 DEF LeaveActor, Leaver
<1>5. CASE LeaveChecks(t)
    <2> DEFINE rows == {o \in Orgs : member[o][by] # NoMember}
               now == {o \in rows : member[o][by].status # "left"}
               lists == {o \in Orgs : \E ch \in Channels :
                            channel[ch].org = o /\ by \in channelMember[ch]}
    <2>1. Leaving(t) /\ call[t].op = "leave_service"
        BY <1>5 DEF LeaveChecks, At, Leaving
    <2>2. CASE /\ loc' = [loc EXCEPT ![t].memberships = rows, ![t].rest = rows,
                                     ![t].current = now, ![t].listed = lists]
               /\ Start(t, "leave_next", Update, {})
        <3>1. \A o \in Orgs : Present(o, by) => o \in rows /\ o \in now
            BY DEF Present, NoMember
        <3> HIDE DEF rows, now, lists
        <3>2. Moved(t, "leave_next")
            BY <2>2, StartMoves
        <3>3. /\ loc'[t].memberships = rows /\ loc'[t].rest = rows /\ loc'[t].current = now
            BY <1>3, <2>2 DEF NoLocals
        <3> QED
            BY <2>1, <3>1, <3>2, <3>3, LoopHolds
    <2> QED
        BY <1>2, <1>5, <2>2 DEF LeaveChecks, Leaver
<1>6. CASE LeaveTeams(t)
    <2>1. PICK o \in loc[t].rest :
              LET rows == {tm \in Teams : team[tm] = o /\ teamMember[tm][by] # "none"}
              IN /\ At(t, "leave_next", "leave_service")
                 /\ loc' = [loc EXCEPT ![t].removing = rows]
                 /\ Start(t, "leave_audit", Update, {TeamMemberRow(tm, by) : tm \in rows})
        BY <1>6 DEF LeaveTeams, Leaver
    <2> DEFINE rows == {tm \in Teams : team[tm] = o /\ teamMember[tm][by] # "none"}
               locked == {TeamMemberRow(tm, by) : tm \in rows}
    <2>2. /\ At(t, "leave_next", "leave_service") /\ loc' = [loc EXCEPT ![t].removing = rows]
          /\ Start(t, "leave_audit", Update, locked)
        BY <2>1
    <2> HIDE DEF rows, locked
    <2>3. Moved(t, "leave_audit")
        BY <2>2, StartMoves
    <2>4. /\ loc'[t].memberships = loc[t].memberships /\ loc'[t].rest = loc[t].rest
          /\ loc'[t].current = loc[t].current
        BY <1>3, <2>2 DEF NoLocals
    <2>5. /\ Leaving(t) /\ Looping(t) /\ Returned(t) /\ call[t].op = "leave_service"
          /\ UNCHANGED held
        BY <2>2, <2>3 DEF At, Leaving, Looping, Moved
    <2> QED
        BY <2>3, <2>4, <2>5, LoopHolds, LoopClaims
<1>7. CASE LeaveAudit(t)
    <2>1. PICK o \in loc[t].rest :
              LET removed == {tm \in loc[t].removing : teamMember[tm][by] # "none"}
                  events == LeaveAudits(t, o, removed)
              IN /\ At(t, "leave_audit", "leave_service")
                 /\ \/ Rollback(t, "Database")
                    \/ /\ loc' = [loc EXCEPT ![t].rest = @ \ {o}, ![t].removing = {},
                                             ![t].removed = @ \cup removed]
                       /\ Start(t, "leave_next", KeyShare, {OrgRow(e.org) : e \in events})
        BY <1>7 DEF LeaveAudit, Leaver
    <2> DEFINE removed == {tm \in loc[t].removing : teamMember[tm][by] # "none"}
               events == LeaveAudits(t, o, removed)
               locked == {OrgRow(e.org) : e \in events}
               rest == loc[t].rest \ {o}
               gone == loc[t].removed \cup removed
    <2>2. At(t, "leave_audit", "leave_service")
        BY <2>1
    <2>3. CASE /\ loc' = [loc EXCEPT ![t].rest = @ \ {o}, ![t].removing = {},
                                     ![t].removed = @ \cup removed]
               /\ Start(t, "leave_next", KeyShare, locked)
        <3>1. o \in loc[t].current => OrgRow(o) \in locked
            <4>1. o \in loc[t].current => member_left(o, by) \in events
                BY DEF LeaveAudits, Leaver
            <4>2. member_left(o, by).org = o
                BY DEF member_left, NoEvent
            <4> QED
                BY <4>1, <4>2
        <3>2. loc' = [loc EXCEPT ![t].rest = rest, ![t].removing = {}, ![t].removed = gone]
            BY <2>3
        <3> HIDE DEF locked, rest, gone
        <3>3. Moved(t, "leave_next") /\ todo'[t] = Statement(KeyShare, locked)
            <4>1. Start(t, "leave_next", KeyShare, locked)
                BY <2>3
            <4>2. DOMAIN loc'[t] = DOMAIN NoLocals
                BY <1>3, <3>2
            <4> QED
                BY <1>1, <4>1, <4>2 DEF Moved, Start, Shaped, tables
        <3>4. /\ loc'[t].memberships = loc[t].memberships /\ loc'[t].rest = rest
              /\ loc'[t].current = loc[t].current
            BY <1>3, <3>2 DEF NoLocals
        <3>5. /\ Leaving(t) /\ Looping(t) /\ Returned(t) /\ call[t].op = "leave_service"
              /\ UNCHANGED held
            BY <2>2, <3>3 DEF At, Leaving, Looping, Moved
        <3>6. o \in loc[t].current => Claims(t, OrgRow(o), KeyShare)'
            BY <3>1, <3>3 DEF Claims, Statement
        <3>7. ASSUME NEW q \in Orgs, Present(q, by)
              PROVE  /\ q \in loc'[t].memberships /\ q \in loc'[t].current
                     /\ q \in loc'[t].rest \/ Claims(t, OrgRow(q), KeyShare)'
            <4>1. /\ q \in loc[t].memberships /\ q \in loc[t].current
                  /\ q \in loc[t].rest \/ Claims(t, OrgRow(q), KeyShare)'
                BY <3>5, <3>7, LoopClaims
            <4>2. CASE q = o
                BY <3>4, <3>6, <4>1, <4>2
            <4>3. CASE q # o
                BY <3>4, <4>1, <4>3 DEF rest
            <4> QED
                BY <4>2, <4>3
        <3> QED
            BY <3>3, <3>5, <3>7, LoopHolds
    <2> QED
        BY <1>2, <2>1, <2>3
<1>8. CASE LeaveChannels(t)
    <2>1. PICK o \in loc[t].listed :
              LET listings == ListedIn(t, o)
                  events == {channel_member_left(o, by, ch) : ch \in listings}
              IN /\ At(t, "leave_next", "leave_service")
                 /\ \/ Rollback(t, "Database")
                    \/ /\ loc' = [loc EXCEPT ![t].listed = @ \ {o}, ![t].unlisted = @ \cup listings]
                       /\ Start(t, "leave_next", KeyShare, {OrgRow(e.org) : e \in events})
        BY <1>8 DEF LeaveChannels, Leaver
    <2> DEFINE listings == ListedIn(t, o)
               events == {channel_member_left(o, by, ch) : ch \in listings}
               locked == {OrgRow(e.org) : e \in events}
               listed == loc[t].listed \ {o}
               gone == loc[t].unlisted \cup listings
    <2>2. At(t, "leave_next", "leave_service")
        BY <2>1
    <2>3. CASE /\ loc' = [loc EXCEPT ![t].listed = @ \ {o}, ![t].unlisted = @ \cup listings]
               /\ Start(t, "leave_next", KeyShare, locked)
        <3>1. loc' = [loc EXCEPT ![t].listed = listed, ![t].unlisted = gone]
            BY <2>3
        <3> HIDE DEF locked, listed, gone
        <3>2. Moved(t, "leave_next")
            BY <2>3, <3>1, StartMoves
        <3>3. /\ loc'[t].memberships = loc[t].memberships /\ loc'[t].rest = loc[t].rest
              /\ loc'[t].current = loc[t].current
            BY <1>3, <3>1 DEF NoLocals
        <3>4. /\ Leaving(t) /\ Looping(t) /\ Returned(t) /\ call[t].op = "leave_service"
              /\ UNCHANGED held
            BY <2>2, <3>2 DEF At, Leaving, Looping, Moved
        <3> QED
            BY <3>2, <3>3, <3>4, LoopHolds, LoopClaims
    <2> QED
        BY <1>2, <2>1, <2>3
<1>9. CASE LeaveCommit(t)
    BY <1>2, <1>9 DEF LeaveCommit, Commit
<1> QED
    BY <1>4, <1>5, <1>6, <1>7, <1>8, <1>9 DEF LeavingStep

LEMMA TenantHold ==
    ASSUME AuthorityInvariant, NEW t \in Tx, Begin(t) \/ Step(t) \/ Cancel(t)
    PROVE  Holds(t)'
<1>1. Shaped
    BY DEF AuthorityInvariant, PeopleInvariant
<1>2. CASE Cancel(t) \/ DeadlockAbort(t)
    BY <1>1, <1>2, OverHolds DEF Cancel, DeadlockAbort, Rollback, Over
<1> QED
    BY <1>2, BeginHolds, LockOrganizationHolds, TakeLockHolds, MembershipHolds, LeavingHolds,
       TeamsHold DEF Step
----------------------------------------------------------------------------
(* The steps of invites.rs and of handlers.                                *)

\* At the points of invites, handlers and sessions tenants hold nothing.
LEMMA PeoplePointHolds ==
    ASSUME NEW t \in Tx, pc'[t] \in PeoplePoints, DOMAIN loc'[t] = DOMAIN NoLocals,
           InviterHolds(t)'
    PROVE  Holds(t)'
BY DEF Holds, TenantHolds, FounderHolds, LeaverHolds, Leaving, Looping, PeoplePoints, Points

\* authorize says Allowed only to one who is capable.
LEMMA AllowedIsCapable ==
    ASSUME AuthorityInvariant, NEW t \in Tx, call[t].op \in Inviting,
           pc[t] = "invite_organization", authorize(t) # "NotAMember"
    PROVE  LET c == call[t]
           IN /\ c.org \in Orgs /\ c.by \in Actors
              /\ actor[c.by] = "live" /\ member[c.org][c.by].status = "active"
              /\ authorize(t) = "Allowed" => Capable(c.org, c.by)
<1> DEFINE c == call[t]
<1>1. c.op \in PeopleOperations
    BY DEF Inviting, PeopleOperations, InviteOperations
<1>2. c.org \in Orgs
    BY <1>1 DEF AuthorityInvariant, PeopleInvariant, PeopleCourse
<1>3. c.by \in Actors /\ actor[c.by] # "absent"
    BY DEF AuthorityInvariant, Holds, InviterHolds
<1>4. member[c.org][c.by].status = "active"
    BY DEF authorize, MemberSeen, SeesMember
<1>5. actor[c.by] = "live"
    BY <1>2, <1>3, <1>4 DEF AuthorityInvariant, DepartedAreNowhere, Present
<1>6. authorize(t) = "Allowed" => holds(member[c.org][c.by].role)
    BY DEF authorize, MemberSeen, SeesMember
<1> QED
    BY <1>2, <1>3, <1>4, <1>5, <1>6 DEF Capable

LEMMA InvitesHold ==
    ASSUME AuthorityInvariant, NEW t \in Tx, InvitesStep(t)
    PROVE  Holds(t)'
<1> DEFINE c == call[t]
<1>1. Shaped /\ InviterHolds(t) /\ DOMAIN loc[t] = DOMAIN NoLocals
    BY DEF AuthorityInvariant, PeopleInvariant, Holds, TenantHolds
<1>2. ASSUME NEW r, Answer(t, r) \/ Rollback(t, r) \/ End(t, r)
      PROVE  Holds(t)'
    BY <1>1, <1>2, OverHolds DEF Answer, Rollback, Over
<1>3. ASSUME NEW p, NEW m, NEW rows, GoOn(t, p, m, rows)
      PROVE  /\ pc'[t] = p /\ DOMAIN loc'[t] = DOMAIN NoLocals /\ call'[t] = call[t]
             /\ held'[t] = held[t] /\ todo'[t] = Statement(m, rows)
             /\ UNCHANGED <<actor, member>>
    BY <1>1, <1>3 DEF GoOn, Start, Shaped, tables
<1>4. ASSUME NEW p \in PeoplePoints \ {"invite_actor"}, NEW m, NEW rows,
             GoOn(t, p, m, rows), c.op \notin Inviting
      PROVE  Holds(t)'
    <2>1. pc'[t] = p /\ DOMAIN loc'[t] = DOMAIN NoLocals /\ call'[t] = call[t]
        BY <1>3, <1>4
    <2> QED
        BY <1>4, <2>1, PeoplePointHolds DEF InviterHolds
<1>5. CASE LockInviter(t)
    <2> DEFINE rows == {ActorRow(a) : a \in {b \in {c.by} : SeesActor(b, b)}}
    <2>1. pc[t] = "begin" /\ c.op \in Inviting /\ GoOn(t, "invite_actor", Share, rows)
        BY <1>5 DEF LockInviter
    <2>2. c.by \in Actors /\ actor[c.by] # "absent"
        BY <1>1, <2>1 DEF InviterHolds
    <2>3. ActorRow(c.by) \in rows
        BY <2>2 DEF SeesActor
    <2> HIDE DEF rows
    <2>4. /\ pc'[t] = "invite_actor" /\ DOMAIN loc'[t] = DOMAIN NoLocals /\ call'[t] = call[t]
          /\ todo'[t] = Statement(Share, rows) /\ UNCHANGED actor
        BY <1>3, <2>1
    <2>5. InviterHolds(t)'
        BY <2>1, <2>2, <2>3, <2>4 DEF InviterHolds, Claims, Statement
    <2> QED
        BY <2>4, <2>5, PeoplePointHolds DEF PeoplePoints
<1>6. CASE LockInviteOrganization(t)
    <2>1. CASE GoOn(t, "invite_organization", Share, {OrgRow(c.org)})
        <3>1. /\ pc'[t] = "invite_organization" /\ DOMAIN loc'[t] = DOMAIN NoLocals
              /\ call'[t] = call[t] /\ held'[t] = held[t] /\ UNCHANGED actor
              /\ todo'[t] = Statement(Share, {OrgRow(c.org)})
            BY <1>3, <2>1
        <3>2. pc[t] = "invite_actor" /\ Returned(t)
            BY <1>6 DEF LockInviteOrganization
        <3>3. c.op \in Inviting => /\ c.by \in Actors /\ actor[c.by] # "absent"
                                   /\ held[t][ActorRow(c.by)] >= Share
            BY <1>1, <3>2, ClaimReturned DEF InviterHolds
        <3>4. InviterHolds(t)'
            BY <3>1, <3>3 DEF InviterHolds, Claims, Statement
        <3> QED
            BY <3>1, <3>4, PeoplePointHolds DEF PeoplePoints
    <2> QED
        BY <1>2, <1>6, <2>1 DEF LockInviteOrganization
<1>7. ASSUME pc[t] = "invite_organization", Returned(t), c.op \in Inviting,
             authorize(t) = "Allowed", NEW p \in {"invite_insert", "invite_revoke"},
             NEW rows, GoOn(t, p, Update, rows)
      PROVE  Holds(t)'
    <2>1. /\ pc'[t] = p /\ DOMAIN loc'[t] = DOMAIN NoLocals
          /\ call'[t] = call[t] /\ held'[t] = held[t] /\ UNCHANGED <<actor, member>>
        BY <1>3, <1>7
    <2>2. Capable(c.org, c.by)
        BY <1>7, AllowedIsCapable
    <2>3. /\ c.by \in Actors /\ actor[c.by] # "absent" /\ held[t][ActorRow(c.by)] >= Share
          /\ held[t][OrgRow(c.org)] >= Share
        BY <1>1, <1>7, ClaimReturned DEF InviterHolds
    <2>4. InviterHolds(t)'
        BY <2>1, <2>2, <2>3 DEF InviterHolds, Capable
    <2> QED
        BY <1>7, <2>1, <2>4, PeoplePointHolds DEF PeoplePoints
<1>8. CASE CreateInvite(t)
    BY <1>2, <1>7, <1>8 DEF CreateInvite, At, Inviting
<1>9. CASE RevokeInvite(t)
    BY <1>2, <1>7, <1>9 DEF RevokeInvite, At, Inviting
<1>10. CASE InsertInvite(t) \/ WriteRevocation(t) \/ InviteIsUsable(t)
    BY <1>2, <1>10 DEF InsertInvite, WriteRevocation, InviteIsUsable
<1>11. CASE AcceptInvite(t)
    BY <1>2, <1>4, <1>11 DEF AcceptInvite, At, Inviting, PeoplePoints
<1>12. CASE AcceptPerson(t)
    BY <1>2, <1>4, <1>12 DEF AcceptPerson, At, Inviting, PeoplePoints
<1>13. CASE AcceptMember(t)
    BY <1>2, <1>4, <1>13 DEF AcceptMember, At, Inviting, PeoplePoints
<1>14. CASE CommitAcceptance(t)
    BY <1>2, <1>14 DEF CommitAcceptance, AdmitAs, Commit
<1> QED
    BY <1>5, <1>6, <1>8, <1>9, <1>10, <1>11, <1>12, <1>13, <1>14 DEF InvitesStep

\* Whom a handler or a caller brings is an actor there is.
Introduced(t) ==
    /\ DOMAIN loc'[t] = DOMAIN NoLocals
    /\ call'[t].op \in Inviting /\ pc'[t] \notin {"web_session", "done"} =>
           call'[t].by \in Actors /\ actor'[call'[t].by] # "absent"

LEMMA IntroducedHolds ==
    ASSUME NEW t \in Tx, Asks(t) \/ Aside(t), Introduced(t)
    PROVE  Holds(t)'
<1>1. /\ pc'[t] \in PeoplePoints
      /\ pc'[t] \notin {"invite_actor", "invite_organization", "invite_insert", "invite_revoke"}
    BY DEF Asks, Aside, PeoplePoints
<1>2. InviterHolds(t)'
    BY <1>1 DEF Introduced, InviterHolds
<1> QED
    BY <1>1, <1>2, PeoplePointHolds DEF Introduced

LEMMA NowhereStep ==
    ASSUME AuthorityInvariant, NEW t \in Tx, PeopleStep(t)
    PROVE  DepartedAreNowhere'
<1> SUFFICES ASSUME NEW a \in Actors
             PROVE  /\ actor'[a] \in {"absent", "live", "departed"}
                    /\ actor'[a] = "departed" => \A o \in Orgs : ~Present(o, a)'
    BY DEF DepartedAreNowhere
<1>1. DepartedAreNowhere /\ FounderHolds(t)
    BY DEF AuthorityInvariant, Holds
<1>2. actor'[a] \in {"absent", "live", "departed"}
    BY <1>1, ActorAfter DEF DepartedAreNowhere
<1>3. ASSUME actor'[a] = "departed", NEW o \in Orgs, Present(o, a)'
      PROVE  FALSE
    <2>1. ~(LeaveCommit(t) /\ a = call[t].by)
        BY <1>3, LeaveEnds
    <2>2. ~(Founds(t) /\ a = call[t].by /\ actor'[a] = actor[a])
        BY <1>1, <1>3 DEF Founds, FounderHolds
    <2> QED
        BY <1>1, <1>3, <2>1, <2>2, RowsAfter DEF DepartedAreNowhere, Present
<1> QED
    BY <1>2, <1>3

\* The invariant is inductive, whoever is called in by whom.
LEMMA AuthorityInductive ==
    ASSUME AuthorityInvariant, NEW t \in Tx, PeopleStep(t),
           Asks(t) \/ Aside(t) => Introduced(t)
    PROVE  AuthorityInvariant'
<1>1. PeopleInvariant'
    BY PeopleInductive DEF AuthorityInvariant
<1>2. DepartedAreNowhere'
    BY NowhereStep
<1>3. Holds(t)'
    BY TenantHold, InvitesHold, IntroducedHolds DEF PeopleStep
<1>4. \A u \in Tx : Holds(u)'
    BY <1>3, OthersHold
<1> QED
    BY <1>1, <1>2, <1>4 DEF AuthorityInvariant
\* What the rest of a state is does not matter.
LEMMA AuthorityKept ==
    ASSUME AuthorityInvariant, PeopleInvariant',
           UNCHANGED <<actor, member, pc, call, loc, held, todo>>
    PROVE  AuthorityInvariant'
<1>1. DepartedAreNowhere'
    BY DEF AuthorityInvariant, DepartedAreNowhere, Present
<1>2. ASSUME NEW u \in Tx
      PROVE  Holds(u)'
    <2>1. Holds(u)
        BY DEF AuthorityInvariant
    <2>2. \A r, m : Claims(u, r, m)' <=> Claims(u, r, m)
        BY DEF Claims
    <2>3. TenantHolds(u)' /\ FounderHolds(u)'
        BY <2>1, <2>2 DEF Holds, TenantHolds, FounderHolds, Present
    <2>4. LeaverHolds(u)' /\ InviterHolds(u)'
        BY <2>1, <2>2 DEF Holds, LeaverHolds, InviterHolds, Leaving, Looping, Present, Capable
    <2> QED
        BY <2>3, <2>4 DEF Holds
<1> QED
    BY <1>1, <1>2 DEF AuthorityInvariant

\* A run starts with nobody at work, and with no membership of one who left.
LEMMA AuthorityInit ==
    ASSUME InvitesInit
    PROVE  AuthorityInvariant
<1>1. PeopleInvariant
    BY PeopleInit
<1>2. PICK db \in Initial : actor = db.actor /\ member = db.member
    BY DEF InvitesInit, StoreInit
<1>3. db \in Databases /\ Sound(db)
    BY InitialAssumption
<1>4. DepartedAreNowhere
    <2> SUFFICES ASSUME NEW a \in Actors
                 PROVE  /\ actor[a] \in {"absent", "live", "departed"}
                        /\ actor[a] = "departed" => \A o \in Orgs : ~Present(o, a)
        BY DEF DepartedAreNowhere
    <2>1. actor[a] \in {"absent", "live", "departed"}
        BY <1>2, <1>3 DEF Databases
    <2>2. ASSUME actor[a] = "departed", NEW o \in Orgs
          PROVE  ~Present(o, a)
        <3>1. member[o][a] # NoMember => member[o][a].status = "left"
            BY <1>2, <1>3, <2>2 DEF Sound
        <3> QED
            BY <3>1 DEF Present, NoMember
    <2> QED
        BY <2>1, <2>2
<1>5. ASSUME NEW u \in Tx
      PROVE  Holds(u)
    <2>1. pc[u] = "idle" /\ call[u].op = "none" /\ loc[u] = NoLocals
        BY DEF InvitesInit, StoreInit, NoCall
    <2> QED
        BY <2>1 DEF Holds, TenantHolds, FounderHolds, LeaverHolds, InviterHolds, Leaving,
                    Looping, Inviting, Governing
<1> QED
    BY <1>1, <1>4, <1>5 DEF AuthorityInvariant

\* Context::Actor: the calls of invites.rs are made by actors there are.
LEMMA CallIntroduces ==
    ASSUME AuthorityInvariant, NEW t \in Tx, CallInvites(t)
    PROVE  Introduced(t)
<1>1. PICK c \in InviteCalls :
          /\ KnownActor(c) /\ call' = [call EXCEPT ![t] = c]
          /\ UNCHANGED <<tables, blind, locks, loc, result, ivars>>
    BY DEF CallInvites
<1>2. Shaped /\ DOMAIN loc[t] = DOMAIN NoLocals
    BY DEF AuthorityInvariant, PeopleInvariant, Holds, TenantHolds
<1>3. call'[t] = c /\ UNCHANGED <<actor, loc>>
    BY <1>1, <1>2 DEF Shaped, tables
<1> QED
    BY <1>1, <1>2, <1>3 DEF Introduced, KnownActor

\* The steps of the tenant, of invites and of time.
LEMMA AuthorityStep ==
    ASSUME AuthorityInvariant, InvitesNext
    PROVE  AuthorityInvariant'
<1>1. PeopleInvariant /\ Shaped
    BY DEF AuthorityInvariant, PeopleInvariant
<1>2. ASSUME NEW i \in InviteIds, Expire(i)
      PROVE  AuthorityInvariant'
    <2>1. PeopleInvariant'
        BY <1>1, <1>2, ExpireInductive
    <2>2. UNCHANGED <<actor, member, pc, call, loc, held, todo>>
        BY <1>2 DEF Expire, vars, tables, locks
    <2> QED
        BY <2>1, <2>2, AuthorityKept
<1>3. ASSUME NEW t \in Tx, CallInvites(t)
      PROVE  AuthorityInvariant'
    <2>1. PeopleStep(t)
        BY <1>1, <1>3, CallAsks DEF PeopleStep
    <2> QED
        BY <1>3, <2>1, CallIntroduces, AuthorityInductive
<1>4. ASSUME NEW t \in Tx,
             ((Begin(t) \/ Step(t) \/ Cancel(t)) /\ KeepInvites) \/ InvitesStep(t)
      PROVE  AuthorityInvariant'
    <2>1. PeopleStep(t)
        BY <1>4 DEF PeopleStep
    <2>2. Holds(t)'
        BY <1>4, TenantHold, InvitesHold
    <2>3. PeopleInvariant' /\ DepartedAreNowhere' /\ \A u \in Tx \ {t} : Holds(u)'
        <3>1. PeopleInvariant'
            BY <1>1, <2>1, PeopleInductive
        <3>2. DepartedAreNowhere'
            BY <2>1, NowhereStep
        <3>3. \A u \in Tx \ {t} : Holds(u)'
            BY <2>1, OthersHold
        <3> QED
            BY <3>1, <3>2, <3>3
    <2> QED
        BY <2>2, <2>3 DEF AuthorityInvariant
<1> QED
    BY <1>2, <1>3, <1>4 DEF InvitesNext, Next

\* AuthorityInvariant holds however demotions, suspensions, departures, invitations and
\* acceptances interleave: what an operation has checked stays so until it commits.
THEOREM AuthorityKeptByAll == InvitesSpec => []AuthorityInvariant
<1>1. InvitesInit => AuthorityInvariant
    BY AuthorityInit
<1>2. AuthorityInvariant /\ [InvitesNext]_inviteVars => AuthorityInvariant'
    <2> SUFFICES ASSUME AuthorityInvariant, UNCHANGED inviteVars PROVE AuthorityInvariant'
        BY AuthorityStep
    <2>1. PeopleInvariant'
        BY PeopleStutter DEF AuthorityInvariant
    <2>2. UNCHANGED <<actor, member, pc, call, loc, held, todo>>
        BY DEF inviteVars, vars, tables, locks
    <2> QED
        BY <2>1, <2>2, AuthorityKept
<1> QED
    BY <1>1, <1>2, PTL DEF InvitesSpec
----------------------------------------------------------------------------
(* What callers are told.                                                  *)

InCircle(t) == \E S \in SUBSET Tx : t \in S /\ Circle(S)

\* To invites, handlers and sessions a tenant step is a lock, a cancellation or a circle.
LEMMA TenantTells ==
    ASSUME PeopleInvariant, NEW t \in Tx, Begin(t) \/ Step(t) \/ Cancel(t),
           call[t].op \in PeopleOperations
    PROVE  /\ UNCHANGED <<call, actor, users>>
           /\ \/ result'[t] = result[t]
              \/ pc[t] # "done" /\ result'[t] = "Cancelled"
              \/ pc[t] # "done" /\ result'[t] = "Database" /\ InCircle(t)
<1>1. Stands(t) /\ Shaped
    BY StandsNow DEF PeopleInvariant
<1>2. pc[t] \in PeoplePoints
    BY <1>1 DEF Stands, CourseStands
<1>3. pc[t] # "lock_actor" /\ pc[t] # "idle" /\ call[t].op \notin TenantOperations
    BY <1>2, PeopleAreOthers DEF PeoplePoints
<1>4. TakeLock(t) \/ DeadlockAbort(t) \/ Cancel(t)
    BY <1>3, TenantMeets DEF Begin
<1>5. ASSUME NEW r, Rollback(t, r)
      PROVE  result'[t] = r /\ UNCHANGED <<call, actor, users>>
    BY <1>1, <1>5 DEF Rollback, End, Shaped, tables
<1> QED
    BY <1>4, <1>5 DEF TakeLock, DeadlockAbort, Cancel, InCircle, tables

\* Making and revoking an invite: what authorize decides, or what its Allowed permits.
InviterTold(t) ==
    LET c == call[t]
        r == result'[t]
        known == c.by \in Actors /\ actor[c.by] = "live"
    IN /\ c.op \in Inviting
       /\ \/ r = "NotAMember" \/ (r = "Forbidden" /\ known)
          \/ c.op = "create_invite" /\ r = "TokenUnavailable" /\ known /\ Capable(c.org, c.by)
          \/ c.op = "revoke_invite" /\ r = "NotFound" /\ known /\ Capable(c.org, c.by)
          \/ r = "Ok" /\ known /\ Capable(c.org, c.by)

\* Accepting one.
AcceptorTold(t) ==
    LET c == call[t]
        r == result'[t]
    IN \/ Accepting(t) /\ (r \in {"InviteUnusable", "Ok"} \/ (r = "EmailTaken" /\ Unspent(c.invite)))
       \/ c.op = "invite_is_usable" /\ r \in {"Usable", "InviteUnusable"}

LEMMA InvitesTell ==
    ASSUME AuthorityInvariant, NEW t \in Tx, InvitesStep(t)
    PROVE  /\ UNCHANGED call
           /\ result'[t] = result[t] \/ InviterTold(t) \/ AcceptorTold(t)
<1> DEFINE c == call[t]
<1>1. Shaped /\ InviterHolds(t) /\ PeopleInvariant
    BY DEF AuthorityInvariant, PeopleInvariant, Holds
<1>2. ASSUME NEW r, Answer(t, r) \/ Rollback(t, r) \/ End(t, r)
      PROVE  result'[t] = r /\ UNCHANGED call
    BY <1>1, <1>2 DEF Answer, Rollback, End, Shaped
<1>3. ASSUME NEW p, NEW m, NEW rows, GoOn(t, p, m, rows)
      PROVE  result'[t] = result[t] /\ UNCHANGED call
    BY <1>3 DEF GoOn, Start
<1>4. CASE LockInviter(t)
    <2> DEFINE rows == {ActorRow(a) : a \in {b \in {c.by} : SeesActor(b, b)}}
    <2>1. GoOn(t, "invite_actor", Share, rows)
        BY <1>4 DEF LockInviter
    <2> HIDE DEF rows
    <2> QED
        BY <1>3, <2>1
<1>5. CASE LockInviteOrganization(t)
    <2>1. c.op \in Inviting
        BY <1>1, <1>5 DEF LockInviteOrganization, InviterHolds
    <2> QED
        BY <1>2, <1>3, <1>5, <2>1 DEF LockInviteOrganization, InviterTold
<1>6. ASSUME pc[t] = "invite_organization", c.op \in Inviting
      PROVE  /\ authorize(t) \in {"NotAMember", "Forbidden", "Allowed"}
             /\ authorize(t) # "NotAMember" => c.by \in Actors /\ actor[c.by] = "live"
             /\ authorize(t) = "Allowed" => Capable(c.org, c.by)
    <2>1. authorize(t) \in {"NotAMember", "Forbidden", "Allowed"}
        BY DEF authorize
    <2>2. authorize(t) # "NotAMember" =>
              /\ c.by \in Actors /\ actor[c.by] = "live"
              /\ authorize(t) = "Allowed" => Capable(c.org, c.by)
        BY <1>6, AllowedIsCapable
    <2> QED
        BY <2>1, <2>2
<1>7. CASE CreateInvite(t)
    BY <1>2, <1>3, <1>6, <1>7 DEF CreateInvite, At, Inviting, InviterTold
<1>8. CASE RevokeInvite(t)
    BY <1>2, <1>3, <1>6, <1>8 DEF RevokeInvite, At, Inviting, InviterTold
<1>9. CASE InsertInvite(t) \/ WriteRevocation(t)
    <2>1. c.op \in Inviting /\ pc[t] \in {"invite_insert", "invite_revoke"}
        BY <1>9 DEF InsertInvite, WriteRevocation, At, Inviting
    <2>2. c.by \in Actors /\ actor[c.by] = "live" /\ Capable(c.org, c.by)
        BY <1>1, <2>1 DEF InviterHolds, Capable
    <2> QED
        BY <1>2, <1>9, <2>1, <2>2 DEF InsertInvite, WriteRevocation, InviterTold
<1>10. CASE InviteIsUsable(t)
    BY <1>2, <1>10 DEF InviteIsUsable, At, AcceptorTold
<1>11. CASE AcceptInvite(t) \/ AcceptPerson(t)
    BY <1>2, <1>3, <1>11 DEF AcceptInvite, AcceptPerson, At, AcceptorTold, Accepting
<1>12. CASE AcceptMember(t)
    <2>1. Accepting(t) /\ Unspent(c.invite)
        BY <1>1, <1>12 DEF AcceptMember, At, Accepting, PeopleInvariant, InviteHeld
    <2> QED
        BY <1>2, <1>3, <1>12, <2>1 DEF AcceptMember, AcceptorTold
<1>13. CASE CommitAcceptance(t)
    BY <1>2, <1>13 DEF CommitAcceptance, AdmitAs, Commit, At, AcceptorTold, Accepting
<1> QED
    BY <1>4, <1>5, <1>7, <1>8, <1>9, <1>10, <1>11, <1>12, <1>13 DEF InvitesStep

\* Every answer of invites.rs, and who gets it.
LEMMA InvitesAnswer ==
    ASSUME AuthorityInvariant, InvitesNext, NEW t \in Tx,
           call[t].op \in PeopleOperations, result'[t] # result[t]
    PROVE  /\ UNCHANGED call
           /\ \/ InviterTold(t) \/ AcceptorTold(t) \/ result'[t] = "Cancelled"
              \/ result'[t] = "Database" /\ InCircle(t)
<1>1. PeopleInvariant /\ Shaped /\ LocksExclude /\ pc[t] # "idle"
    BY DEF AuthorityInvariant, PeopleInvariant, PeopleCourse, PeoplePoints
<1>2. CASE \E i \in InviteIds : Expire(i)
    BY <1>2 DEF Expire, vars
<1>3. ASSUME NEW u \in Tx, PeopleStep(u)
      PROVE  u = t
    <2>1. Only(u)
        BY <1>1, <1>3, PeopleFrame
    <2> QED
        BY <2>1 DEF Only
<1>4. ASSUME NEW u \in Tx, CallInvites(u)
      PROVE  FALSE
    BY <1>4 DEF CallInvites
<1>5. ASSUME NEW u \in Tx, InvitesStep(u)
      PROVE  InvitesStep(t)
    BY <1>3, <1>5 DEF PeopleStep
<1>6. ASSUME NEW u \in Tx, (Begin(u) \/ Step(u) \/ Cancel(u)) /\ KeepInvites
      PROVE  Begin(t) \/ Step(t) \/ Cancel(t)
    BY <1>3, <1>6 DEF PeopleStep
<1>7. CASE InvitesStep(t)
    BY <1>7, InvitesTell
<1>8. CASE Begin(t) \/ Step(t) \/ Cancel(t)
    BY <1>1, <1>8, TenantTells
<1> QED
    BY <1>2, <1>4, <1>5, <1>6, <1>7, <1>8 DEF InvitesNext, Next

\* The operations of invites.rs, by name.
LEMMA InviteNames ==
    /\ Inviting \subseteq PeopleOperations /\ Inviting \subseteq NeedsSession
    /\ "accept_invite" \in PeopleOperations /\ "accept_invite" \notin Inviting
    /\ "create_invite" \in Inviting /\ "revoke_invite" \in Inviting
    /\ "invite_is_usable" \notin Inviting
BY DEF Inviting, PeopleOperations, InviteOperations, NeedsSession

\* An invite is made or revoked only by somebody who may in the very step that commits: a
\* demotion, suspension or departure that got there first has been seen, one that did not
\* waits for the locks authorize's caller holds.
THEOREM CapabilitiesHeld == InvitesSpec => CapabilityHeldAtCommit
<1> DEFINE A == \A t \in Tx :
                    call[t].op \in Inviting /\ result[t] = "none" /\ result'[t] = "Ok"
                        => Capable(call[t].org, call[t].by)
<1>1. AuthorityInvariant /\ [InvitesNext]_inviteVars => [A]_inviteVars
    <2> SUFFICES ASSUME AuthorityInvariant, InvitesNext, NEW t \in Tx,
                        call[t].op \in Inviting, result[t] = "none", result'[t] = "Ok"
                 PROVE  Capable(call[t].org, call[t].by)
        OBVIOUS
    <2>1. call[t].op \in PeopleOperations
        BY InviteNames
    <2>2. InviterTold(t) \/ AcceptorTold(t)
        BY <2>1, InvitesAnswer
    <2>3. ~AcceptorTold(t)
        BY InviteNames DEF AcceptorTold, Accepting
    <2> QED
        BY <2>2, <2>3 DEF InviterTold
<1>2. InvitesSpec => [][A]_inviteVars
    BY <1>1, AuthorityKeptByAll, PTL DEF InvitesSpec
<1> QED
    BY <1>2 DEF CapabilityHeldAtCommit

\* That an email is registered, that an invite is not there or that no token could be made
\* is told only to those who may know; a database error comes of a circle of waits alone.
THEOREM AnswersAreDiscreet == InvitesSpec => AnswersTellNoMore
<1> DEFINE A == \A t \in Tx :
                    LET c == call[t]
                        told(op, r) == c.op = op /\ result[t] = "none" /\ result'[t] = r
                    IN /\ told("accept_invite", "EmailTaken") => Unspent(c.invite)
                       /\ told("create_invite", "TokenUnavailable") => Capable(c.org, c.by)
                       /\ told("revoke_invite", "NotFound") => Capable(c.org, c.by)
                       /\ c.op \in Inviting \cup {"accept_invite"} /\ told(c.op, "Database")
                              => \E S \in SUBSET Tx : t \in S /\ Circle(S)
<1>1. AuthorityInvariant /\ [InvitesNext]_inviteVars => [A]_inviteVars
    <2> SUFFICES ASSUME AuthorityInvariant, InvitesNext, NEW t \in Tx,
                        call[t].op \in Inviting \cup {"accept_invite"}, result[t] = "none",
                        result'[t] \in {"EmailTaken", "TokenUnavailable", "NotFound", "Database"}
                 PROVE  /\ result'[t] = "EmailTaken" /\ call[t].op = "accept_invite"
                               => Unspent(call[t].invite)
                        /\ result'[t] \in {"TokenUnavailable", "NotFound"} /\ call[t].op \in Inviting
                               => Capable(call[t].org, call[t].by)
                        /\ result'[t] = "Database" => InCircle(t)
        BY InviteNames DEF InCircle
    <2>1. call[t].op \in PeopleOperations
        BY InviteNames
    <2>2. InviterTold(t) \/ AcceptorTold(t) \/ (result'[t] = "Database" /\ InCircle(t))
        BY <2>1, InvitesAnswer
    <2> QED
        BY <2>2, InviteNames DEF InviterTold, AcceptorTold, Accepting
<1>2. InvitesSpec => [][A]_inviteVars
    BY <1>1, AuthorityKeptByAll, PTL DEF InvitesSpec
<1> QED
    BY <1>2 DEF AnswersTellNoMore
----------------------------------------------------------------------------
(* Behind the routes: signing in, and what handlers have checked.          *)

\* A person stays, with their email, or has left.
LEMMA PersonStays ==
    ASSUME AuthorityInvariant, NEW t \in Tx, PeopleStep(t), NEW a \in users
    PROVE  actor'[a] = "departed" \/ (a \in users' /\ email'[a] = email[a])
<1>1. PeopleInvariant /\ PeopleShaped /\ a \in Actors /\ actor[a] = "live"
    BY DEF AuthorityInvariant, PeopleInvariant, PeopleShaped, NobodyIsHalfCreated
<1>2. CASE Quiet \/ Inserts(t)
    BY <1>2 DEF Quiet, Inserts, tables, ivars
<1>3. CASE WriteRevocation(t)
    BY <1>3 DEF WriteRevocation, Rollback, tables
<1>4. CASE Leaves(t)
    BY <1>1, <1>4 DEF Leaves, Departs, KeepInvites, PeopleShaped
<1>5. CASE CommitAcceptance(t)
    <2>1. actor[call[t].by] = "absent"
        BY <1>1, <1>5, AdmitStands
    <2>2. /\ users' = users \cup {call[t].by}
          /\ email' = [email EXCEPT ![call[t].by] = call[t].email]
        BY <1>5 DEF CommitAcceptance, AdmitAs
    <2> QED
        BY <1>1, <2>1, <2>2 DEF PeopleShaped
<1> QED
    BY <1>1, <1>2, <1>3, <1>4, <1>5, PeopleChange

\* One who left stays away.
LEMMA DepartedStay ==
    ASSUME AuthorityInvariant, NEW t \in Tx, PeopleStep(t), NEW a \in Actors,
           actor[a] = "departed"
    PROVE  actor'[a] = "departed"
BY ActorAfter

LEMMA SignInOthers ==
    ASSUME AuthorityInvariant, NEW t \in Tx, NEW u \in Tx, t # u, PeopleStep(t), SignInHolds(u)
    PROVE  SignInHolds(u)'
<1> DEFINE c == call[u]
<1>1. Shaped /\ LocksExclude /\ PeopleShaped /\ NobodyIsHalfCreated
    BY DEF AuthorityInvariant, PeopleInvariant
<1>2. Only(t)
    BY <1>1, PeopleFrame
<1>3. /\ pc'[u] = pc[u] /\ call'[u] = call[u] /\ held'[u] = held[u] /\ todo'[u] = todo[u]
    BY <1>2 DEF Only
<1>4. \A r, m : Claims(u, r, m)' <=> Claims(u, r, m)
    BY <1>3 DEF Claims
<1>5. ASSUME c.by \in Actors,
             actor[c.by] = "departed" \/ (c.by \in users /\ email[c.by] = c.email)
      PROVE  actor'[c.by] = "departed" \/ (c.by \in users' /\ email'[c.by] = c.email)
    BY <1>5, PersonStays, DepartedStay
<1>6. ASSUME c.by \in users, email[c.by] = c.email, held[u][ActorRow(c.by)] >= Share
      PROVE  c.by \in users' /\ email'[c.by] = c.email
    <2>1. c.by \in Actors /\ actor[c.by] = "live" /\ ActorRow(c.by) \in Rows
        BY <1>1, <1>6, RowFacts DEF PeopleShaped, NobodyIsHalfCreated
    <2>2. held[u][ActorRow(c.by)] >= KeyShare
        BY <1>1, <1>6, <2>1 DEF Shaped, Share, KeyShare, Update
    <2>3. actor'[c.by] = "live"
        BY <2>1, <2>2, HeldActorStays
    <2> QED
        BY <1>6, <2>3, PersonStays
<1> QED
    BY <1>3, <1>4, <1>5, <1>6 DEF SignInHolds, Accepted, HashFor

\* Learning who the actor is leaves the rest of a call as it is.
LEMMA ByLearnt ==
    ASSUME PeopleInvariant, NEW t \in Tx, call[t].op \in Routes, NEW a,
           call' = [call EXCEPT ![t].by = a]
    PROVE  /\ DOMAIN call'[t] = DOMAIN call[t] /\ call'[t].by = a
           /\ \A f \in DOMAIN call[t] : f # "by" => call'[t][f] = call[t][f]
           /\ call'[t].op = call[t].op
<1> DEFINE c == call[t]
           d == [c EXCEPT !.by = a]
<1>1. Stands(t) /\ Shaped
    BY StandsNow DEF PeopleInvariant
<1>2. {"op", "by"} \subseteq DOMAIN c
    BY <1>1 DEF Stands, CourseStands, PeopleOperations, InviteCallOK
<1>3. call'[t] = d
    BY <1>1 DEF Shaped
<1>4. DOMAIN d = DOMAIN c /\ d.by = a /\ \A f \in DOMAIN c : f # "by" => d[f] = c[f]
    BY <1>2
<1>5. d.op = c.op
    BY <1>2, <1>4
<1> HIDE DEF d
<1> QED
    BY <1>3, <1>4, <1>5

\* Verifying a password accepts just the one the whole hash was made of.
There(c) == StoredHash[c.by] = [form |-> "whole", of |-> c.password]

LEMMA AcceptedIsThere ==
    ASSUME NEW c, c.by \in Actors
    PROVE  Accepted(c) <=> There(c)
<1>1. c.by # 0
    BY IdentifiersAssumption
<1>2. StoredHash[c.by] \in PHCs
    BY StoredHashAssumption
<1>3. HashFor(c) = StoredHash[c.by]
    BY <1>1 DEF HashFor
<1> DEFINE h == StoredHash[c.by]
<1>4. verify_with(c.password, h).ok <=> h.form = "whole" /\ c.password = h.of
    BY DEF verify_with, argon2
<1>5. h = [form |-> "whole", of |-> c.password] <=> h.form = "whole" /\ c.password = h.of
    BY <1>2 DEF PHCs
<1> QED
    BY <1>1, <1>3, <1>4, <1>5 DEF Accepted, There
LEMMA OthersWeb ==
    ASSUME AuthorityInvariant, NEW t \in Tx, NEW u \in Tx, t # u, PeopleStep(t), WebHolds(u)
    PROVE  WebHolds(u)'
<1>1. Shaped /\ LocksExclude
    BY DEF AuthorityInvariant, PeopleInvariant
<1>2. pc'[u] = pc[u] /\ call'[u] = call[u] /\ todo'[u] = todo[u]
    BY <1>1, PeopleFrame DEF Only
<1>3. SignInHolds(u)'
    BY SignInOthers DEF WebHolds
<1>4. RequestTyped(u)'
    BY <1>2 DEF WebHolds, RequestTyped
<1>5. RequestHolds(u) => RequestHolds(u)'
    BY <1>2 DEF RequestHolds, Returned, checks_origin, changes_state, well_formed
<1> QED
    BY <1>3, <1>4, <1>5 DEF WebHolds, AllRouted

\* Who has answered has nothing more to keep.
LEMMA DoneWeb ==
    ASSUME NEW t \in Tx, WebHolds(t), pc'[t] = "done", call'[t] = call[t]
    PROVE  WebHolds(t)'
BY DEF WebHolds, SignInHolds, RequestTyped, RequestHolds

\* Nobody is on its way through the handlers with a tenant operation.
LEMMA TenantWeb ==
    ASSUME WebInvariant, NEW t \in Tx, (Begin(t) \/ Step(t) \/ Cancel(t)) /\ KeepInvites
    PROVE  WebHolds(t)'
<1> DEFINE c == call[t]
<1>1. /\ PeopleInvariant /\ Shaped /\ PeopleShaped /\ NobodyIsHalfCreated /\ Stands(t)
      /\ SessionsCourse /\ WebHolds(t)
    BY StandsNow DEF WebInvariant, SessionsInvariant, PeopleInvariant
<1>2. CASE c.op \in PeopleOperations /\ ~TakeLock(t)
    <2>1. pc[t] \in PeoplePoints
        BY <1>1, <1>2 DEF Stands, CourseStands
    <2>2. pc[t] # "lock_actor" /\ pc[t] # "idle" /\ c.op \notin TenantOperations
        BY <1>2, <2>1, PeopleAreOthers DEF PeoplePoints
    <2>3. DeadlockAbort(t) \/ Cancel(t)
        BY <1>2, <2>2, TenantMeets DEF Begin
    <2>4. pc'[t] = "done" /\ call'[t] = c
        BY <1>1, <2>3 DEF DeadlockAbort, Cancel, Rollback, End, Shaped
    <2> QED
        BY <1>1, <2>4, DoneWeb
<1>3. CASE TakeLock(t)
    <2>1. UNCHANGED <<tables, pc, call>>
        BY <1>3 DEF TakeLock
    <2>2. UNCHANGED <<actor, users, email>>
        BY <1>1, <2>1, EmailsStay DEF tables, ivars
    <2>3. ~Returned(t)
        BY <1>3 DEF TakeLock, Acquire, Returned
    <2>4. \A a \in Actors, m \in Modes :
              /\ held[t][ActorRow(a)] >= m => held'[t][ActorRow(a)] >= m
              /\ Claims(t, ActorRow(a), m) => Claims(t, ActorRow(a), m)'
        BY <1>1, <1>3, RowFacts, ClaimsGrow
    <2>5. c.by \in Actors /\ Claims(t, ActorRow(c.by), Share) => Claims(t, ActorRow(c.by), Share)'
        BY <2>1, <2>4, ModeFacts
    <2>6. c.by \in users => c.by \in Actors
        BY <1>1 DEF PeopleShaped
    <2>7. SignInHolds(t)'
        BY <1>1, <2>1, <2>2, <2>4, <2>6, <2>5, ModeFacts
           DEF WebHolds, SignInHolds, Accepted, HashFor
    <2>8. RequestTyped(t)' /\ (RequestHolds(t) => RequestHolds(t)')
        BY <1>1, <2>1, <2>3 DEF WebHolds, RequestTyped, RequestHolds, checks_origin, changes_state,
               well_formed
    <2> QED
        BY <1>1, <2>7, <2>8 DEF WebHolds, AllRouted
<1>4. CASE c.op \notin PeopleOperations /\ ~TakeLock(t)
    <2>1. pc'[t] \in Points \ {"idle"}
        BY <1>1, <1>4, TenantPoint
    <2>2. call'[t].op \notin PeopleOperations
        <3>1. CASE Begin(t)
            <4>1. PICK d \in Requests : call' = [call EXCEPT ![t] = d]
                BY <3>1 DEF Begin
            <4>2. call'[t] \in Calls
                BY <1>1, <4>1, RequestsAssumption DEF Shaped
            <4> QED
                BY <4>2, TenantCalls, PeopleAreOthers
        <3>2. CASE ~Begin(t)
            <4>1. UNCHANGED call
                BY <1>1, <3>2, TenantKinds DEF Kinds, TakeLock, Over, End, Proceeds
            <4> QED
                BY <1>4, <4>1
        <3> QED
            BY <3>1, <3>2
    <2>3. call'[t].op \notin Routes
        BY <2>2 DEF PeopleOperations
    <2> QED
        BY <2>1, <2>3 DEF Points, Routes, NeedsSession, WebHolds, SignInHolds, RequestTyped, RequestHolds
<1> QED
    BY <1>2, <1>3, <1>4

\* The points of invites.rs come after the handlers'.
LEMMA InviteFrom ==
    ASSUME NEW t \in Tx, InvitesStep(t)
    PROVE  pc[t] \notin {"idle", "web_session", "web_body", "done"}
BY DEF InvitesStep, LockInviter, LockInviteOrganization, CreateInvite, InsertInvite,
       RevokeInvite, WriteRevocation, InviteIsUsable, AcceptInvite, AcceptPerson,
       AcceptMember, CommitAcceptance, AdmitAs, At

LEMMA InvitesWeb ==
    ASSUME WebInvariant, NEW t \in Tx, InvitesStep(t)
    PROVE  WebHolds(t)'
<1>1. Shaped /\ WebHolds(t) /\ AuthorityInvariant
    BY DEF WebInvariant, AuthorityInvariant, PeopleInvariant
<1>2. pc'[t] \notin {"idle", "web_session", "web_body", "web_hash", "begin", "verify",
                     "sign_in_actor", "sign_in_insert"}
    BY <1>1, InviteArrives
<1>3. pc[t] \notin {"idle", "web_session", "web_body", "done"}
    BY InviteFrom
<1>4. call'[t] = call[t]
    BY <1>1, InvitesTell
<1>5. SignInHolds(t)' /\ RequestTyped(t)'
    BY <1>1, <1>2, <1>4 DEF WebHolds, SignInHolds, RequestTyped
<1>6. RequestHolds(t) => RequestHolds(t)'
    BY <1>2, <1>3, <1>4 DEF RequestHolds, checks_origin, changes_state, well_formed
<1> QED
    BY <1>1, <1>5, <1>6 DEF WebHolds, AllRouted

LEMMA CallWeb ==
    ASSUME WebInvariant, NEW t \in Tx, CallInvites(t)
    PROVE  WebHolds(t)'
<1>1. Shaped
    BY DEF WebInvariant, AuthorityInvariant, PeopleInvariant
<1>2. PICK c \in InviteCalls :
          call' = [call EXCEPT ![t] = c] /\ pc' = [pc EXCEPT ![t] = "begin"]
    BY DEF CallInvites
<1>3. call'[t] = c /\ pc'[t] = "begin" /\ c.op \in InviteOperations
    BY <1>1, <1>2, InviteCallsAssumption DEF Shaped
<1> QED
    BY <1>2, <1>3 DEF InviteOperations, WebHolds, SignInHolds, RequestTyped, AllRouted

\* Whom a session resolves to is there.
LEMMA ResolvedIsThere ==
    ASSUME SessionsInvariant, NEW k \in Tokens, resolve_session(k) # 0
    PROVE  /\ resolve_session(k) = session[k].actor
           /\ session[k].actor \in users /\ session[k].actor \in Actors
           /\ actor[session[k].actor] = "live"
<1>1. resolve_session(k) = session[k].actor
    BY DEF resolve_session
<1>2. session[k] # NoSession
    BY <1>1 DEF NoSession
<1>3. users \subseteq Actors
    BY DEF SessionsInvariant, PeopleInvariant, PeopleShaped
<1> QED
    BY <1>1, <1>2, <1>3 DEF SessionsInvariant, SessionsHavePeople
\* protect lets a request in with its origin checked.
LEMMA ReceiveWeb ==
    ASSUME WebInvariant, NEW t \in Tx, Receive(t)
    PROVE  WebHolds(t)' /\ Introduced(t)
<1>1. /\ Shaped /\ PeopleInvariant /\ WebHolds(t) /\ DOMAIN loc[t] = DOMAIN NoLocals
    BY DEF WebInvariant, AuthorityInvariant, PeopleInvariant, Holds, TenantHolds
<1>2. PICK r \in WebRequests :
          LET refused == checks_origin(r) /\ ~r.origin
          IN /\ pc[t] = "idle" /\ call' = [call EXCEPT ![t] = r]
             /\ pc' = [pc EXCEPT ![t] = IF refused THEN "done"
                          ELSE IF r.op \in NeedsSession THEN "web_session" ELSE "web_body"]
             /\ UNCHANGED <<tables, blind, locks, loc, ivars, session>>
    BY DEF Receive
<1>3. /\ r.op \in Routes /\ {"origin", "upgrade", "cookie", "body"} \subseteq DOMAIN r
      /\ r.cookie \in Tokens \cup {0}
      /\ r.op = "sign_in" => "email" \in DOMAIN r /\ r.email \in Emails
      /\ r.op = "revoke_session" => "token" \in DOMAIN r /\ r.token \in Tokens
    BY WebRequestsAssumption
<1>4. call'[t] = r /\ todo'[t] = todo[t] /\ loc'[t] = loc[t]
    BY <1>1, <1>2 DEF Shaped, locks
<1>5. pc'[t] = IF checks_origin(r) /\ ~r.origin THEN "done"
               ELSE IF r.op \in NeedsSession THEN "web_session" ELSE "web_body"
    BY <1>1, <1>2 DEF Shaped
<1>6. SignInHolds(t)' /\ RequestTyped(t)'
    BY <1>3, <1>4, <1>5 DEF SignInHolds, RequestTyped
<1>7. RequestHolds(t) => RequestHolds(t)'
    BY <1>2, <1>3, <1>4, <1>5, RouteKinds
       DEF RequestHolds, Returned, checks_origin, changes_state, well_formed, NeedsSession
<1>8. Introduced(t)
    BY <1>1, <1>4, <1>5, InviteNames DEF Introduced
<1> QED
    BY <1>1, <1>6, <1>7, <1>8 DEF WebHolds, AllRouted

\* A handler or an operation that answers.
LEMMA AnswerWeb ==
    ASSUME WebInvariant, NEW t \in Tx, NEW r, Answer(t, r)
    PROVE  WebHolds(t)' /\ Introduced(t)
<1>1. Shaped /\ WebHolds(t)
    BY DEF WebInvariant, AuthorityInvariant, PeopleInvariant
<1>2. pc'[t] = "done" /\ call'[t] = call[t] /\ loc'[t] = NoLocals
    BY <1>1 DEF Answer, Rollback, End, Shaped
<1> QED
    BY <1>1, <1>2, DoneWeb DEF Introduced

\* A handler begins its operation: the checks before it are done.
LEMMA BeginWeb ==
    ASSUME WebInvariant, NEW t \in Tx, NEW a, BeginOperation(t, a),
           call[t].op \in Routes, pc[t] # "done",
           call[t].op \in NeedsSession => a \in Actors /\ actor[a] # "absent",
           RequestHolds(t) /\ call[t].op \in {"create_invite", "accept_invite"}
               => well_formed(call[t])
    PROVE  WebHolds(t)' /\ Introduced(t)
<1> DEFINE c == call[t]
           d == call'[t]
<1>1. Shaped /\ PeopleInvariant /\ WebHolds(t) /\ DOMAIN loc[t] = DOMAIN NoLocals
    BY DEF WebInvariant, AuthorityInvariant, PeopleInvariant, Holds, TenantHolds
<1>2. /\ call' = [call EXCEPT ![t].by = a] /\ pc'[t] = "begin" /\ UNCHANGED <<actor, loc>>
    BY <1>1 DEF BeginOperation, Shaped, tables
<1>3. /\ DOMAIN d = DOMAIN c /\ d.by = a /\ d.op = c.op
      /\ \A f \in DOMAIN c : f # "by" => d[f] = c[f]
    BY <1>1, <1>2, ByLearnt
<1> HIDE DEF d
<1>4. c.op \in {"me", "revoke_session"} => a \in Actors
    BY RouteKinds
<1>5. RequestTyped(t)'
    <2>1. RequestTyped(t)
        BY <1>1 DEF WebHolds
    <2>2. c.op = "sign_in" => "email" \in DOMAIN d /\ d.email \in Emails
        BY <1>3, <2>1 DEF RequestTyped
    <2>3. c.op = "revoke_session" => "token" \in DOMAIN d /\ d.token \in Tokens
        BY <1>3, <2>1 DEF RequestTyped
    <2> QED
        BY <1>2, <1>3, <1>4, <2>2, <2>3 DEF RequestTyped, d
<1>6. SignInHolds(t)'
    BY <1>2 DEF SignInHolds
<1>7. RequestHolds(t) => RequestHolds(t)'
    <2> SUFFICES ASSUME RequestHolds(t) PROVE RequestHolds(t)'
        OBVIOUS
    <2>1. /\ {"origin", "upgrade", "cookie", "body"} \subseteq DOMAIN c
          /\ checks_origin(c) => c.origin
        BY DEF RequestHolds
    <2>2. d.origin = c.origin /\ d.upgrade = c.upgrade /\ d.body = c.body
        BY <1>3, <2>1
    <2>3. c.op \in {"create_invite", "accept_invite"} => d.body = "ok"
        BY <2>2 DEF well_formed
    <2>4. checks_origin(d) => d.origin
        BY <1>3, <2>1, <2>2 DEF checks_origin, changes_state
    <2>5. {"origin", "upgrade", "cookie", "body"} \subseteq DOMAIN d
        BY <1>3, <2>1
    <2> HIDE DEF d
    <2> QED
        BY <1>2, <1>3, <2>3, <2>4, <2>5
           DEF RequestHolds, checks_origin, changes_state, well_formed, d
<1>8. Introduced(t)
    <2>1. c.op \in Inviting => a \in Actors /\ actor[a] # "absent"
        BY InviteNames
    <2> QED
        BY <1>1, <1>2, <1>3, <2>1 DEF Introduced, d
<1> QED
    BY <1>1, <1>5, <1>6, <1>7, <1>8 DEF WebHolds, AllRouted

\* The handlers' steps.
LEMMA HandlersWeb ==
    ASSUME WebInvariant, NEW t \in Tx, WebStep(t)
    PROVE  WebHolds(t)' /\ Introduced(t)
<1> DEFINE c == call[t]
<1> USE RouteKinds
<1>1. /\ Shaped /\ SessionsInvariant /\ SessionsCourse /\ WebHolds(t)
      /\ DOMAIN loc[t] = DOMAIN NoLocals
    BY DEF WebInvariant, SessionsInvariant, AuthorityInvariant, PeopleInvariant, Holds,
           TenantHolds
<1>2. ASSUME NEW r, Refuse(t, r)
      PROVE  WebHolds(t)' /\ Introduced(t)
    BY <1>2, AnswerWeb DEF Refuse
<1>3. CASE Authenticate(t)
    <2> DEFINE a == IF c.cookie = 0 THEN 0 ELSE resolve_session(c.cookie)
    <2>1. pc[t] = "web_session" /\ c.op \in NeedsSession /\ c.cookie \in Tokens \cup {0}
        BY <1>1, <1>3 DEF Authenticate, SessionsCourse, WebHolds, RequestTyped
    <2>2. a # 0 => a \in Actors /\ actor[a] = "live"
        BY <1>1, <2>1, ResolvedIsThere
    <2>3. \/ \E r : Refuse(t, r)
          \/ a # 0 /\ HandlerRefusal(c) = "none" /\ BeginOperation(t, a)
        BY <1>3 DEF Authenticate
    <2> HIDE DEF a
    <2>4. CASE a # 0 /\ HandlerRefusal(c) = "none" /\ BeginOperation(t, a)
        <3>1. c.op \in {"create_invite", "accept_invite"} => well_formed(c)
            BY <2>1, <2>4 DEF HandlerRefusal
        <3> QED
            BY <2>1, <2>2, <2>4, <3>1, BeginWeb
    <2> QED
        BY <1>2, <2>3, <2>4
<1>4. CASE ReadSignIn(t)
    <2>1. c.op = "sign_in" /\ pc[t] = "web_body"
        BY <1>4 DEF ReadSignIn, At
    <2>2. CASE BeginOperation(t, 0)
        BY <2>1, <2>2, BeginWeb
    <2> QED
        BY <1>2, <1>4, <2>2 DEF ReadSignIn
<1>5. CASE FilterAcceptance(t)
    <2>1. c.op = "accept_invite" /\ pc[t] = "web_body"
        BY <1>5 DEF FilterAcceptance, At
    <2>2. CASE AcceptanceRefusal(c) = "none" /\ GoOn(t, "web_hash", KeyShare, {})
        <3>1. pc'[t] = "web_hash" /\ call'[t] = c /\ loc'[t] = loc[t]
            BY <1>1, <2>2 DEF GoOn, Start, Shaped
        <3>2. well_formed(c)
            BY <2>2 DEF AcceptanceRefusal
        <3>3. SignInHolds(t)' /\ RequestTyped(t)' /\ Introduced(t)
            BY <1>1, <2>1, <3>1, InviteNames DEF WebHolds, SignInHolds, RequestTyped, Introduced
        <3>4. RequestHolds(t) => RequestHolds(t)'
            BY <2>1, <3>1, <3>2 DEF RequestHolds, checks_origin, changes_state, well_formed
        <3> QED
            BY <1>1, <3>3, <3>4 DEF WebHolds, AllRouted
    <2> QED
        BY <1>2, <1>5, <2>2 DEF FilterAcceptance
<1>6. CASE HashPassword(t)
    <2>1. c.op = "accept_invite" /\ pc[t] = "web_hash"
        BY <1>6 DEF HashPassword, At
    <2>2. RequestHolds(t) => well_formed(c)
        BY <2>1 DEF RequestHolds
    <2>3. CASE BeginOperation(t, c.by)
        BY <2>1, <2>2, <2>3, BeginWeb
    <2> QED
        BY <1>2, <1>6, <2>3 DEF HashPassword
<1> QED
    BY <1>3, <1>4, <1>5, <1>6 DEF WebStep
\* The steps of sessions.rs: from the second read on the person cannot leave.
LEMMA SessionsWeb ==
    ASSUME WebInvariant, NEW t \in Tx, SessionsStep(t)
    PROVE  WebHolds(t)' /\ Introduced(t)
<1> DEFINE c == call[t]
<1> USE RouteKinds
<1>1. /\ Shaped /\ PeopleInvariant /\ PeopleShaped /\ NobodyIsHalfCreated
      /\ SignInHolds(t) /\ RequestTyped(t) /\ WebHolds(t) /\ DOMAIN loc[t] = DOMAIN NoLocals
    BY DEF WebInvariant, AuthorityInvariant, PeopleInvariant, Holds, TenantHolds, WebHolds
<1>2. ASSUME NEW r, Answer(t, r)
      PROVE  WebHolds(t)' /\ Introduced(t)
    BY <1>2, AnswerWeb
<1>3. ASSUME c.op = "sign_in", pc[t] \in {"verify", "sign_in_actor"},
             NEW p \in {"sign_in_actor", "sign_in_insert"}, NEW m, NEW rows,
             GoOn(t, p, m, rows), SignInHolds(t)'
      PROVE  WebHolds(t)' /\ Introduced(t)
    <2>1. pc'[t] = p /\ call'[t] = c /\ loc'[t] = loc[t]
        BY <1>1, <1>3 DEF GoOn, Start, Shaped
    <2>2. RequestTyped(t)' /\ Introduced(t)
        BY <1>1, <1>3, <2>1, InviteNames DEF RequestTyped, Introduced
    <2>3. RequestHolds(t) => RequestHolds(t)'
        BY <1>3, <2>1 DEF RequestHolds, checks_origin, changes_state, well_formed
    <2> QED
        BY <1>1, <1>3, <2>2, <2>3 DEF WebHolds, AllRouted
<1>4. CASE ReadPerson(t)
    <2> DEFINE d == call'[t]
    <2>1. c.op = "sign_in" /\ pc[t] = "begin"
        BY <1>4 DEF ReadPerson, At
    <2>2. PICK person \in Actors \cup {0} :
              /\ person # 0 => email[person] = c.email
              /\ call' = [call EXCEPT ![t].by = person]
        BY <1>4 DEF ReadPerson
    <2>3. pc'[t] = "verify" /\ UNCHANGED <<users, actor, email, loc>>
        BY <1>1, <1>4 DEF ReadPerson, Shaped, tables, ivars
    <2>4. /\ DOMAIN d = DOMAIN c /\ d.by = person /\ d.op = "sign_in"
          /\ \A f \in DOMAIN c : f # "by" => d[f] = c[f]
        BY <1>1, <2>1, <2>2, ByLearnt
    <2>5. "email" \in DOMAIN c /\ c.email \in Emails
        BY <1>1, <2>1 DEF RequestTyped
    <2> HIDE DEF d
    <2>6. d.email = c.email
        BY <2>4, <2>5
    <2>7. c.email # 0
        BY <2>5, IdentifiersAssumption
    <2>8. person # 0 => person \in users /\ email[person] = d.email
        BY <1>1, <2>2, <2>6, <2>7 DEF NobodyIsHalfCreated
    <2>9. SignInHolds(t)'
        BY <2>2, <2>3, <2>4, <2>8 DEF SignInHolds, d
    <2>10. RequestTyped(t)'
        BY <2>3, <2>4, <2>5, <2>6 DEF RequestTyped, d
    <2>11. Introduced(t)
        BY <1>1, <2>3, <2>4, InviteNames DEF Introduced, d
    <2>12. RequestHolds(t) => RequestHolds(t)'
        <3> SUFFICES ASSUME RequestHolds(t) PROVE RequestHolds(t)'
            OBVIOUS
        <3>1. /\ {"origin", "upgrade", "cookie", "body"} \subseteq DOMAIN c
              /\ checks_origin(c) => c.origin
            BY <2>1 DEF RequestHolds
        <3>2. d.origin = c.origin
            BY <2>4, <3>1
        <3>3. d.origin
            BY <2>1, <3>1, <3>2 DEF checks_origin, changes_state
        <3> QED
            BY <2>3, <2>4, <3>1, <3>3 DEF RequestHolds, checks_origin, changes_state, d
    <2> QED
        BY <1>1, <2>9, <2>10, <2>11, <2>12 DEF WebHolds, AllRouted
<1>5. CASE Verify(t)
    <2> DEFINE rows == {ActorRow(a) : a \in {b \in {c.by} : SeesActor(b, b)}}
    <2>1. c.op = "sign_in" /\ pc[t] = "verify"
        BY <1>5 DEF Verify, At
    <2>2. \/ \E r : Answer(t, r)
          \/ Accepted(c) /\ GoOn(t, "sign_in_actor", Share, rows)
        BY <1>5 DEF Verify
    <2>3. ASSUME Accepted(c)
          PROVE  /\ c.by \in Actors /\ ActorRow(c.by) \in rows
                 /\ actor[c.by] = "departed" \/ (c.by \in users /\ email[c.by] = c.email)
        <3>1. /\ c.by \in Actors
              /\ actor[c.by] = "departed" \/ (c.by \in users /\ email[c.by] = c.email)
            BY <1>1, <2>1, <2>3 DEF SignInHolds, Accepted
        <3>2. actor[c.by] # "absent"
            BY <1>1, <3>1 DEF NobodyIsHalfCreated
        <3> QED
            BY <3>1, <3>2 DEF SeesActor
    <2> HIDE DEF rows
    <2>4. CASE Accepted(c) /\ GoOn(t, "sign_in_actor", Share, rows)
        <3>1. /\ pc'[t] = "sign_in_actor" /\ call'[t] = c /\ todo'[t] = Statement(Share, rows)
              /\ UNCHANGED <<actor, users, email>>
            BY <1>1, <2>4 DEF GoOn, Start, Shaped, tables, ivars
        <3>2. SignInHolds(t)'
            BY <2>3, <2>4, <3>1 DEF SignInHolds, Claims, Statement, Accepted, HashFor
        <3> QED
            BY <1>3, <2>1, <2>4, <3>2
    <2> QED
        BY <1>2, <2>2, <2>4
<1>6. CASE RereadPerson(t)
    <2>1. c.op = "sign_in" /\ pc[t] = "sign_in_actor" /\ Returned(t)
        BY <1>6 DEF RereadPerson, At
    <2>2. /\ c.by \in Actors /\ Accepted(c) /\ held[t][ActorRow(c.by)] >= Share
          /\ actor[c.by] = "departed" \/ (c.by \in users /\ email[c.by] = c.email)
        BY <1>1, <2>1, ClaimReturned DEF SignInHolds
    <2>3. CASE actor[c.by] = "live" /\ GoOn(t, "sign_in_insert", KeyShare, {})
        <3>1. /\ pc'[t] = "sign_in_insert" /\ call'[t] = c /\ held'[t] = held[t]
              /\ UNCHANGED <<actor, users, email>>
            BY <1>1, <2>3 DEF GoOn, Start, Shaped, tables, ivars
        <3>2. SignInHolds(t)'
            BY <2>2, <2>3, <3>1 DEF SignInHolds, Accepted, HashFor
        <3> QED
            BY <1>3, <2>1, <2>3, <3>2
    <2> QED
        BY <1>2, <1>6, <2>3 DEF RereadPerson
<1>7. CASE InsertSession(t) \/ RevokeSession(t) \/ ReadMe(t)
    BY <1>2, <1>7 DEF InsertSession, RevokeSession, ReadMe
<1> QED
    BY <1>4, <1>5, <1>6, <1>7 DEF SessionsStep

\* What the rest of a state is does not matter to handlers either.
LEMMA WebKept ==
    ASSUME WebInvariant, SessionsInvariant', AuthorityInvariant',
           UNCHANGED <<actor, users, email, pc, call, held, todo>>
    PROVE  WebInvariant'
<1>1. ASSUME NEW u \in Tx
      PROVE  WebHolds(u)'
    <2>1. WebHolds(u)
        BY DEF WebInvariant
    <2>2. \A r, m : Claims(u, r, m)' <=> Claims(u, r, m)
        BY DEF Claims
    <2>3. SignInHolds(u)' /\ RequestTyped(u)'
        BY <2>1, <2>2 DEF WebHolds, SignInHolds, RequestTyped, Accepted, HashFor
    <2>4. RequestHolds(u) => RequestHolds(u)'
        BY DEF RequestHolds, Returned, checks_origin, changes_state, well_formed
    <2> QED
        BY <2>1, <2>3, <2>4 DEF WebHolds, AllRouted
<1> QED
    BY <1>1 DEF WebInvariant

LEMMA WebStutter ==
    ASSUME WebInvariant, SessionsInvariant', UNCHANGED inviteVars
    PROVE  WebInvariant'
<1>1. UNCHANGED <<actor, users, email, member, pc, call, loc, held, todo>>
    BY DEF inviteVars, ivars, vars, tables, locks
<1>2. AuthorityInvariant'
    BY <1>1, AuthorityKept DEF WebInvariant, SessionsInvariant
<1> QED
    BY <1>1, <1>2, WebKept

\* Every step keeps it.
LEMMA WebStepKeeps ==
    ASSUME WebInvariant, WebNext
    PROVE  WebInvariant'
<1>1. AuthorityInvariant /\ PeopleInvariant /\ Shaped /\ SessionsInvariant /\ SessionsCourse
    BY DEF WebInvariant, AuthorityInvariant, PeopleInvariant, SessionsInvariant
<1>2. SessionsInvariant'
    BY <1>1, SessionsInductive
<1>3. PeopleInvariant'
    BY <1>2 DEF SessionsInvariant
<1>4. ASSUME NEW t \in Tx, PeopleStep(t), WebHolds(t)', AuthorityInvariant'
      PROVE  WebInvariant'
    <2>1. \A u \in Tx : WebHolds(u)'
        BY <1>1, <1>4, OthersWeb DEF WebInvariant
    <2> QED
        BY <1>2, <1>4, <2>1 DEF WebInvariant
<1>5. CASE InvitesNext /\ Cascade
    <2>1. AuthorityInvariant'
        BY <1>1, <1>5, AuthorityStep
    <2>2. ASSUME NEW i \in InviteIds, Expire(i)
          PROVE  WebInvariant'
        <3>1. UNCHANGED <<actor, users, email, pc, call, held, todo>>
            BY <2>2 DEF Expire, vars, tables, locks
        <3> QED
            BY <1>2, <2>1, <3>1, WebKept
    <2>3. ASSUME NEW t \in Tx, (Begin(t) \/ Step(t) \/ Cancel(t)) /\ KeepInvites
          PROVE  WebInvariant'
        <3>1. PeopleStep(t)
            BY <2>3 DEF PeopleStep
        <3>2. WebHolds(t)'
            BY <2>3, TenantWeb
        <3> QED
            BY <1>4, <2>1, <3>1, <3>2
    <2>4. ASSUME NEW t \in Tx, InvitesStep(t)
          PROVE  WebInvariant'
        <3>1. PeopleStep(t)
            BY <2>4 DEF PeopleStep
        <3>2. WebHolds(t)'
            BY <2>4, InvitesWeb
        <3> QED
            BY <1>4, <2>1, <3>1, <3>2
    <2>5. ASSUME NEW t \in Tx, CallInvites(t)
          PROVE  WebInvariant'
        <3>1. PeopleStep(t)
            BY <1>1, <2>5, CallAsks DEF PeopleStep
        <3>2. WebHolds(t)'
            BY <2>5, CallWeb
        <3> QED
            BY <1>4, <2>1, <3>1, <3>2
    <2> QED
        BY <1>5, <2>2, <2>3, <2>4, <2>5 DEF InvitesNext, Next
<1>6. ASSUME NEW t \in Tx, SessionsStep(t) \/ Receive(t) \/ WebStep(t)
      PROVE  WebInvariant'
    <2>1. PeopleStep(t)
        BY <1>1, <1>6, SessionsStandAside, ReceiveAsks, HandlersStandAside DEF PeopleStep
    <2>2. WebHolds(t)' /\ Introduced(t)
        BY <1>6, SessionsWeb, ReceiveWeb, HandlersWeb
    <2>3. AuthorityInvariant'
        BY <1>1, <2>1, <2>2, AuthorityInductive
    <2> QED
        BY <1>4, <2>1, <2>2, <2>3
<1>7. ASSUME NEW k \in Tokens, ExpireSession(k)
      PROVE  WebInvariant'
    BY <1>2, <1>7, WebStutter DEF ExpireSession
<1> QED
    BY <1>5, <1>6, <1>7 DEF WebNext, SessionsNext

\* WebInvariant holds however requests, sign-ins, invitations, departures and expiries
\* interleave: what handlers and sign-ins rest on when they answer.
THEOREM HandlersAgree == WebSpec => []WebInvariant
<1>1. SessionsInit => WebInvariant
    <2> SUFFICES ASSUME SessionsInit PROVE WebInvariant
        OBVIOUS
    <2>1. InvitesInit /\ session \in InitialSessions
        BY DEF SessionsInit
    <2>2. AuthorityInvariant
        BY <2>1, AuthorityInit
    <2>3. SessionsInvariant
        BY SessionsStart
    <2>4. ASSUME NEW u \in Tx
          PROVE  WebHolds(u)
        <3>1. pc[u] = "idle" /\ call[u].op = "none" /\ Returned(u)
            BY <2>1 DEF InvitesInit, StoreInit, NoCall, Returned, NoStatement
        <3> QED
            BY <3>1 DEF WebHolds, SignInHolds, RequestTyped, RequestHolds, Routes, NeedsSession
    <2> QED
        BY <2>2, <2>3, <2>4 DEF WebInvariant
<1>2. WebInvariant /\ [WebNext]_sessionVars => WebInvariant'
    <2> SUFFICES ASSUME WebInvariant, UNCHANGED sessionVars PROVE WebInvariant'
        BY WebStepKeeps
    <2>1. SessionsInvariant'
        BY SessionsStay DEF WebInvariant
    <2> QED
        BY <2>1, WebStutter DEF sessionVars
<1> QED
    BY <1>1, <1>2, PTL DEF WebSpec
----------------------------------------------------------------------------
(* What the routes answer.                                                 *)

\* protect
OriginTold(t) ==
    /\ result'[t] = "BadOrigin" /\ call'[t].op \in Routes
    /\ checks_origin(call'[t]) /\ ~call'[t].origin

\* The handlers' own refusals.
HandlerTold(t) ==
    LET r == call[t]
        s == result'[t]
    IN \/ pc[t] = "web_session" /\ r.op \in NeedsSession /\ s = "NoSession"
       \/ /\ pc[t] = "web_session" /\ r.op = "create_invite" /\ s = "InvalidBody"
          /\ resolve_session(r.cookie) # 0
       \/ /\ pc[t] = "web_session" /\ r.op \in Inviting /\ s = "NoIdentifier"
          /\ r.op = "create_invite" => well_formed(r)
       \/ r.op = "sign_in" /\ s = "InvalidBody"
       \/ Accepting(t) /\ s = "InvalidBody" /\ (r.body = "fields" => Usable(r.invite))
       \/ Accepting(t) /\ s \in {"InviteUnusable", "HashFailed"}

\* sessions.rs
SessionTold(t) ==
    LET c == call[t]
        s == result'[t]
        served == c.by \in users /\ actor[c.by] = "live"
        there == served /\ email[c.by] = c.email /\ There(c)
    IN \/ c.op = "sign_in" /\ s = "WorkerCrashed"
       \/ c.op = "sign_in" /\ s = "InvalidCredentials" /\ ~there
       \/ c.op = "sign_in" /\ s \in {"TokenUnavailable", "Ok"} /\ there
       \/ c.op \in {"me", "revoke_session"} /\ s = "NoSession"
       \/ c.op \in {"me", "revoke_session"} /\ s = "Ok" /\ served

LEMMA HandlersTell ==
    ASSUME WebInvariant, NEW t \in Tx, WebStep(t), result'[t] # result[t]
    PROVE  HandlerTold(t) /\ UNCHANGED call /\ call[t].op \in Routes
<1> DEFINE c == call[t]
<1> USE RouteKinds
<1>1. Shaped /\ SessionsCourse
    BY DEF WebInvariant, SessionsInvariant, PeopleInvariant
<1>2. ASSUME NEW s, Refuse(t, s)
      PROVE  result'[t] = s /\ UNCHANGED call
    BY <1>1, <1>2 DEF Refuse, Answer, Rollback, End, Shaped
<1>3. ~(\E a : BeginOperation(t, a)) /\ ~(\E p, m, rows : GoOn(t, p, m, rows))
    BY DEF BeginOperation, GoOn, Start
<1>4. CASE Authenticate(t)
    <2> DEFINE a == IF c.cookie = 0 THEN 0 ELSE resolve_session(c.cookie)
    <2>1. pc[t] = "web_session" /\ c.op \in NeedsSession
        BY <1>1, <1>4 DEF Authenticate, SessionsCourse
    <2>2. \/ Refuse(t, "NoSession")
          \/ a # 0 /\ HandlerRefusal(c) # "none" /\ Refuse(t, HandlerRefusal(c))
        BY <1>3, <1>4 DEF Authenticate
    <2>3. a # 0 => resolve_session(c.cookie) # 0
        OBVIOUS
    <2>4. HandlerRefusal(c) # "none" =>
              \/ HandlerRefusal(c) = "InvalidBody" /\ c.op = "create_invite"
              \/ /\ HandlerRefusal(c) = "NoIdentifier" /\ c.op \in Inviting
                 /\ c.op = "create_invite" => well_formed(c)
        BY DEF HandlerRefusal
    <2> HIDE DEF a
    <2> QED
        BY <1>2, <2>1, <2>2, <2>3, <2>4 DEF HandlerTold
<1>5. CASE ReadSignIn(t)
    BY <1>2, <1>3, <1>5 DEF ReadSignIn, At, HandlerTold
<1>6. CASE FilterAcceptance(t)
    <2>1. c.op = "accept_invite" /\ Refuse(t, AcceptanceRefusal(c)) /\ AcceptanceRefusal(c) # "none"
        BY <1>3, <1>6 DEF FilterAcceptance, At
    <2>2. \/ AcceptanceRefusal(c) = "InviteUnusable"
          \/ AcceptanceRefusal(c) = "InvalidBody" /\ (c.body = "fields" => Usable(c.invite))
        BY <2>1 DEF AcceptanceRefusal, object
    <2> QED
        BY <1>2, <2>1, <2>2 DEF HandlerTold, Accepting
<1>7. CASE HashPassword(t)
    BY <1>2, <1>3, <1>7 DEF HashPassword, At, HandlerTold, Accepting
<1> QED
    BY <1>4, <1>5, <1>6, <1>7 DEF WebStep

LEMMA SessionsTell ==
    ASSUME WebInvariant, NEW t \in Tx, SessionsStep(t), result'[t] # result[t]
    PROVE  SessionTold(t) /\ UNCHANGED call /\ call[t].op \in Routes
<1> DEFINE c == call[t]
           served == c.by \in users /\ actor[c.by] = "live"
<1> USE RouteKinds
<1>1. /\ Shaped /\ PeopleShaped /\ NobodyIsHalfCreated /\ SignInHolds(t) /\ RequestTyped(t)
      /\ SessionsCourse /\ SessionsHavePeople
    BY DEF WebInvariant, SessionsInvariant, PeopleInvariant, WebHolds
<1>2. ASSUME NEW s, Answer(t, s)
      PROVE  result'[t] = s /\ UNCHANGED call
    BY <1>1, <1>2 DEF Answer, Rollback, End, Shaped
<1>3. ~(\E p, m, rows : GoOn(t, p, m, rows)) /\ ~ReadPerson(t)
    BY DEF GoOn, Start, ReadPerson
<1>4. users \subseteq Actors /\ \A a \in Actors : actor[a] = "live" <=> a \in users
    BY <1>1 DEF PeopleShaped, NobodyIsHalfCreated
<1>5. c.by \in Actors => (Accepted(c) <=> There(c))
    BY AcceptedIsThere
<1>6. CASE Verify(t)
    <2>1. c.op = "sign_in"
        BY <1>6 DEF Verify, At
    <2>2. Answer(t, "WorkerCrashed") \/ (~Accepted(c) /\ Answer(t, "InvalidCredentials"))
        BY <1>3, <1>6 DEF Verify
    <2> QED
        BY <1>2, <1>4, <1>5, <2>1, <2>2 DEF SessionTold
<1>7. CASE RereadPerson(t)
    <2>1. c.op = "sign_in" /\ pc[t] = "sign_in_actor"
        BY <1>7 DEF RereadPerson, At
    <2>2. /\ c.by \in Actors /\ Accepted(c)
          /\ actor[c.by] = "departed" \/ (c.by \in users /\ email[c.by] = c.email)
        BY <1>1, <2>1 DEF SignInHolds
    <2>3. \/ ~served /\ Answer(t, "InvalidCredentials")
          \/ served /\ Answer(t, "TokenUnavailable")
        BY <1>3, <1>7 DEF RereadPerson
    <2> QED
        BY <1>2, <1>5, <2>1, <2>2, <2>3 DEF SessionTold
<1>8. CASE InsertSession(t)
    <2>1. c.op = "sign_in" /\ pc[t] = "sign_in_insert"
        BY <1>8 DEF InsertSession, At
    <2>2. c.by \in users /\ email[c.by] = c.email /\ Accepted(c)
        BY <1>1, <2>1 DEF SignInHolds
    <2>3. Answer(t, "Ok")
        BY <1>8, <2>2 DEF InsertSession
    <2> QED
        BY <1>2, <1>4, <1>5, <2>1, <2>2, <2>3 DEF SessionTold
<1>9. CASE RevokeSession(t)
    <2>1. c.op = "revoke_session" /\ pc[t] = "begin"
        BY <1>9 DEF RevokeSession, At
    <2>2. c.by # 0 /\ c.token \in Tokens
        BY <1>1, <2>1 DEF SessionsCourse, RequestTyped
    <2>3. session[c.token].actor = c.by => served
        BY <1>1, <2>2 DEF SessionsHavePeople, NoSession
    <2>4. Answer(t, "NoSession") \/ (session[c.token].actor = c.by /\ Answer(t, "Ok"))
        BY <1>9 DEF RevokeSession
    <2> QED
        BY <1>2, <2>1, <2>3, <2>4 DEF SessionTold
<1>10. CASE ReadMe(t)
    <2>1. c.op = "me" /\ pc[t] = "begin"
        BY <1>10 DEF ReadMe, At
    <2>2. c.by \in Actors
        BY <1>1, <2>1 DEF RequestTyped
    <2>3. (served /\ Answer(t, "Ok")) \/ Answer(t, "NoSession")
        BY <1>4, <1>10, <2>2 DEF ReadMe
    <2> QED
        BY <1>2, <2>1, <2>3 DEF SessionTold
<1> QED
    BY <1>3, <1>6, <1>7, <1>8, <1>9, <1>10 DEF SessionsStep

\* Where a request has come past its handler's checks.
Operating(t) == pc[t] \notin {"idle", "web_session", "web_body", "done"}

\* Every answer to a request, and what it rests on.
LEMMA WebAnswers ==
    ASSUME WebInvariant, WebNext, NEW t \in Tx, result'[t] # result[t], result'[t] # "none",
           call[t].op \in Routes \/ call'[t].op \in Routes
    PROVE  \/ OriginTold(t) /\ call[t].op \notin Routes
           \/ /\ call'[t] = call[t] /\ call[t].op \in Routes /\ pc[t] # "done"
              /\ \/ (InviterTold(t) \/ AcceptorTold(t)) /\ Operating(t)
                 \/ HandlerTold(t) \/ SessionTold(t) \/ result'[t] = "Cancelled"
                 \/ result'[t] = "Database" /\ InCircle(t)
<1>1. /\ AuthorityInvariant /\ PeopleInvariant /\ Shaped /\ LocksExclude /\ SessionsCourse
      /\ Stands(t)
    BY StandsNow DEF WebInvariant, AuthorityInvariant, PeopleInvariant, SessionsInvariant
<1>2. ASSUME NEW u \in Tx, PeopleStep(u)
      PROVE  u = t
    <2>1. Only(u)
        BY <1>1, <1>2, PeopleFrame
    <2> QED
        BY <2>1 DEF Only
<1>3. call[t].op \in Routes => call[t].op \in PeopleOperations /\ pc[t] # "idle"
    BY <1>1 DEF PeopleOperations, Stands, CourseStands, PeoplePoints
<1>4. CASE Begin(t) \/ Step(t) \/ Cancel(t)
    <2>1. call[t].op \in Routes
        <3>1. CASE Begin(t)
            BY <3>1 DEF Begin
        <3>2. CASE ~Begin(t)
            <4>1. UNCHANGED call
                BY <1>1, <1>4, <3>2, TenantKinds DEF Kinds, TakeLock, Over, End, Proceeds
            <4> QED
                BY <4>1
        <3> QED
            BY <3>1, <3>2
    <2> QED
        BY <1>1, <1>3, <1>4, <2>1, TenantTells
<1>5. CASE InvitesStep(t)
    <2>1. UNCHANGED call /\ (InviterTold(t) \/ AcceptorTold(t))
        BY <1>1, <1>5, InvitesTell
    <2> QED
        BY <1>5, <2>1, InviteFrom DEF Operating
<1>6. CASE WebStep(t)
    <2>1. HandlerTold(t) /\ UNCHANGED call /\ call[t].op \in Routes
        BY <1>6, HandlersTell
    <2>2. pc[t] # "done"
        BY <1>6 DEF WebStep, Authenticate, ReadSignIn, FilterAcceptance, HashPassword, At
    <2> QED
        BY <2>1, <2>2
<1>7. CASE SessionsStep(t)
    <2>1. SessionTold(t) /\ UNCHANGED call /\ call[t].op \in Routes
        BY <1>7, SessionsTell
    <2>2. pc[t] # "done"
        BY <1>7 DEF SessionsStep, ReadPerson, Verify, RereadPerson, InsertSession,
                    RevokeSession, ReadMe, At
    <2> QED
        BY <2>1, <2>2
<1>8. CASE Receive(t)
    <2>1. PICK r \in WebRequests :
              /\ pc[t] = "idle" /\ call' = [call EXCEPT ![t] = r]
              /\ result' = [result EXCEPT ![t] = IF checks_origin(r) /\ ~r.origin
                                                 THEN "BadOrigin" ELSE "none"]
        BY <1>8 DEF Receive
    <2>2. call'[t] = r /\ r.op \in Routes
        BY <1>1, <2>1, WebRequestsAssumption DEF Shaped
    <2>3. result'[t] = "BadOrigin" /\ checks_origin(r) /\ ~r.origin
        BY <1>1, <2>1 DEF Shaped
    <2> QED
        BY <1>3, <2>1, <2>2, <2>3 DEF OriginTold
<1>9. ASSUME NEW u \in Tx, (Begin(u) \/ Step(u) \/ Cancel(u)) /\ KeepInvites
      PROVE  Begin(t) \/ Step(t) \/ Cancel(t)
    BY <1>2, <1>9 DEF PeopleStep
<1>10. ASSUME NEW u \in Tx, InvitesStep(u)
       PROVE  InvitesStep(t)
    BY <1>2, <1>10 DEF PeopleStep
<1>11. ASSUME NEW u \in Tx, WebStep(u) \/ SessionsStep(u) \/ Receive(u)
       PROVE  WebStep(t) \/ SessionsStep(t) \/ Receive(t)
    <2>1. PeopleStep(u)
        BY <1>1, <1>11, SessionsStandAside, ReceiveAsks, HandlersStandAside DEF PeopleStep
    <2> QED
        BY <1>2, <1>11, <2>1
<1>12. ASSUME NEW u \in Tx, CallInvites(u)
       PROVE  FALSE
    BY <1>12 DEF CallInvites
<1>13. CASE (\E i \in InviteIds : Expire(i)) \/ \E k \in Tokens : ExpireSession(k)
    BY <1>13 DEF Expire, ExpireSession, inviteVars, vars
<1>14. CASE InvitesNext
    BY <1>4, <1>5, <1>9, <1>10, <1>12, <1>13, <1>14 DEF InvitesNext, Next
<1> QED
    BY <1>6, <1>7, <1>8, <1>11, <1>13, <1>14 DEF WebNext, SessionsNext

\* Whatever became of a stored hash, and whether there is one, argon2 runs once.
THEOREM VerificationsCost == WebSpec => []VerificationsCostTheSame
<1>1. WebInvariant => VerificationsCostTheSame
    <2> SUFFICES ASSUME WebInvariant, NEW t \in Tx, At(t, "verify", "sign_in"), NEW f \in Forms
                 PROVE  verify_with(call[t].password,
                                    [HashFor(call[t]) EXCEPT !.form = f]).work = 1
        BY DEF VerificationsCostTheSame
    <2>1. call[t].by = 0 \/ call[t].by \in Actors
        BY DEF WebInvariant, WebHolds, SignInHolds, At
    <2>2. DUMMY_PASSWORD_HASH \in PHCs
        BY DEF DUMMY_PASSWORD_HASH, PHCs, Forms, Passwords
    <2>3. HashFor(call[t]) \in PHCs
        BY <2>1, <2>2, StoredHashAssumption DEF HashFor
    <2> DEFINE h == [HashFor(call[t]) EXCEPT !.form = f]
    <2>4. h.form = f
        BY <2>3 DEF PHCs
    <2> HIDE DEF h
    <2>5. verify_with(call[t].password, h).work = 1
        BY <2>4 DEF verify_with, argon2, DUMMY_PASSWORD_HASH, Forms
    <2> QED
        BY <2>5 DEF h
<1> QED
    BY <1>1, HandlersAgree, PTL

\* A sign-in is told the truth: a departure between its two reads is a refusal and no
\* database error, and nobody but the person, with their password, gets a token.
THEOREM SignInsTrue == WebSpec => SignInsAreAnsweredTruly
<1> DEFINE A == \A t \in Tx :
                    LET c == call[t]
                        told(r) == c.op = "sign_in" /\ result[t] = "none" /\ result'[t] = r
                        there == /\ c.by \in users /\ email[c.by] = c.email
                                 /\ StoredHash[c.by] = [form |-> "whole", of |-> c.password]
                    IN /\ told("Ok") \/ told("TokenUnavailable") => there
                       /\ told("InvalidCredentials") => ~there
                       /\ told("Database") => \E S \in SUBSET Tx : t \in S /\ Circle(S)
<1>1. WebInvariant /\ [WebNext]_sessionVars => [A]_sessionVars
    <2> SUFFICES ASSUME WebInvariant, WebNext, NEW t \in Tx, call[t].op = "sign_in",
                        result[t] = "none",
                        result'[t] \in {"Ok", "TokenUnavailable", "InvalidCredentials", "Database"}
                 PROVE  LET c == call[t]
                            there == c.by \in users /\ email[c.by] = c.email /\ There(c)
                        IN /\ result'[t] \in {"Ok", "TokenUnavailable"} => there
                           /\ result'[t] = "InvalidCredentials" => ~there
                           /\ result'[t] = "Database" => InCircle(t)
        BY DEF InCircle, There
    <2>1. call[t].op \in Routes /\ call[t].op \notin Inviting
        BY RouteKinds, InviteNames
    <2>2. \/ InviterTold(t) \/ AcceptorTold(t) \/ HandlerTold(t) \/ SessionTold(t)
          \/ result'[t] = "Database" /\ InCircle(t)
        BY <2>1, WebAnswers
    <2>3. ~InviterTold(t) /\ ~AcceptorTold(t)
        BY <2>1 DEF InviterTold, AcceptorTold, Accepting
    <2>4. ~HandlerTold(t)
        BY DEF HandlerTold, Accepting, NeedsSession, Inviting
    <2>5. \A a \in users : actor[a] = "live"
        BY DEF WebInvariant, SessionsInvariant, PeopleInvariant, PeopleShaped, NobodyIsHalfCreated
    <2> QED
        BY <2>2, <2>3, <2>4, <2>5 DEF SessionTold
<1>2. WebSpec => [][A]_sessionVars
    BY <1>1, HandlersAgree, PTL DEF WebSpec
<1> QED
    BY <1>2 DEF SignInsAreAnsweredTruly

\* A request is served as somebody only while they are there: who left between the lookup
\* of the session and the operation is not.
THEOREM DepartedNotServed == WebSpec => DepartedAreNotServed
<1> DEFINE A == \A t \in Tx :
                    Answered(t) /\ call[t].op \in NeedsSession
                            /\ result'[t] \in {"Ok", "Forbidden"}
                        => actor[call[t].by] = "live" /\ call[t].by \in users
<1>1. WebInvariant /\ [WebNext]_sessionVars => [A]_sessionVars
    <2> SUFFICES ASSUME WebInvariant, WebNext, NEW t \in Tx, Answered(t),
                        call[t].op \in NeedsSession, result'[t] \in {"Ok", "Forbidden"}
                 PROVE  actor[call[t].by] = "live" /\ call[t].by \in users
        OBVIOUS
    <2>1. call[t].op \in Routes /\ call[t].op # "accept_invite" /\ call[t].op # "sign_in"
        BY RouteKinds
    <2>2. InviterTold(t) \/ AcceptorTold(t) \/ HandlerTold(t) \/ SessionTold(t)
        BY <2>1, WebAnswers DEF Answered
    <2>3. ~AcceptorTold(t)
        BY <2>1 DEF AcceptorTold, Accepting, NeedsSession
    <2>4. ~HandlerTold(t)
        BY DEF HandlerTold
    <2>5. \A a \in Actors : actor[a] = "live" => a \in users
        BY DEF WebInvariant, SessionsInvariant, PeopleInvariant, NobodyIsHalfCreated
    <2> QED
        BY <2>1, <2>2, <2>3, <2>4, <2>5 DEF SessionTold, InviterTold
<1>2. WebSpec => [][A]_sessionVars
    BY <1>1, HandlersAgree, PTL DEF WebSpec
<1> QED
    BY <1>2 DEF DepartedAreNotServed

\* The statuses, answer by answer.
LEMMA CommonStatus ==
    ASSUME NEW op
    PROVE  /\ Status(op, "Cancelled") = 0 /\ Status(op, "BadOrigin") = 403
           /\ Status(op, "InvalidBody") = 422 /\ Status(op, "NoIdentifier") = 404
           /\ Status(op, "NoSession") = 401 /\ Status(op, "Ok") = Success(op)
BY DEF Status, session_error

LEMMA ErrorStatus ==
    ASSUME NEW r, r \notin {"Ok", "Cancelled", "BadOrigin", "InvalidBody", "NoIdentifier",
                            "NoSession"}
    PROVE  /\ Status("me", r) = 500 /\ Status("revoke_session", r) = 500
           /\ Status("sign_in", r) = IF r = "InvalidCredentials" THEN 401 ELSE 500
           /\ Status("create_invite", r) = create_error(r)
           /\ Status("revoke_invite", r) = revoke_error(r)
           /\ Status("accept_invite", r) = accept_error(r)
BY DEF Status, session_error, sign_in_error
\* The answers a request can get.
RouteTells(q, r) ==
    \/ r \in {"Ok", "Cancelled", "Database"}
    \/ (q.op # "me" \/ q.upgrade) /\ r = "BadOrigin"
    \/ q.op \in NeedsSession /\ r = "NoSession"
    \/ q.op \in {"create_invite", "sign_in", "accept_invite"} /\ r = "InvalidBody"
    \/ q.op \in Inviting /\ r \in {"NoIdentifier", "NotAMember", "Forbidden"}
    \/ q.op = "create_invite" /\ r = "TokenUnavailable"
    \/ q.op = "revoke_invite" /\ r = "NotFound"
    \/ q.op = "sign_in" /\ r \in {"WorkerCrashed", "InvalidCredentials", "TokenUnavailable"}
    \/ q.op = "accept_invite" /\ r \in {"InviteUnusable", "EmailTaken", "HashFailed"}

LEMMA RouteDocuments ==
    ASSUME NEW q, q.op \in Routes, NEW r, RouteTells(q, r)
    PROVE  /\ Status(q.op, r) \in Documented(q)
           /\ Status(q.op, r) = 500 =>
                  r \in {"TokenUnavailable", "HashFailed", "WorkerCrashed", "Database"}
<1>1. CASE q.op = "me"
    BY <1>1, CommonStatus, ErrorStatus
    DEF RouteTells, NeedsSession, Inviting, Documented, Success
<1>2. CASE q.op = "revoke_session"
    BY <1>2, CommonStatus, ErrorStatus
    DEF RouteTells, NeedsSession, Inviting, Documented, Success
<1>3. CASE q.op = "sign_in"
    BY <1>3, CommonStatus, ErrorStatus
    DEF RouteTells, NeedsSession, Inviting, Documented, Success
<1>4. CASE q.op = "create_invite"
    BY <1>4, CommonStatus, ErrorStatus
    DEF RouteTells, NeedsSession, Inviting, Documented, Success, create_error
<1>5. CASE q.op = "revoke_invite"
    BY <1>5, CommonStatus, ErrorStatus
    DEF RouteTells, NeedsSession, Inviting, Documented, Success, revoke_error
<1>6. CASE q.op = "accept_invite"
    BY <1>6, CommonStatus, ErrorStatus
    DEF RouteTells, NeedsSession, Inviting, Documented, Success, accept_error
<1> QED
    BY <1>1, <1>2, <1>3, <1>4, <1>5, <1>6 DEF Routes, NeedsSession

LEMMA RouteAnswers ==
    ASSUME WebInvariant, WebNext, NEW t \in Tx, Answered(t)
    PROVE  /\ RouteTells(call'[t], result'[t])
           /\ result'[t] = "Database" => InCircle(t)
<1>1. CASE OriginTold(t)
    BY <1>1 DEF OriginTold, RouteTells, checks_origin, changes_state
<1>2. CASE ~OriginTold(t)
    <2>1. /\ call'[t] = call[t] /\ call[t].op \in Routes
          /\ \/ InviterTold(t) \/ AcceptorTold(t)
             \/ HandlerTold(t) \/ SessionTold(t) \/ result'[t] = "Cancelled"
             \/ result'[t] = "Database" /\ InCircle(t)
        BY <1>2, WebAnswers DEF Answered
    <2>2. call[t].op # "invite_is_usable"
        BY <2>1 DEF Routes, NeedsSession
    <2>3. CASE InviterTold(t)
        BY <2>1, <2>3 DEF InviterTold, RouteTells
    <2>4. CASE AcceptorTold(t)
        BY <2>1, <2>2, <2>4 DEF AcceptorTold, Accepting, RouteTells
    <2>5. CASE HandlerTold(t)
        BY <2>1, <2>5 DEF HandlerTold, Accepting, RouteTells
    <2>6. CASE SessionTold(t)
        BY <2>1, <2>6, RouteKinds DEF SessionTold, RouteTells
    <2> QED
        BY <2>1, <2>3, <2>4, <2>5, <2>6 DEF RouteTells
<1> QED
    BY <1>1, <1>2

\* Every route answers with a status its table lists, whatever happened since the session
\* or the invite was looked at, and 500 only where randomness or a worker failed or waits
\* went in a circle.
THEOREM AnswersDocumented == WebSpec => AnswersAsDocumented
<1> DEFINE A == \A t \in Tx :
                    LET r == result'[t]
                        s == Status(call'[t].op, r)
                    IN Answered(t) =>
                          /\ s \in Documented(call'[t])
                          /\ s = 500 =>
                                 \/ r \in {"TokenUnavailable", "HashFailed", "WorkerCrashed"}
                                 \/ \E S \in SUBSET Tx : t \in S /\ Circle(S)
<1>1. WebInvariant /\ [WebNext]_sessionVars => [A]_sessionVars
    <2> SUFFICES ASSUME WebInvariant, WebNext, NEW t \in Tx, Answered(t)
                 PROVE  LET r == result'[t]
                            s == Status(call'[t].op, r)
                        IN /\ s \in Documented(call'[t])
                           /\ s = 500 =>
                                  \/ r \in {"TokenUnavailable", "HashFailed", "WorkerCrashed"}
                                  \/ InCircle(t)
        BY DEF InCircle
    <2>1. call'[t].op \in Routes
        BY DEF Answered
    <2> QED
        BY <2>1, RouteAnswers, RouteDocuments
<1>2. WebSpec => [][A]_sessionVars
    BY <1>1, HandlersAgree, PTL DEF WebSpec
<1> QED
    BY <1>2 DEF AnswersAsDocumented
\* What a status says of the answer.
LEMMA StatusTells ==
    ASSUME NEW q, q.op \in Routes, NEW r, RouteTells(q, r)
    PROVE  /\ Status(q.op, r) = 403 <=> r \in {"BadOrigin", "Forbidden"}
           /\ Status(q.op, r) = 422 <=> r = "InvalidBody"
           /\ Status(q.op, r) = 409 => q.op = "accept_invite" /\ r = "EmailTaken"
           /\ q.op = "create_invite" /\ Status(q.op, r) \in {201, 404, 500} =>
                  r \in {"Ok", "NoIdentifier", "NotAMember", "TokenUnavailable", "Database"}
<1>1. CASE q.op = "me"
    BY <1>1, CommonStatus, ErrorStatus DEF RouteTells, NeedsSession, Inviting, Success
<1>2. CASE q.op = "revoke_session"
    BY <1>2, CommonStatus, ErrorStatus DEF RouteTells, NeedsSession, Inviting, Success
<1>3. CASE q.op = "sign_in"
    BY <1>3, CommonStatus, ErrorStatus DEF RouteTells, NeedsSession, Inviting, Success
<1>4. CASE q.op = "create_invite"
    BY <1>4, CommonStatus, ErrorStatus
    DEF RouteTells, NeedsSession, Inviting, Success, create_error
<1>5. CASE q.op = "revoke_invite"
    BY <1>5, CommonStatus, ErrorStatus
    DEF RouteTells, NeedsSession, Inviting, Success, revoke_error
<1>6. CASE q.op = "accept_invite"
    BY <1>6, CommonStatus, ErrorStatus
    DEF RouteTells, NeedsSession, Inviting, Success, accept_error
<1> QED
    BY <1>1, <1>2, <1>3, <1>4, <1>5, <1>6 DEF Routes, NeedsSession

\* Who waits in a circle has a statement that has not returned.
LEMMA CircleWaits ==
    ASSUME NEW t \in Tx, InCircle(t)
    PROVE  ~Returned(t)
BY DEF InCircle, Circle, Stuck, WaitsFor, Returned

\* Of an answered request that got past the origin check: what was checked before.
LEMMA FirstFailures ==
    ASSUME AllRouted, WebInvariant, WebNext, NEW t \in Tx, Answered(t), ~OriginTold(t)
    PROVE  LET r == call[t]
               s == result'[t]
           IN /\ call'[t] = r /\ s # "BadOrigin" /\ (checks_origin(r) => r.origin)
              /\ s = "InvalidBody" /\ r.op \in NeedsSession => resolve_session(r.cookie) # 0
              /\ /\ r.op = "create_invite"
                 /\ s \in {"Ok", "NoIdentifier", "NotAMember", "TokenUnavailable", "Database"}
                 => r.body = "ok"
              /\ s = "InvalidBody" /\ r.op = "accept_invite" /\ r.body = "fields"
                     => Usable(r.invite)
              /\ r.op = "accept_invite" /\ s = "EmailTaken" => r.body = "ok"
<1> DEFINE r == call[t]
           s == result'[t]
<1>1. /\ call'[t] = r /\ r.op \in Routes /\ pc[t] # "done"
      /\ \/ (InviterTold(t) \/ AcceptorTold(t)) /\ Operating(t)
         \/ HandlerTold(t) \/ SessionTold(t) \/ s = "Cancelled"
         \/ s = "Database" /\ InCircle(t)
    BY WebAnswers DEF Answered
<1>2. RequestHolds(t)
    BY DEF WebInvariant, WebHolds
<1>3. /\ checks_origin(r) => r.origin
      /\ Operating(t) \/ ~Returned(t) =>
             /\ r.op = "create_invite" => r.body = "ok"
             /\ r.op = "accept_invite" => r.body = "ok"
    BY <1>1, <1>2 DEF RequestHolds, Operating, well_formed
<1>4. "create_invite" \in NeedsSession /\ "accept_invite" \notin NeedsSession
    BY InviteNames, RouteKinds
<1>5. CASE (InviterTold(t) \/ AcceptorTold(t)) /\ Operating(t)
    BY <1>1, <1>3, <1>5 DEF InviterTold, AcceptorTold
<1>6. CASE HandlerTold(t)
    BY <1>1, <1>3, <1>4, <1>6, RouteKinds, InviteNames DEF HandlerTold, Accepting, well_formed
<1>7. CASE SessionTold(t)
    BY <1>1, <1>3, <1>7 DEF SessionTold
<1>8. CASE s = "Cancelled"
    BY <1>1, <1>3, <1>8
<1>9. CASE s = "Database" /\ InCircle(t)
    BY <1>1, <1>3, <1>9, CircleWaits
<1> QED
    BY <1>1, <1>5, <1>6, <1>7, <1>8, <1>9

\* Where every call comes through a route, the first failure wins: origin, credential,
\* body, operation; of an acceptance, the token's use before the other fields.
THEOREM FirstFailuresWin ==
    ASSUME AllRouted
    PROVE  WebSpec => FirstFailureWins
<1> DEFINE A == \A t \in Tx :
                    LET r == call'[t]
                        s == Status(r.op, result'[t])
                    IN Answered(t) =>
                          /\ (s = 403 /\ result'[t] # "Forbidden")
                                <=> (~r.origin /\ (r.op = "me" => r.upgrade))
                          /\ s = 422 /\ r.op \in NeedsSession => resolve_session(r.cookie) # 0
                          /\ s \in {201, 404, 500} /\ r.op = "create_invite" => r.body = "ok"
                          /\ s = 422 /\ r.op = "accept_invite" /\ r.body = "fields"
                                => Usable(r.invite)
                          /\ s = 409 => r.body = "ok"
<1>1. WebInvariant /\ [WebNext]_sessionVars => [A]_sessionVars
    <2> SUFFICES ASSUME WebInvariant, WebNext, NEW t \in Tx, Answered(t)
                 PROVE  LET r == call'[t]
                            s == Status(r.op, result'[t])
                        IN /\ (s = 403 /\ result'[t] # "Forbidden")
                                 <=> (~r.origin /\ (r.op = "me" => r.upgrade))
                           /\ s = 422 /\ r.op \in NeedsSession
                                 => resolve_session(r.cookie) # 0
                           /\ s \in {201, 404, 500} /\ r.op = "create_invite" => r.body = "ok"
                           /\ s = 422 /\ r.op = "accept_invite" /\ r.body = "fields"
                                 => Usable(r.invite)
                           /\ s = 409 => r.body = "ok"
        OBVIOUS
    <2> DEFINE r == call'[t]
               s == Status(r.op, result'[t])
    <2>1. r.op \in Routes /\ RouteTells(r, result'[t])
        BY RouteAnswers DEF Answered
    <2>2. /\ s = 403 <=> result'[t] \in {"BadOrigin", "Forbidden"}
          /\ s = 422 <=> result'[t] = "InvalidBody"
          /\ s = 409 => r.op = "accept_invite" /\ result'[t] = "EmailTaken"
          /\ r.op = "create_invite" /\ s \in {201, 404, 500} =>
                 result'[t] \in {"Ok", "NoIdentifier", "NotAMember", "TokenUnavailable",
                                 "Database"}
        BY <2>1, StatusTells
    <2> HIDE DEF s
    <2>3. CASE OriginTold(t)
        <3>1. result'[t] = "BadOrigin" /\ checks_origin(r) /\ ~r.origin
            BY <2>3 DEF OriginTold
        <3>2. s = 403 /\ ~(s \in {201, 404, 500}) /\ s # 422 /\ s # 409
            BY <2>2, <3>1
        <3> QED
            BY <3>1, <3>2 DEF s, checks_origin, changes_state
    <2>4. CASE ~OriginTold(t)
        <3>1. call[t] = r /\ result'[t] # "BadOrigin" /\ (checks_origin(r) => r.origin)
            BY <2>4, FirstFailures
        <3>2. /\ s = 422 /\ r.op \in NeedsSession => resolve_session(r.cookie) # 0
              /\ s = 422 /\ r.op = "accept_invite" /\ r.body = "fields" => Usable(r.invite)
            BY <2>2, <2>4, <3>1, FirstFailures
        <3>3. /\ s \in {201, 404, 500} /\ r.op = "create_invite" => r.body = "ok"
              /\ s = 409 => r.body = "ok"
            BY <2>2, <2>4, <3>1, FirstFailures
        <3> QED
            BY <2>2, <3>1, <3>2, <3>3 DEF s, checks_origin, changes_state
    <2> QED
        BY <2>3, <2>4
<1>2. WebSpec => [][A]_sessionVars
    BY <1>1, HandlersAgree, PTL DEF WebSpec
<1> QED
    BY <1>2 DEF FirstFailureWins
===============================================================================
