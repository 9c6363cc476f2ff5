--------------------------- MODULE DepartureProofs ----------------------------
(***************************************************************************)
(* Machine-checked proofs that DepartureInvariant is inductive, and what   *)
(* follows: departures erase, listings fit, an operation commits only for  *)
(* a performer that is an active member when it does, every change of a    *)
(* membership is a step of Governance, and only stray leavers wait in      *)
(* circles.                                                                *)
(***************************************************************************)
EXTENDS OwnerRuleProofs, Circles, WellFoundedInduction

----------------------------------------------------------------------------
(* The commits, each with all it writes.                                   *)

PerformerActive(t) == member[call[t].org][call[t].by].status = "active"

PerformerStays(t) == member'[call[t].org][call[t].by].status = "active"

Founded(t) ==
    LET c == call[t]
    IN /\ Founds(t) /\ At(t, "insert", "create_organization")
       /\ \A o \in Orgs : slug[o] # c.name
       /\ Commit(t, {organization_created(c.org), member_added(c.org, c.by, "owner")})
       /\ UNCHANGED <<users, team, teamMember, channel, channelMember>>

MemberEvent(t) ==
    LET c == call[t]
    IN IF c.op = "change_member_role"
       THEN member_role_changed(c.org, c.who, loc[t].from, c.role)
       ELSE IF c.op = "suspend_member" THEN member_suspended(c.org, c.who)
       ELSE member_reactivated(c.org, c.who)

MemberWritten(t) ==
    /\ WritesMember(t) /\ Returned(t) /\ PerformerActive(t) /\ PerformerStays(t)
    /\ Commit(t, {MemberEvent(t)})
    /\ UNCHANGED <<users, team, teamMember, channel, channelMember>>

TeamCreated(t) ==
    LET c == call[t]
    IN /\ At(t, "lock_organization", "create_team") /\ PerformerActive(t)
       /\ team' = [team EXCEPT ![c.team] = c.org]
       /\ Commit(t, {team_created(c.org, c.team)})
       /\ UNCHANGED <<actor, users, slug, member, teamMember, channel, channelMember, blind>>

NewTeamRole(c) ==
    IF c.op = "remove_team_member" THEN "none"
    ELSE IF c.op = "change_team_member_role" /\ teamMember[c.team][c.who] = "none"
         THEN "none" ELSE c.role

TeamMemberEvent(t) ==
    LET c == call[t]
    IN IF c.op = "add_team_member" THEN team_member_added(c.org, c.who, c.team, c.role)
       ELSE IF c.op = "change_team_member_role"
       THEN team_member_role_changed(c.org, c.who, c.team, loc[t].from, c.role)
       ELSE team_member_removed(c.org, c.who, c.team, "removed")

TeamMemberWritten(t) ==
    LET c == call[t]
    IN /\ pc[t] = "write" /\ Returned(t) /\ PerformerActive(t)
       /\ c.op \in {"add_team_member", "change_team_member_role", "remove_team_member"}
       /\ c.op = "remove_team_member" => teamMember[c.team][c.who] # "none"
       /\ teamMember' = [teamMember EXCEPT ![c.team][c.who] = NewTeamRole(c)]
       /\ Commit(t, {TeamMemberEvent(t)})
       /\ UNCHANGED <<actor, users, slug, member, team, channel, channelMember, blind>>

ChannelCreated(t) ==
    LET c == call[t]
    IN /\ At(t, "write", "create_channel") /\ PerformerActive(t) /\ ~NameTaken(c)
       /\ channel' = [channel EXCEPT ![c.channel] =
                          [org |-> c.org, team |-> c.team, name |-> c.name]]
       /\ Commit(t, {channel_created(c.org, c.channel, c.team)})
       /\ UNCHANGED <<actor, users, slug, member, team, teamMember, channelMember, blind>>

ChannelListed(t) ==
    LET c == call[t]
    IN /\ At(t, "write", "add_channel_member")
       /\ channelMember' = [channelMember EXCEPT ![c.channel] = @ \cup {c.who}]
       /\ Commit(t, {channel_member_added(c.org, c.who, c.channel)})
       /\ UNCHANGED <<actor, users, slug, member, team, teamMember, channel, blind>>

Left(t) == Departs(t) /\ LeaveCommit(t)

\* Events that are not those of a departure need an active performer.
LEMMA AdmittedActiveIn ==
    ASSUME NEW members, NEW listings, NEW by, NEW e,
           AuditAdmittedIn(members, listings, by, e),
           e.action # "organization.member.left", e.reason # "left_service"
    PROVE  e.org \in Orgs /\ members[e.org][by].status = "active"
BY DEF AuditAdmittedIn

LEMMA AdmittedActive ==
    ASSUME NEW by, NEW e, AuditAdmitted(by, e), e.action # "organization.member.left",
           e.reason # "left_service"
    PROVE  e.org \in Orgs /\ member[e.org][by].status = "active"
BY AdmittedActiveIn DEF AuditAdmitted

\* Whom row security lets change a membership and then record it is active before and
\* after: a performer that is no longer active cannot record, one that was not could
\* have written nothing but its departure.
LEMMA AdmittedStays ==
    ASSUME TypeOK, NEW by \in Actors, NEW o \in Orgs, NEW a \in Actors, NEW row, NEW updated,
           updated = [member EXCEPT ![o][a] = row],
           MemberUpdateAdmitted(by, o, a, row), updated[o][by].status = "active"
    PROVE  member[o][by].status = "active"
<1>1. member \in [Orgs -> [Actors -> MemberRows]]
  BY DEF TypeOK, TablesTypeOK
<1>2. CASE a = by
  <2>1. row.status = "active"
    BY <1>1, <1>2
  <2> QED
    BY <1>2, <2>1 DEF MemberUpdateAdmitted, fukulow_active_organizations
<1>3. CASE a # by
  BY <1>1, <1>3
<1> QED
  BY <1>2, <1>3

\* A commit of WriteMember is a MemberWritten.
LEMMA WriteMemberCommits ==
    ASSUME TypeOK, CourseOK, NEW t \in Tx, NEW role, NEW status,
           WriteMember(t, role, status, MemberEvent(t)), Returned(t),
           role = NewRole(call[t]), status = NewStatus(call[t]), pc[t] = "write",
           call[t].op \in {"change_member_role", "suspend_member", "reactivate_member"}
    PROVE  UNCHANGED <<tables, blind>> \/ MemberWritten(t)
<1>1. CASE Rollback(t, "Database")
  BY <1>1 DEF Rollback
<1> DEFINE row == SetColumns(member[call[t].org][call[t].who], role, status)
           updated == [member EXCEPT ![call[t].org][call[t].who] = row]
<1>2. CASE /\ MemberUpdateAdmitted(call[t].by, call[t].org, call[t].who, row)
           /\ AuditAdmittedIn(updated, channelMember, call[t].by, MemberEvent(t))
           /\ member' = updated
           /\ blind' = IF call[t].op = "reactivate_member" /\ loc[t].departed = "None"
                       THEN blind \cup {<<call[t].org, call[t].who>>} ELSE blind
           /\ Commit(t, {MemberEvent(t)})
           /\ UNCHANGED <<actor, users, slug, team, teamMember, channel, channelMember>>
  <2>1. WritesMember(t)
    BY <1>2 DEF WritesMember, Commit, Ends, Results
  <2>2. /\ MemberEvent(t).org = call[t].org
        /\ MemberEvent(t).action # "organization.member.left"
        /\ MemberEvent(t).reason # "left_service"
    BY DEF MemberEvent, member_role_changed, member_suspended, member_reactivated, NoEvent
  <2>3. updated[call[t].org][call[t].by].status = "active"
    <3> HIDE DEF updated
    <3> QED
      BY <1>2, <2>2, AdmittedActiveIn
  <2>4. PerformerActive(t)
    <3>1. call[t].org \in Orgs /\ call[t].by \in Actors /\ call[t].who \in Actors
      BY CallFacts DEF CourseOK, WithTarget
    <3>2. updated = [member EXCEPT ![call[t].org][call[t].who] = row]
      OBVIOUS
    <3> HIDE DEF row, updated
    <3> QED
      BY <1>2, <2>3, <3>1, <3>2, AdmittedStays DEF PerformerActive
  <2>5. PerformerStays(t)
    BY <1>2, <2>3 DEF PerformerStays
  <2> QED
    BY <1>2, <2>1, <2>4, <2>5 DEF MemberWritten
<1> QED
  BY <1>1, <1>2 DEF WriteMember

\* A commit of WriteTeamMember is a TeamMemberWritten.
LEMMA WriteTeamMemberCommits ==
    ASSUME NEW t \in Tx, NEW role, WriteTeamMember(t, role, TeamMemberEvent(t)),
           Returned(t), role = NewTeamRole(call[t]), pc[t] = "write",
           call[t].op \in {"add_team_member", "change_team_member_role",
                           "remove_team_member"},
           call[t].op = "remove_team_member" =>
               teamMember[call[t].team][call[t].who] # "none"
    PROVE  UNCHANGED <<tables, blind>> \/ TeamMemberWritten(t)
<1>1. CASE Rollback(t, "Database")
  BY <1>1 DEF Rollback
<1>2. CASE /\ AuditAdmitted(call[t].by, TeamMemberEvent(t))
           /\ teamMember' = [teamMember EXCEPT ![call[t].team][call[t].who] = role]
           /\ Commit(t, {TeamMemberEvent(t)})
           /\ UNCHANGED <<actor, users, slug, member, team, channel, channelMember, blind>>
  <2>1. /\ TeamMemberEvent(t).org = call[t].org
        /\ TeamMemberEvent(t).action # "organization.member.left"
        /\ TeamMemberEvent(t).reason # "left_service"
    BY DEF TeamMemberEvent, team_member_added, team_member_role_changed,
           team_member_removed, NoEvent
  <2>2. PerformerActive(t)
    BY <1>2, <2>1, AdmittedActive DEF PerformerActive
  <2> QED
    BY <1>2, <2>2 DEF TeamMemberWritten
<1> QED
  BY <1>1, <1>2 DEF WriteTeamMember

Committed(t) ==
    \/ Founded(t) \/ MemberWritten(t) \/ TeamCreated(t) \/ TeamMemberWritten(t)
    \/ ChannelCreated(t) \/ ChannelListed(t) \/ Left(t)

\* What the steps of identity.rs and membership.rs commit.
LEMMA MembershipCommits ==
    ASSUME TypeOK, CourseOK, NEW t \in Tx, MembershipStep(t)
    PROVE  UNCHANGED <<tables, blind>> \/ Founded(t) \/ MemberWritten(t)
<1>1. CASE CreateOrganization(t)
  BY <1>1 DEF CreateOrganization, Rollback, Start
<1>2. CASE InsertOrganization(t)
  <2>1. CASE Rollback(t, "SlugTaken")
    BY <2>1 DEF Rollback
  <2>2. CASE ~Rollback(t, "SlugTaken")
    <3>1. Founds(t)
      BY <1>2, <2>2 DEF InsertOrganization, Founds, Commit, Ends, Results, At
    <3> QED
      BY <1>2, <2>2, <3>1 DEF InsertOrganization, Founded
  <2> QED
    BY <2>1, <2>2
<1>3. CASE ChangeMemberRole(t) \/ SuspendMember(t) \/ ReactivateMember(t)
  BY <1>3 DEF ChangeMemberRole, SuspendMember, ReactivateMember, Decide, Rollback, Start
<1>4. CASE WriteMemberRole(t)
  BY <1>4, WriteMemberCommits DEF WriteMemberRole, At, NewRole, NewStatus, MemberEvent
<1>5. CASE WriteSuspension(t)
  BY <1>5, WriteMemberCommits DEF WriteSuspension, At, NewRole, NewStatus, MemberEvent
<1>6. CASE WriteReactivation(t)
  BY <1>6, WriteMemberCommits DEF WriteReactivation, At, NewRole, NewStatus, MemberEvent
<1> QED
  BY <1>1, <1>2, <1>3, <1>4, <1>5, <1>6 DEF MembershipStep

\* What the steps of teams.rs commit.
LEMMA TeamsCommits ==
    ASSUME NEW t \in Tx, TeamsStep(t)
    PROVE  UNCHANGED <<tables, blind>> \/ TeamCreated(t) \/ TeamMemberWritten(t)
<1>1. CASE CreateTeam(t)
  <2>1. CASE Rollback(t, "Database")
    BY <2>1 DEF Rollback
  <2>2. CASE AuditAdmitted(call[t].by, team_created(call[t].org, call[t].team))
    <3>0. /\ team_created(call[t].org, call[t].team).org = call[t].org
          /\ team_created(call[t].org, call[t].team).action = "team.created"
          /\ team_created(call[t].org, call[t].team).reason = "none"
      BY DEF team_created, NoEvent
    <3>1. PerformerActive(t)
      BY <2>2, <3>0, AdmittedActive DEF PerformerActive
    <3> QED
      BY <1>1, <2>2, <3>1 DEF CreateTeam, TeamCreated, Rollback
  <2> QED
    BY <1>1, <2>1, <2>2 DEF CreateTeam
<1>2. CASE AddTeamMember(t) \/ InsertTeamMember(t) \/ RemoveTeamMember(t)
  BY <1>2 DEF AddTeamMember, InsertTeamMember, RemoveTeamMember, Rollback, Start
<1>3. CASE ChangeTeamMemberRole(t)
  BY <1>3 DEF ChangeTeamMemberRole, Rollback, Start
<1>4. CASE WriteTeamMembership(t)
  BY <1>4, WriteTeamMemberCommits DEF WriteTeamMembership, At, NewTeamRole, TeamMemberEvent
<1>5. CASE WriteTeamRole(t)
  BY <1>5, WriteTeamMemberCommits DEF WriteTeamRole, At, NewTeamRole, TeamMemberEvent
<1>6. CASE WriteTeamRemoval(t)
  <2>1. CASE Rollback(t, "NotFound")
    BY <2>1 DEF Rollback
  <2> QED
    BY <1>6, <2>1, WriteTeamMemberCommits DEF WriteTeamRemoval, At, NewTeamRole, TeamMemberEvent
<1> QED
  BY <1>1, <1>2, <1>3, <1>4, <1>5, <1>6 DEF TeamsStep

\* What the steps of channels.rs commit.
LEMMA ChannelsCommits ==
    ASSUME NEW t \in Tx, ChannelsStep(t)
    PROVE  UNCHANGED <<tables, blind>> \/ ChannelCreated(t) \/ ChannelListed(t)
<1>1. CASE CreateChannel(t) \/ AddChannelMember(t)
  BY <1>1 DEF CreateChannel, AddChannelMember, Rollback, Start
<1>2. CASE WriteChannel(t)
  <2>1. CASE Rollback(t, WriteChannelRefusal(call[t]))
    BY <2>1 DEF Rollback
  <2>2. CASE WriteChannelRefusal(call[t]) = "none"
    <3>1. /\ AuditAdmitted(call[t].by,
                           channel_created(call[t].org, call[t].channel, call[t].team))
          /\ ~NameTaken(call[t])
      BY <2>2 DEF WriteChannelRefusal
    <3>2. PerformerActive(t)
      <4>1. PICK e : e = channel_created(call[t].org, call[t].channel, call[t].team)
        OBVIOUS
      <4>2. e.org = call[t].org /\ e.action = "channel.created" /\ e.reason = "none"
        BY <4>1 DEF channel_created, NoEvent
      <4> QED
        BY <3>1, <4>1, <4>2, AdmittedActive DEF PerformerActive
    <3> QED
      BY <1>2, <2>2, <3>1, <3>2 DEF WriteChannel, ChannelCreated
  <2> QED
    BY <1>2, <2>1, <2>2 DEF WriteChannel
<1>3. CASE WriteChannelMember(t)
  BY <1>3 DEF WriteChannelMember, ChannelListed, Rollback
<1> QED
  BY <1>1, <1>2, <1>3 DEF ChannelsStep

\* Every step leaves the tables alone or is one of the seven commits.
LEMMA CommitKinds ==
    ASSUME TypeOK, CourseOK, NEW t \in Tx, Begin(t) \/ Step(t) \/ Cancel(t)
    PROVE  UNCHANGED <<tables, blind>> \/ Committed(t)
<1>1. CASE Begin(t) \/ TakeLock(t) \/ DeadlockAbort(t) \/ Cancel(t) \/ LockOrganization(t)
  BY <1>1 DEF Begin, TakeLock, DeadlockAbort, Cancel, LockOrganization, Rollback, Start
<1>2. CASE LeavingStep(t)
  <2>1. CASE LeaveActor(t) \/ LeaveChecks(t)
    BY <2>1 DEF LeaveActor, LeaveChecks, Rollback, Start
  <2>2. CASE LeaveTeams(t) \/ LeaveAudit(t) \/ LeaveChannels(t)
    BY <2>2 DEF LeaveTeams, LeaveAudit, LeaveChannels, Rollback, Start
  <2>3. CASE LeaveCommit(t)
    <3>1. Departs(t)
      BY <2>3 DEF LeaveCommit, Departs, Commit, Ends, Results, Leaver, At
    <3> QED
      BY <2>3, <3>1 DEF Left, Committed
  <2> QED
    BY <1>2, <2>1, <2>2, <2>3 DEF LeavingStep
<1> QED
  BY <1>1, <1>2, MembershipCommits, TeamsCommits, ChannelsCommits DEF Step, Committed
----------------------------------------------------------------------------
(* What each commit does to each row.                                      *)

\* Each table is written by the commits that are about it.
LEMMA TablesChange ==
    ASSUME TypeOK, CourseOK, NEW t \in Tx, Begin(t) \/ Step(t) \/ Cancel(t)
    PROVE  /\ ~Left(t) => actor' = actor /\ users' = users
           /\ ~Founded(t) => slug' = slug
           /\ ~Founded(t) /\ ~MemberWritten(t) /\ ~Left(t) => member' = member
           /\ ~TeamCreated(t) => team' = team
           /\ ~TeamMemberWritten(t) /\ ~Left(t) => teamMember' = teamMember
           /\ ~ChannelCreated(t) => channel' = channel
           /\ ~ChannelListed(t) /\ ~Left(t) => channelMember' = channelMember
<1>1. CASE UNCHANGED <<tables, blind>>
  BY <1>1 DEF tables
<1>2. CASE Founded(t) \/ MemberWritten(t)
  BY <1>2 DEF Founded, MemberWritten, Founds, WritesMember
<1>3. CASE TeamCreated(t) \/ TeamMemberWritten(t) \/ ChannelCreated(t) \/ ChannelListed(t)
  BY <1>3 DEF TeamCreated, TeamMemberWritten, ChannelCreated, ChannelListed
<1>4. CASE Left(t)
  BY <1>4 DEF Left, LeaveCommit
<1> QED
  BY <1>1, <1>2, <1>3, <1>4, CommitKinds DEF Committed

\* Creating a team changes that team.
LEMMA TeamCreatedRows ==
    ASSUME TypeOK, CourseOK, NEW t \in Tx, TeamCreated(t), NEW tm \in Teams
    PROVE  /\ call[t].org \in Orgs /\ call[t].team \in Teams
           /\ team'[tm] = IF tm = call[t].team THEN call[t].org ELSE team[tm]
<1>1. call[t].org \in Orgs /\ call[t].team \in Teams
  BY CallFacts DEF TeamCreated, At, CourseOK, WithTeam
<1> QED
  BY <1>1 DEF TeamCreated, TypeOK, TablesTypeOK

\* Writing a team row changes that row.
LEMMA TeamMemberRows ==
    ASSUME TypeOK, CourseOK, NEW t \in Tx, TeamMemberWritten(t), NEW tm \in Teams,
           NEW a \in Actors
    PROVE  /\ call[t].org \in Orgs /\ call[t].team \in Teams /\ call[t].who \in Actors
           /\ call[t].op # "remove_team_member" => call[t].role \in TeamRoles
           /\ teamMember'[tm][a] = IF tm = call[t].team /\ a = call[t].who
                                   THEN NewTeamRole(call[t]) ELSE teamMember[tm][a]
<1>1. /\ call[t].org \in Orgs /\ call[t].team \in Teams /\ call[t].who \in Actors
      /\ call[t].op # "remove_team_member" => call[t].role \in TeamRoles
  BY CallFacts DEF TeamMemberWritten, CourseOK, WithTeam, WithTarget
<1> QED
  BY <1>1 DEF TeamMemberWritten, TypeOK, TablesTypeOK

\* Creating a channel changes that channel.
LEMMA ChannelCreatedRows ==
    ASSUME TypeOK, CourseOK, NEW t \in Tx, ChannelCreated(t), NEW ch \in Channels
    PROVE  /\ call[t].org \in Orgs /\ call[t].channel \in Channels
           /\ call[t].team \in Teams \cup {0} /\ call[t].name \in Names
           /\ channel'[ch] = IF ch = call[t].channel
                             THEN [org |-> call[t].org, team |-> call[t].team,
                                   name |-> call[t].name]
                             ELSE channel[ch]
<1>1. /\ call[t].org \in Orgs /\ call[t].channel \in Channels
      /\ call[t].team \in Teams \cup {0} /\ call[t].name \in Names
  BY CallFacts DEF ChannelCreated, At, CourseOK
<1> QED
  BY <1>1 DEF ChannelCreated, TypeOK, TablesTypeOK

\* Listing an actor changes one channel, by that actor.
LEMMA ChannelListedRows ==
    ASSUME TypeOK, CourseOK, NEW t \in Tx, ChannelListed(t), NEW ch \in Channels
    PROVE  /\ call[t].org \in Orgs /\ call[t].channel \in Channels /\ call[t].who \in Actors
           /\ channelMember'[ch] = IF ch = call[t].channel
                                   THEN channelMember[ch] \cup {call[t].who}
                                   ELSE channelMember[ch]
<1>1. call[t].org \in Orgs /\ call[t].channel \in Channels /\ call[t].who \in Actors
  BY CallFacts DEF ChannelListed, At, CourseOK, WithTarget
<1> QED
  BY <1>1 DEF ChannelListed, TypeOK, TablesTypeOK

\* A departure changes what its loop has found, of the leaver's rows.
LEMMA LeftRows ==
    ASSUME TypeOK, CourseOK, NEW t \in Tx, Left(t), NEW a \in Actors
    PROVE  /\ call[t].by \in Actors /\ pc[t] = "leave_next" /\ Returned(t)
           /\ call[t].op = "leave_service"
           /\ loc[t].rest = {} /\ loc[t].listed = {}
           /\ actor'[a] = IF a = call[t].by THEN "departed" ELSE actor[a]
           /\ users' = users \ {call[t].by}
           /\ \A o \in Orgs :
                  member'[o][a] = IF a = call[t].by /\ o \in loc[t].memberships
                                  THEN SetColumns(member[o][a], member[o][a].role, "left")
                                  ELSE member[o][a]
           /\ \A tm \in Teams :
                  teamMember'[tm][a] = IF a = call[t].by /\ tm \in loc[t].removed
                                       THEN "none" ELSE teamMember[tm][a]
           /\ \A ch \in Channels :
                  a \in channelMember'[ch] <=>
                      a \in channelMember[ch] /\ ~(a = call[t].by /\ ch \in loc[t].unlisted)
<1>1. /\ call[t].by \in Actors /\ pc[t] = "leave_next" /\ Returned(t)
      /\ call[t].op = "leave_service"
      /\ loc[t].rest = {} /\ loc[t].listed = {}
      /\ users' = users \ {call[t].by}
      /\ actor' = [actor EXCEPT ![call[t].by] = "departed"]
  BY CallFacts DEF Left, LeaveCommit, Leaver, At, CourseOK
<1>2. member' = [o \in Orgs |-> IF o \in loc[t].memberships
                     THEN [member[o] EXCEPT ![call[t].by] = SetColumns(@, @.role, "left")]
                     ELSE member[o]]
  BY DEF Left, LeaveCommit, Leaver
<1>3. teamMember' = [tm \in Teams |-> IF tm \in loc[t].removed
                         THEN [teamMember[tm] EXCEPT ![call[t].by] = "none"]
                         ELSE teamMember[tm]]
  BY DEF Left, LeaveCommit, Leaver
<1>4. channelMember' = [ch \in Channels |-> IF ch \in loc[t].unlisted
                            THEN channelMember[ch] \ {call[t].by} ELSE channelMember[ch]]
  BY DEF Left, LeaveCommit, ListingsLeft, Leaver
<1>5. actor'[a] = IF a = call[t].by THEN "departed" ELSE actor[a]
  BY <1>1 DEF TypeOK, TablesTypeOK
<1>6. ASSUME NEW o \in Orgs
      PROVE  member'[o][a] = IF a = call[t].by /\ o \in loc[t].memberships
                             THEN SetColumns(member[o][a], member[o][a].role, "left")
                             ELSE member[o][a]
  BY <1>1, <1>2 DEF TypeOK, TablesTypeOK
<1>7. ASSUME NEW tm \in Teams
      PROVE  teamMember'[tm][a] = IF a = call[t].by /\ tm \in loc[t].removed
                                  THEN "none" ELSE teamMember[tm][a]
  BY <1>1, <1>3 DEF TypeOK, TablesTypeOK
<1> QED
  BY <1>1, <1>4, <1>5, <1>6, <1>7

----------------------------------------------------------------------------
(* What locks keep others from doing.                                      *)

\* A leaver's own lock excludes every other lock of its actor row.
LEMMA LeaverAlone ==
    ASSUME OwnerInvariant, NEW t \in Tx, NEW u \in Tx, t # u, Leaving(u),
           NEW a \in Actors, held[t][ActorRow(a)] >= KeyShare
    PROVE  a # call[u].by
<1>1. TypeOK /\ CourseOK /\ LocksExclude /\ LeaverLocked
  BY DEF OwnerInvariant
<1>2. held[u][ActorRow(call[u].by)] >= Update /\ ActorRow(a) \in Rows
  BY <1>1, RowFacts DEF LeaverLocked
<1> QED
  BY <1>1, <1>2, OneUpdater

\* A stronger lock is a lock.
LEMMA Weaker ==
    ASSUME TypeOK, NEW t \in Tx, NEW r \in Rows, NEW m \in Modes, held[t][r] >= m
    PROVE  held[t][r] >= KeyShare
<1>1. held[t][r] \in 0 .. Update
  BY DEF TypeOK, LocksTypeOK
<1> QED
  BY <1>1 DEF Modes, KeyShare, Update

\* At its commit a leaver holds every organization it has a row in.
LEMMA LeaverHoldsAll ==
    ASSUME DepartureInvariant, NEW t \in Tx, Left(t), NEW o \in Orgs,
           member[o][call[t].by] # NoMember
    PROVE  held[t][OrgRow(o)] >= KeyShare /\ o \in loc[t].memberships
<1>1. TypeOK /\ CourseOK /\ MembershipsFound
  BY DEF DepartureInvariant, OwnerInvariant
<1>2. Looping(t) /\ loc[t].rest = {} /\ Returned(t)
  BY DEF Left, LeaveCommit, At, Looping
<1>3. o \in loc[t].memberships \ loc[t].rest
  BY <1>1, <1>2 DEF MembershipsFound
<1>4. Claims(t, OrgRow(o), KeyShare)
  BY <1>1, <1>2, <1>3 DEF MembershipsFound
<1> QED
  BY <1>2, <1>3, <1>4, ReturnedHolds

(***************************************************************************)
(* While u holds an organization for update nobody else changes a          *)
(* membership row of it: every operation takes the same lock, and a        *)
(* departure shares it for each row it makes "left".                       *)
(***************************************************************************)
LEMMA MembersStand ==
    ASSUME DepartureInvariant, NEW t \in Tx, Begin(t) \/ Step(t) \/ Cancel(t),
           NEW u \in Tx, u # t, NEW o \in Orgs, held[u][OrgRow(o)] >= Update,
           NEW a \in Actors, member[o][a] # NoMember
    PROVE  member'[o][a] = member[o][a]
<1>1. /\ TypeOK /\ CourseOK /\ LocksExclude /\ OrganizationLocked /\ FoundingFresh
      /\ OrgRow(o) \in Rows
  BY RowFacts DEF DepartureInvariant, OwnerInvariant
<1>2. ~(held[t][OrgRow(o)] >= KeyShare)
  BY <1>1, OneUpdater
<1>3. CASE Founded(t)
  <2>1. Founds(t) /\ member[call[t].org][a] = NoMember
    BY <1>1, <1>3 DEF FoundingFresh, Founds, Founded
  <2> QED
    BY <1>1, <2>1, FoundsRows
<1>4. CASE MemberWritten(t)
  <2>1. WritesMember(t)
    BY <1>4 DEF MemberWritten
  <2>2. CASE o = call[t].org
    <3>1. held[t][OrgRow(o)] >= Update
      BY <1>1, <2>1, <2>2 DEF OrganizationLocked, WritesMember
    <3> QED
      BY <1>1, <1>2, <3>1, Weaker, ModeFacts
  <2> QED
    BY <1>1, <2>1, <2>2, WritesRows
<1>5. CASE Left(t)
  <2>1. a # call[t].by
    BY <1>2, <1>5, LeaverHoldsAll
  <2> QED
    BY <1>1, <1>5, <2>1, LeftRows
<1> QED
  BY <1>1, <1>3, <1>4, <1>5, TablesChange
----------------------------------------------------------------------------
(* The steps of the loop of leave_service, with all they assign.           *)

SameLoop(t, fields) ==
    /\ UNCHANGED <<tables, blind, held, call>> /\ Returned(t)
    /\ "memberships" \in fields => loc'[t].memberships = loc[t].memberships
                                       /\ loc'[t].current = loc[t].current
    /\ "rest" \in fields => loc'[t].rest = loc[t].rest
    /\ "removing" \in fields => loc'[t].removing = loc[t].removing
    /\ "removed" \in fields => loc'[t].removed = loc[t].removed
    /\ "listed" \in fields => loc'[t].listed = loc[t].listed
                                  /\ loc'[t].unlisted = loc[t].unlisted

EntersLoop(t) ==
    /\ pc[t] = "leave_orgs" /\ pc'[t] = "leave_next" /\ SameLoop(t, {"removed"})
    /\ loc'[t].memberships = {o \in Orgs : member[o][call[t].by] # NoMember}
    /\ loc'[t].rest = loc'[t].memberships
    /\ loc'[t].current = {o \in loc'[t].memberships : member[o][call[t].by].status # "left"}
    /\ loc'[t].listed = {o \in Orgs : \E ch \in Channels :
                             channel[ch].org = o /\ call[t].by \in channelMember[ch]}
    /\ loc'[t].unlisted = loc[t].unlisted
    /\ todo'[t].rows = {}

StartsOrganization(t) ==
    \E o \in loc[t].rest :
        /\ pc[t] = "leave_next" /\ pc'[t] = "leave_audit"
        /\ SameLoop(t, {"memberships", "rest", "removed", "listed"})
        /\ NextOf(loc[t].rest, o)
        /\ loc'[t].removing =
               {tm \in Teams : team[tm] = o /\ teamMember[tm][call[t].by] # "none"}
        /\ todo'[t] = Statement(Update,
                          {TeamMemberRow(tm, call[t].by) : tm \in loc'[t].removing})

StillThere(t) == {tm \in loc[t].removing : teamMember[tm][call[t].by] # "none"}

RecordsOrganization(t) ==
    \E o \in loc[t].rest :
        /\ pc[t] = "leave_audit" /\ pc'[t] = "leave_next"
        /\ SameLoop(t, {"memberships", "listed"})
        /\ NextOf(loc[t].rest, o)
        /\ loc'[t].rest = loc[t].rest \ {o}
        /\ loc'[t].removed = loc[t].removed \cup StillThere(t)
        /\ loc'[t].removing = {}
        /\ todo'[t] = Statement(KeyShare,
                          {OrgRow(e.org) : e \in LeaveAudits(t, o, StillThere(t))})

RecordsChannels(t) ==
    \E o \in loc[t].listed :
        /\ pc[t] = "leave_next" /\ pc'[t] = "leave_next"
        /\ SameLoop(t, {"memberships", "rest", "removing", "removed"})
        /\ loc'[t].listed = loc[t].listed \ {o}
        /\ loc'[t].unlisted = loc[t].unlisted \cup
               {ch \in Channels : channel[ch].org = o /\ call[t].by \in channelMember[ch]}
        /\ \A r \in todo'[t].rows :
               r = OrgRow(o) /\ \E ch \in loc'[t].unlisted : channel[ch].org = o

\* Whoever is in the loop after a step took a lock or made one of those steps.
LEMMA LoopActs ==
    ASSUME TypeOK, CourseOK, NEW t \in Tx, Begin(t) \/ Step(t) \/ Cancel(t),
           pc'[t] \in {"leave_next", "leave_audit"}
    PROVE  \/ TakeLock(t) \/ EntersLoop(t) \/ StartsOrganization(t)
           \/ RecordsOrganization(t) \/ RecordsChannels(t)
<1>1. ASSUME NEW r, Rollback(t, r) PROVE FALSE
  BY <1>1 DEF Rollback, End, TypeOK, ControlTypeOK
<1>2. ASSUME NEW events, Commit(t, events) PROVE FALSE
  BY <1>2 DEF Commit, End, TypeOK, ControlTypeOK
<1>3. ~Begin(t)
  BY DEF Begin, TypeOK, ControlTypeOK
<1>4. ~DeadlockAbort(t) /\ ~Cancel(t)
  BY <1>1 DEF DeadlockAbort, Cancel
<1>5. ~LockOrganization(t)
  BY <1>1 DEF LockOrganization, Start, TypeOK, ControlTypeOK
<1>6. ~MembershipStep(t) /\ ~TeamsStep(t) /\ ~ChannelsStep(t)
  <2>1. Ends(t) => FALSE
    BY DEF Ends, End, TypeOK, ControlTypeOK
  <2>2. (Advances(t) \/ ToSlug(t)) => FALSE
    BY DEF Advances, ToSlug, Moves, TypeOK, ControlTypeOK
  <2> QED
    BY <2>1, <2>2, MembershipKinds, TeamsKinds, ChannelsKinds
<1>7. loc \in [Tx -> Locals] /\ loc[t] \in Locals /\ todo \in [Tx -> [mode : Modes, rows : SUBSET Rows]]
      /\ pc \in [Tx -> Points]
  BY DEF TypeOK, ControlTypeOK, LocksTypeOK
<1>8. CASE LeaveActor(t)
  BY <1>1, <1>8, <1>7 DEF LeaveActor, Start
<1>9. CASE LeaveChecks(t)
  <2> DEFINE R == {o \in Orgs : member[o][call[t].by] # NoMember}
             C == {o \in R : member[o][call[t].by].status # "left"}
             L == {o \in Orgs : \E ch \in Channels :
                       channel[ch].org = o /\ call[t].by \in channelMember[ch]}
  <2>1. /\ At(t, "leave_orgs", "leave_service")
        /\ loc' = [loc EXCEPT ![t].memberships = R, ![t].rest = R,
                              ![t].current = C, ![t].listed = L]
        /\ Start(t, "leave_next", Update, {})
    BY <1>1, <1>9 DEF LeaveChecks, Leaver
  <2>2. /\ C = {o \in R : member[o][call[t].by].status # "left"}
        /\ R = {o \in Orgs : member[o][call[t].by] # NoMember}
        /\ L = {o \in Orgs : \E ch \in Channels :
                       channel[ch].org = o /\ call[t].by \in channelMember[ch]}
    OBVIOUS
  <2> HIDE DEF R, C, L
  <2>3. loc' = [loc EXCEPT ![t] = [loc[t] EXCEPT !.memberships = R, !.rest = R,
                                                 !.current = C, !.listed = L]]
    BY <2>1, <1>7
  <2>4. /\ loc'[t].memberships = R /\ loc'[t].rest = R
        /\ loc'[t].current = C /\ loc'[t].listed = L
        /\ loc'[t].removed = loc[t].removed /\ loc'[t].unlisted = loc[t].unlisted
    BY <2>3, <1>7 DEF Locals
  <2>5. /\ pc[t] = "leave_orgs" /\ pc'[t] = "leave_next" /\ todo'[t].rows = {}
        /\ UNCHANGED <<tables, blind, held, call>> /\ Returned(t)
    BY <2>1, <1>7 DEF At, Start, Statement
  <2> QED
    BY <2>2, <2>4, <2>5 DEF EntersLoop, SameLoop
<1>10. CASE LeaveTeams(t)
  <2>1. PICK o \in loc[t].rest :
            LET rows == {tm \in Teams : team[tm] = o /\ teamMember[tm][call[t].by] # "none"}
            IN /\ At(t, "leave_next", "leave_service") /\ NextOf(loc[t].rest, o)
               /\ loc' = [loc EXCEPT ![t].removing = rows]
               /\ Start(t, "leave_audit", Update, {TeamMemberRow(tm, call[t].by) : tm \in rows})
    BY <1>10 DEF LeaveTeams, Leaver
  <2> DEFINE rows == {tm \in Teams : team[tm] = o /\ teamMember[tm][call[t].by] # "none"}
  <2>2. rows = {tm \in Teams : team[tm] = o /\ teamMember[tm][call[t].by] # "none"}
    OBVIOUS
  <2>3. /\ At(t, "leave_next", "leave_service") /\ NextOf(loc[t].rest, o)
        /\ loc' = [loc EXCEPT ![t].removing = rows]
        /\ Start(t, "leave_audit", Update, {TeamMemberRow(tm, call[t].by) : tm \in rows})
    BY <2>1
  <2> HIDE DEF rows
  <2>4. /\ loc'[t].removing = rows /\ loc'[t].memberships = loc[t].memberships
        /\ loc'[t].current = loc[t].current /\ loc'[t].rest = loc[t].rest
        /\ loc'[t].removed = loc[t].removed /\ loc'[t].listed = loc[t].listed
        /\ loc'[t].unlisted = loc[t].unlisted
    BY <2>3, <1>7 DEF Locals
  <2>5. /\ pc[t] = "leave_next" /\ pc'[t] = "leave_audit"
        /\ UNCHANGED <<tables, blind, held, call>> /\ Returned(t)
        /\ todo'[t] = Statement(Update, {TeamMemberRow(tm, call[t].by) : tm \in rows})
    BY <2>3, <1>7 DEF At, Start
  <2> QED
    BY <2>2, <2>3, <2>4, <2>5 DEF StartsOrganization, SameLoop
<1>11. CASE LeaveAudit(t)
  <2>1. PICK o \in loc[t].rest :
            /\ At(t, "leave_audit", "leave_service") /\ NextOf(loc[t].rest, o)
            /\ loc' = [loc EXCEPT ![t].rest = @ \ {o}, ![t].removing = {},
                                  ![t].removed = @ \cup StillThere(t)]
            /\ Start(t, "leave_next", KeyShare,
                     {OrgRow(e.org) : e \in LeaveAudits(t, o, StillThere(t))})
    BY <1>1, <1>11 DEF LeaveAudit, Leaver, StillThere
  <2>2. /\ loc'[t].rest = loc[t].rest \ {o} /\ loc'[t].removing = {}
        /\ loc'[t].removed = loc[t].removed \cup StillThere(t)
        /\ loc'[t].memberships = loc[t].memberships /\ loc'[t].current = loc[t].current
        /\ loc'[t].listed = loc[t].listed /\ loc'[t].unlisted = loc[t].unlisted
    BY <2>1, <1>7 DEF Locals
  <2>3. /\ pc[t] = "leave_audit" /\ pc'[t] = "leave_next"
        /\ UNCHANGED <<tables, blind, held, call>> /\ Returned(t)
        /\ todo'[t] = Statement(KeyShare,
                          {OrgRow(e.org) : e \in LeaveAudits(t, o, StillThere(t))})
    BY <2>1, <1>7 DEF At, Start
  <2> QED
    BY <2>1, <2>2, <2>3 DEF RecordsOrganization, SameLoop
<1>12. CASE LeaveChannels(t)
  <2>1. PICK o \in loc[t].listed :
            LET listings == ListedIn(t, o)
            IN /\ At(t, "leave_next", "leave_service")
               /\ loc' = [loc EXCEPT ![t].listed = @ \ {o}, ![t].unlisted = @ \cup listings]
               /\ Start(t, "leave_next", KeyShare,
                        {OrgRow(e.org) : e \in {channel_member_left(o, call[t].by, ch) :
                                                    ch \in listings}})
    BY <1>1, <1>12 DEF LeaveChannels, Leaver
  <2> DEFINE listings == ListedIn(t, o)
             rows == {OrgRow(e.org) : e \in {channel_member_left(o, call[t].by, ch) :
                                                 ch \in listings}}
             known == {ch \in Channels : channel[ch].org = o
                                            /\ call[t].by \in channelMember[ch]}
  <2>2. \A ch \in Channels :
            ch \in listings <=> ch \in known /\ ch \notin loc[t].unlisted
    BY DEF ListedIn, ListingsLeft, Leaver
  <2>3. /\ At(t, "leave_next", "leave_service")
        /\ loc' = [loc EXCEPT ![t].listed = @ \ {o}, ![t].unlisted = @ \cup listings]
        /\ Start(t, "leave_next", KeyShare, rows)
    BY <2>1
  <2>4. \A r \in rows : r = OrgRow(o) /\ \E ch \in listings : channel[ch].org = o
    BY DEF ListedIn, channel_member_left, NoEvent
  <2> HIDE DEF rows
  <2> HIDE DEF listings
  <2>5. /\ loc'[t].listed = loc[t].listed \ {o}
        /\ loc'[t].unlisted = loc[t].unlisted \cup listings
        /\ loc'[t].memberships = loc[t].memberships /\ loc'[t].current = loc[t].current
        /\ loc'[t].rest = loc[t].rest /\ loc'[t].removing = loc[t].removing
        /\ loc'[t].removed = loc[t].removed
    BY <2>3, <1>7 DEF Locals
  <2>6. /\ pc[t] = "leave_next" /\ pc'[t] = "leave_next"
        /\ UNCHANGED <<tables, blind, held, call>> /\ Returned(t)
        /\ todo'[t].rows = rows
    BY <2>3, <1>7 DEF At, Start, Statement
  <2>7. \A r \in todo'[t].rows :
            r = OrgRow(o) /\ \E ch \in loc'[t].unlisted : channel[ch].org = o
    BY <2>4, <2>5, <2>6
  <2>8. loc'[t].unlisted = loc[t].unlisted \cup known
    <3>1. listings \subseteq Channels /\ known \subseteq Channels
      BY DEF listings, ListedIn
    <3> HIDE DEF known
    <3> QED
      BY <2>2, <2>5, <3>1
  <2> QED
    BY <2>5, <2>6, <2>7, <2>8 DEF RecordsChannels, SameLoop
<1>13. CASE LeaveCommit(t)
  BY <1>2, <1>13 DEF LeaveCommit
<1> QED
  BY <1>3, <1>4, <1>5, <1>6, <1>8, <1>9, <1>10, <1>11, <1>12, <1>13 DEF Step, LeavingStep
----------------------------------------------------------------------------
(* The decisions of the other operations.                                  *)

Decides(t) ==
    LET c == call[t]
    IN /\ UNCHANGED <<tables, blind, held, call>> /\ Returned(t)
       /\ loc'[t].departed = loc[t].departed
       /\ \/ /\ pc[t] = "lock_actor" /\ pc'[t] = "insert" /\ c.op = "create_organization"
             /\ CreateOrganizationRefusal(t) = "none"
             /\ todo'[t].rows = {SlugKey(c.name)}
          \/ /\ pc[t] = "lock_organization" /\ pc'[t] = "write"
             /\ c.op = "change_member_role" /\ ChangeMemberRoleRefusal(t) = "none"
             /\ Target(t).role # c.role /\ loc'[t].from = Target(t).role
             /\ todo'[t].rows = {}
          \/ /\ pc[t] = "lock_organization" /\ pc'[t] = "write"
             /\ c.op = "suspend_member" /\ SuspendMemberRefusal(t) = "none"
             /\ todo'[t].rows = {}
          \/ /\ pc[t] = "lock_organization" /\ pc'[t] = "write"
             /\ c.op = "reactivate_member" /\ ReactivateMemberRefusal(t) = "none"
             /\ todo'[t].rows = {}
          \/ /\ pc[t] = "lock_organization" /\ pc'[t] = "insert"
             /\ c.op = "add_team_member" /\ AddTeamMemberRefusal(t) = "none"
             /\ todo'[t] = Statement(Update, {TeamMemberRow(c.team, c.who)})
          \/ /\ pc[t] = "insert" /\ pc'[t] = "write"
             /\ c.op = "add_team_member" /\ teamMember[c.team][c.who] = "none"
             /\ todo'[t] = Statement(KeyShare, {ActorRow(c.who)})
          \/ /\ pc[t] = "lock_organization" /\ pc'[t] = "write"
             /\ c.op = "change_team_member_role" /\ loc'[t].from = Listing(t)
             /\ Listing(t) \notin {"none", c.role}
             /\ todo'[t] = Statement(NoKeyUpdate, {TeamMemberRow(c.team, c.who)})
          \/ /\ pc[t] = "lock_organization" /\ pc'[t] = "write"
             /\ c.op = "remove_team_member" /\ Listing(t) # "none"
             /\ todo'[t] = Statement(Update, {TeamMemberRow(c.team, c.who)})
          \/ /\ pc[t] = "lock_organization" /\ pc'[t] = "write"
             /\ c.op = "create_channel" /\ CreateChannelRefusal(c) = "none"
          \/ /\ pc[t] = "lock_organization" /\ pc'[t] = "write"
             /\ c.op = "add_channel_member" /\ AddChannelMemberRefusal(t) = "none"

\* Who is about to write, and takes no lock, has just decided.
LEMMA WriterActs ==
    ASSUME TypeOK, CourseOK, NEW t \in Tx, Begin(t) \/ Step(t) \/ Cancel(t),
           pc'[t] \in {"insert", "write"}
    PROVE  TakeLock(t) \/ Decides(t)
<1>1. ASSUME NEW r, Rollback(t, r) PROVE FALSE
  BY <1>1 DEF Rollback, End, TypeOK, ControlTypeOK
<1>2. ASSUME NEW r, End(t, r) PROVE FALSE
  BY <1>2 DEF End, TypeOK, ControlTypeOK
<1>3. ASSUME NEW events, Commit(t, events) PROVE FALSE
  BY <1>2, <1>3 DEF Commit
<1>4. ~Begin(t) /\ ~DeadlockAbort(t) /\ ~Cancel(t)
  BY <1>1 DEF Begin, DeadlockAbort, Cancel, TypeOK, ControlTypeOK
<1>5. ~LockOrganization(t)
  BY <1>1 DEF LockOrganization, Start, TypeOK, ControlTypeOK
<1>6. ~LeavingStep(t)
  <2>1. Ends(t) => FALSE
    BY <1>2 DEF Ends
  <2>2. (ToOrganizations(t) \/ ToLoop(t) \/ Loops(t)) => FALSE
    BY DEF ToOrganizations, ToLoop, Loops, Moves, TypeOK, ControlTypeOK
  <2> QED
    BY <2>1, <2>2, LeavingKinds
<1>7. /\ loc \in [Tx -> Locals] /\ loc[t] \in Locals /\ pc \in [Tx -> Points]
      /\ todo \in [Tx -> [mode : Modes, rows : SUBSET Rows]]
  BY DEF TypeOK, ControlTypeOK, LocksTypeOK
<1>8. ASSUME NEW p, NEW m, NEW rows, Start(t, p, m, rows)
      PROVE  /\ UNCHANGED <<tables, blind, held, call>> /\ pc'[t] = p
             /\ todo'[t] = Statement(m, rows) /\ todo'[t].rows = rows
  <2>1. /\ UNCHANGED <<tables, blind, held, call>> /\ pc'[t] = p
        /\ todo'[t] = Statement(m, rows)
    BY <1>7, <1>8 DEF Start
  <2>2. todo'[t].rows = rows
    BY <2>1 DEF Statement
  <2> QED
    BY <2>1, <2>2
<1>9. ASSUME NEW from, loc' = [loc EXCEPT ![t].from = from]
      PROVE  loc'[t].departed = loc[t].departed /\ loc'[t].from = from
  BY <1>7, <1>9 DEF Locals
<1>10. ASSUME NEW refusal, NEW unchanged, NEW from, Decide(t, refusal, unchanged, from)
       PROVE  /\ refusal = "none" /\ ~unchanged /\ pc'[t] = "write"
              /\ loc'[t].from = from /\ loc'[t].departed = loc[t].departed
              /\ UNCHANGED <<tables, blind, held, call>> /\ todo'[t].rows = {}
  <2>1. /\ refusal = "none" /\ ~unchanged
        /\ loc' = [loc EXCEPT ![t].from = from] /\ Start(t, "write", Update, {})
    BY <1>1, <1>2, <1>10 DEF Decide
  <2> QED
    BY <1>8, <1>9, <2>1
<1>11. CASE CreateOrganization(t)
  BY <1>1, <1>8, <1>11 DEF CreateOrganization, At, Decides
<1>12. CASE ChangeMemberRole(t)
  BY <1>10, <1>12 DEF ChangeMemberRole, At, Decides
<1>13. CASE SuspendMember(t)
  BY <1>10, <1>13 DEF SuspendMember, At, Decides
<1>14. CASE ReactivateMember(t)
  BY <1>10, <1>14 DEF ReactivateMember, At, Decides
<1>15. ~InsertOrganization(t)
  BY <1>1, <1>3 DEF InsertOrganization
<1>16. ASSUME NEW role, NEW status, NEW event, WriteMember(t, role, status, event)
       PROVE  FALSE
  BY <1>1, <1>3, <1>16 DEF WriteMember
<1>17. ~WriteMemberRole(t) /\ ~WriteSuspension(t) /\ ~WriteReactivation(t)
  BY <1>16 DEF WriteMemberRole, WriteSuspension, WriteReactivation
<1>18. CASE AddTeamMember(t)
  BY <1>1, <1>8, <1>18 DEF AddTeamMember, At, Decides
<1>19. CASE InsertTeamMember(t)
  BY <1>1, <1>8, <1>19 DEF InsertTeamMember, At, Decides
<1>20. CASE ChangeTeamMemberRole(t)
  <2>1. /\ At(t, "lock_organization", "change_team_member_role")
        /\ Listing(t) \notin {"none", call[t].role}
        /\ loc' = [loc EXCEPT ![t].from = Listing(t)]
        /\ Start(t, "write", NoKeyUpdate, {TeamMemberRow(call[t].team, call[t].who)})
    BY <1>1, <1>2, <1>20 DEF ChangeTeamMemberRole
  <2>2. loc'[t].departed = loc[t].departed /\ loc'[t].from = Listing(t)
    BY <1>9, <2>1
  <2>3. /\ UNCHANGED <<tables, blind, held, call>> /\ pc'[t] = "write"
        /\ todo'[t] = Statement(NoKeyUpdate, {TeamMemberRow(call[t].team, call[t].who)})
    BY <1>8, <2>1
  <2> QED
    BY <2>1, <2>2, <2>3 DEF At, Decides
<1>21. CASE RemoveTeamMember(t)
  BY <1>1, <1>8, <1>21 DEF RemoveTeamMember, At, Decides
<1>22. ASSUME NEW role, NEW event, WriteTeamMember(t, role, event)
       PROVE  FALSE
  BY <1>1, <1>3, <1>22 DEF WriteTeamMember
<1>23. ~CreateTeam(t) /\ ~WriteTeamMembership(t) /\ ~WriteTeamRole(t) /\ ~WriteTeamRemoval(t)
  BY <1>1, <1>3, <1>22 DEF CreateTeam, WriteTeamMembership, WriteTeamRole, WriteTeamRemoval
<1>24. CASE CreateChannel(t)
  BY <1>1, <1>8, <1>24 DEF CreateChannel, At, Decides
<1>25. CASE AddChannelMember(t)
  BY <1>1, <1>8, <1>25 DEF AddChannelMember, At, Decides
<1>26. ~WriteChannel(t) /\ ~WriteChannelMember(t)
  BY <1>1, <1>3 DEF WriteChannel, WriteChannelMember
<1> QED
  BY <1>4, <1>5, <1>6, <1>11, <1>12, <1>13, <1>14, <1>15, <1>17, <1>18, <1>19, <1>20,
     <1>21, <1>23, <1>24, <1>25, <1>26
     DEF Step, MembershipStep, TeamsStep, ChannelsStep

\* Who is at lock_organization, and takes no lock, has just come from lock_actor.
LEMMA LockerActs ==
    ASSUME TypeOK, CourseOK, NEW t \in Tx, Begin(t) \/ Step(t) \/ Cancel(t),
           pc'[t] = "lock_organization"
    PROVE  \/ TakeLock(t)
           \/ /\ pc[t] = "lock_actor" /\ call[t].op # "create_organization"
              /\ UNCHANGED <<tables, blind, held, call>> /\ Returned(t)
              /\ loc'[t].departed = DepartedNow(t)
              /\ todo'[t].rows = {OrgRow(call[t].org)}
<1>1. ASSUME NEW r, Rollback(t, r) PROVE FALSE
  BY <1>1 DEF Rollback, End, TypeOK, ControlTypeOK
<1>2. Ends(t) => FALSE
  BY DEF Ends, End, TypeOK, ControlTypeOK
<1>3. (Advances(t) \/ ToSlug(t) \/ ToOrganizations(t) \/ ToLoop(t) \/ Loops(t)) => FALSE
  BY DEF Advances, ToSlug, ToOrganizations, ToLoop, Loops, Moves, TypeOK, ControlTypeOK
<1>4. ~Begin(t) /\ ~DeadlockAbort(t) /\ ~Cancel(t)
  BY <1>1 DEF Begin, DeadlockAbort, Cancel, TypeOK, ControlTypeOK
<1>5. TakeLock(t) \/ LockOrganization(t)
  BY <1>2, <1>3, <1>4, MembershipKinds, TeamsKinds, ChannelsKinds, LeavingKinds DEF Step
<1>6. CASE LockOrganization(t)
  <2>1. /\ pc[t] = "lock_actor" /\ Returned(t) /\ call[t].op # "create_organization"
        /\ loc' = [loc EXCEPT ![t].departed = DepartedNow(t)]
        /\ Start(t, "lock_organization", Update, {OrgRow(call[t].org)})
    BY <1>1, <1>6 DEF LockOrganization
  <2>2. loc'[t].departed = DepartedNow(t)
    BY <2>1 DEF TypeOK, ControlTypeOK, Locals
  <2>3. todo'[t].rows = {OrgRow(call[t].org)}
    BY <2>1 DEF Start, Statement, TypeOK, LocksTypeOK
  <2> QED
    BY <2>1, <2>2, <2>3 DEF Start
<1> QED
  BY <1>5, <1>6
----------------------------------------------------------------------------
(* The parts of the invariant, one by one.                                 *)

\* An actor that is locked by somebody else does not depart.
LEMMA ActorStays ==
    ASSUME DepartureInvariant, NEW t \in Tx, Begin(t) \/ Step(t) \/ Cancel(t),
           NEW u \in Tx, u # t, NEW a \in Actors, held[u][ActorRow(a)] >= KeyShare
    PROVE  actor'[a] = actor[a]
<1>1. TypeOK /\ CourseOK /\ OwnerInvariant
  BY DEF DepartureInvariant, OwnerInvariant
<1>2. CASE Left(t)
  <2>1. Leaving(t)
    BY <1>1, <1>2, LeftRows DEF Leaving
  <2>2. a # call[t].by
    BY <1>1, <2>1, LeaverAlone
  <2> QED
    BY <1>1, <1>2, <2>2, LeftRows
<1> QED
  BY <1>1, <1>2, TablesChange

\* An actor that exists goes on existing, and none appears.
LEMMA ActorsStay ==
    ASSUME TypeOK, CourseOK, NEW t \in Tx, Begin(t) \/ Step(t) \/ Cancel(t),
           NEW a \in Actors, actor[a] # "absent"
    PROVE  actor'[a] # "absent"
<1>1. CASE Left(t)
  BY <1>1, LeftRows
<1> QED
  BY <1>1, TablesChange

\* Foreign keys stay resolved.
LEMMA KeysResolveStep ==
    ASSUME DepartureInvariant, NEW t \in Tx, Begin(t) \/ Step(t) \/ Cancel(t)
    PROVE  KeysResolve'
<1>1. TypeOK /\ CourseOK /\ KeysResolve /\ SubjectKnown
  BY DEF DepartureInvariant, OwnerInvariant
<1>2. ASSUME NEW o \in Orgs, NEW a \in Actors, member'[o][a] # NoMember
      PROVE  actor'[a] # "absent"
  <2>1. CASE member[o][a] # NoMember
    BY <1>1, <2>1, ActorsStay DEF KeysResolve
  <2>2. CASE member[o][a] = NoMember
    <3>1. Founds(t)
      BY <1>1, <1>2, <2>2, RowsStay
    <3>2. a = call[t].by
      BY <1>1, <1>2, <2>2, <3>1, FoundsRows
    <3>3. actor[a] = "live"
      BY <1>1, <3>1, <3>2 DEF SubjectKnown, Founds
    <3> QED
      BY <1>1, <3>3, ActorsStay
  <2> QED
    BY <2>1, <2>2
<1>3. ASSUME NEW ch \in Channels, channel'[ch].team # 0
      PROVE  channel'[ch].org # 0
  <2>1. CASE ChannelCreated(t)
    <3>1. call[t].org # 0
      BY <1>1, <2>1, ChannelCreatedRows, IdentifiersAssumption
    <3>2. CASE ch = call[t].channel
      <4>1. channel'[ch] = [org |-> call[t].org, team |-> call[t].team,
                            name |-> call[t].name]
        BY <1>1, <2>1, <3>2, ChannelCreatedRows
      <4> QED
        BY <3>1, <4>1
    <3>3. CASE ch # call[t].channel
      BY <1>1, <1>3, <2>1, <3>3, ChannelCreatedRows DEF KeysResolve
    <3> QED
      BY <3>2, <3>3
  <2> QED
    BY <1>1, <1>3, <2>1, TablesChange DEF KeysResolve
<1> QED
  BY <1>2, <1>3 DEF KeysResolve

\* The call of a transaction changes only when it begins.
LEMMA CallStays ==
    ASSUME TypeOK, CourseOK, NEW t \in Tx, Begin(t) \/ Step(t) \/ Cancel(t)
    PROVE  \/ call' = call
           \/ \E c \in Requests : /\ Begin(t) /\ Fresh(c) /\ call' = [call EXCEPT ![t] = c]
                                  /\ UNCHANGED <<tables, blind>>
                                  /\ pc'[t] \in {"lock_actor", "leave_actor"}
<1>1. CASE Begin(t)
  BY <1>1 DEF Begin, TypeOK, ControlTypeOK
<1>2. CASE TakeLock(t) \/ Ends(t) \/ MovesOn(t)
  BY <1>2 DEF TakeLock, Ends, End, MovesOn, Advances, ToSlug, ToOrganization,
              ToOrganizations, ToLoop, Loops, Moves
<1> QED
  BY <1>1, <1>2, StepKinds

\* A transaction that is beyond Begin's points was where it is, or moved there.
LEMMA WasStarted ==
    ASSUME TypeOK, CourseOK, NEW t \in Tx, Begin(t) \/ Step(t) \/ Cancel(t), NEW u \in Tx,
           pc'[u] \in {"lock_organization", "write"}
    PROVE  /\ pc[u] \in {"lock_actor", "lock_organization", "insert", "write"}
           /\ call'[u] = call[u]
           /\ pc'[u] = "lock_organization" => pc[u] \in {"lock_actor", "lock_organization"}
<1>1. CASE u # t
  BY <1>1, StepKinds, OthersUnchanged
<1>2. CASE u = t /\ pc'[t] = "write"
  BY <1>2, WriterActs DEF TakeLock, Decides
<1>3. CASE u = t /\ pc'[t] = "lock_organization"
  BY <1>3, LockerActs DEF TakeLock
<1> QED
  BY <1>1, <1>2, <1>3

\* What is being created goes on being new.
LEMMA CreationFreshStep ==
    ASSUME DepartureInvariant, NEW t \in Tx, Begin(t) \/ Step(t) \/ Cancel(t)
    PROVE  CreationFresh'
<1>1. TypeOK /\ CourseOK /\ CreationFresh /\ FoundingFresh
  BY DEF DepartureInvariant, OwnerInvariant
<1>2. ASSUME NEW u \in Tx, NEW v \in Tx, u # v
      PROVE  /\ (call'[u].op = "create_team" /\ call'[v].op = "create_team")
                    => call'[v].team # call'[u].team
             /\ (call'[u].op = "create_channel" /\ call'[v].op = "create_channel")
                    => call'[v].channel # call'[u].channel
  <2>1. CASE call' = call
    BY <1>1, <1>2, <2>1 DEF CreationFresh
  <2>2. CASE \E c \in Requests : Fresh(c) /\ call' = [call EXCEPT ![t] = c]
    <3>1. PICK c \in Requests : Fresh(c) /\ call' = [call EXCEPT ![t] = c]
      BY <2>2
    <3>2. call'[t] = c /\ \A w \in Tx : w # t => call'[w] = call[w]
      BY <1>1, <3>1 DEF TypeOK, ControlTypeOK
    <3>3. /\ c.op = "create_team" =>
                 \A w \in Tx : call[w].op = "create_team" => call[w].team # c.team
          /\ c.op = "create_channel" =>
                 \A w \in Tx : call[w].op = "create_channel" => call[w].channel # c.channel
      BY <3>1 DEF Fresh
    <3> QED
      BY <1>1, <1>2, <3>2, <3>3 DEF CreationFresh
  <2> QED
    BY <1>1, <2>1, <2>2, CallStays
<1>3. ASSUME NEW u \in Tx, pc'[u] = "lock_actor", pc[u] # "lock_actor"
      PROVE  \E c \in Requests : /\ u = t /\ Fresh(c) /\ call'[u] = c
                                 /\ UNCHANGED <<tables, blind>>
  <2>1. u = t
    BY <1>1, <1>3, StepKinds, OthersUnchanged
  <2>2. Begin(t)
    BY <1>1, <1>3, <2>1, StepKinds
       DEF TakeLock, Ends, End, MovesOn, Advances, ToSlug, ToOrganization,
           ToOrganizations, ToLoop, Loops, Moves, TypeOK, ControlTypeOK
  <2> QED
    BY <1>1, <2>1, <2>2 DEF Begin, TypeOK, ControlTypeOK
<1>4. ASSUME NEW u \in Tx, call'[u].op = "create_team",
             pc'[u] \in {"lock_actor", "lock_organization"}
      PROVE  team'[call'[u].team] = 0
  <2>1. CASE pc'[u] = "lock_actor" /\ pc[u] # "lock_actor"
    BY <1>3, <1>4, <2>1 DEF Fresh, tables
  <2>2. CASE ~(pc'[u] = "lock_actor" /\ pc[u] # "lock_actor")
    <3>1. pc[u] \in {"lock_actor", "lock_organization"} /\ call'[u] = call[u]
      <4>1. CASE pc'[u] = "lock_organization"
        BY <1>1, <1>4, <4>1, WasStarted
      <4>2. CASE pc'[u] = "lock_actor" /\ pc[u] = "lock_actor"
        <5>1. ~(u = t /\ Begin(t))
          BY <4>2 DEF Begin
        <5> QED
          BY <1>1, <4>2, <5>1, StepKinds, OthersUnchanged, CallStays
      <4> QED
        BY <1>4, <2>2, <4>1, <4>2
    <3>2. team[call[u].team] = 0 /\ call[u].team \in Teams
      BY <1>1, <1>4, <3>1, CallFacts DEF CreationFresh, CourseOK, WithTeam
    <3>3. CASE TeamCreated(t)
      <4>1. u # t
        BY <1>1, <1>4, <3>3 DEF TeamCreated, Commit, End, TypeOK, ControlTypeOK
      <4>2. call[t].team # call[u].team
        BY <1>1, <1>4, <3>1, <3>3, <4>1 DEF CreationFresh, TeamCreated, At
      <4> QED
        BY <1>1, <3>1, <3>2, <3>3, <4>2, TeamCreatedRows
    <3> QED
      BY <1>1, <3>1, <3>2, <3>3, TablesChange
  <2> QED
    BY <2>1, <2>2
<1>5. ASSUME NEW u \in Tx, call'[u].op = "create_channel",
             pc'[u] \in {"lock_actor", "lock_organization", "write"}
      PROVE  channel'[call'[u].channel].org = 0
  <2>1. CASE pc'[u] = "lock_actor" /\ pc[u] # "lock_actor"
    BY <1>3, <1>5, <2>1 DEF Fresh, tables
  <2>2. CASE ~(pc'[u] = "lock_actor" /\ pc[u] # "lock_actor")
    <3>1. pc[u] \in {"lock_actor", "lock_organization", "write"} /\ call'[u] = call[u]
      <4>1. CASE pc'[u] \in {"lock_organization", "write"}
        <5>1. pc[u] # "insert"
          <6>1. CASE u # t
            BY <1>1, <4>1, <6>1, StepKinds, OthersUnchanged
          <6>2. CASE u = t
            BY <1>1, <1>5, <4>1, <6>2, WriterActs, LockerActs DEF Decides, TakeLock
          <6> QED
            BY <6>1, <6>2
        <5> QED
          BY <1>1, <1>5, <4>1, <5>1, WasStarted
      <4>2. CASE pc'[u] = "lock_actor" /\ pc[u] = "lock_actor"
        <5>1. ~(u = t /\ Begin(t))
          BY <4>2 DEF Begin
        <5> QED
          BY <1>1, <4>2, <5>1, StepKinds, OthersUnchanged, CallStays
      <4> QED
        BY <1>5, <2>2, <4>1, <4>2
    <3>2. channel[call[u].channel].org = 0 /\ call[u].channel \in Channels
      BY <1>1, <1>5, <3>1, CallFacts DEF CreationFresh, CourseOK
    <3>3. CASE ChannelCreated(t)
      <4>1. u # t
        BY <1>1, <1>5, <3>3 DEF ChannelCreated, Commit, End, TypeOK, ControlTypeOK
      <4>2. call[t].channel # call[u].channel
        BY <1>1, <1>5, <3>1, <3>3, <4>1 DEF CreationFresh, ChannelCreated, At
      <4> QED
        BY <1>1, <3>1, <3>2, <3>3, <4>2, ChannelCreatedRows
    <3> QED
      BY <1>1, <3>1, <3>2, <3>3, TablesChange
  <2> QED
    BY <2>1, <2>2
<1>6. ASSUME NEW u \in Tx, call'[u].op = "create_organization",
             pc'[u] \in {"lock_actor", "insert"}
      PROVE  slug'[call'[u].org] = 0
  <2>1. CASE pc'[u] = "lock_actor" /\ pc[u] # "lock_actor"
    BY <1>3, <1>6, <2>1 DEF Fresh, tables
  <2>2. CASE ~(pc'[u] = "lock_actor" /\ pc[u] # "lock_actor")
    <3>1. pc[u] \in {"lock_actor", "insert"} /\ call'[u] = call[u]
      <4>1. CASE u # t
        BY <1>1, <1>6, <4>1, StepKinds, OthersUnchanged
      <4>2. CASE u = t /\ pc'[t] = "insert"
        BY <1>1, <1>6, <4>2, WriterActs DEF TakeLock, Decides
      <4>3. CASE u = t /\ pc'[t] = "lock_actor" /\ pc[t] = "lock_actor"
        <5>1. ~Begin(t)
          BY <4>3 DEF Begin
        <5> QED
          BY <1>1, <4>3, <5>1, CallStays
      <4> QED
        BY <1>6, <2>2, <4>1, <4>2, <4>3
    <3>2. slug[call[u].org] = 0 /\ call[u].org \in Orgs
      BY <1>1, <1>6, <3>1, CallFacts DEF CreationFresh, CourseOK
    <3>3. CASE Founded(t)
      <4>1. u # t
        BY <1>1, <1>6, <3>3 DEF Founded, Commit, End, TypeOK, ControlTypeOK
      <4>2. call[t].org # call[u].org /\ Founds(t)
        BY <1>1, <1>6, <3>1, <3>3, <4>1 DEF FoundingFresh, Founded, At
      <4>3. call[t].by \in Actors
        BY <1>1, <4>2, CallRows DEF Founds
      <4> QED
        BY <1>1, <3>1, <3>2, <4>2, <4>3, FoundsRows
    <3> QED
      BY <1>1, <3>1, <3>2, <3>3, TablesChange
  <2> QED
    BY <2>1, <2>2
<1> QED
  BY <1>2, <1>4, <1>5, <1>6 DEF CreationFresh
\* What lock_actor said of its actor stays so.
LEMMA SubjectKnownStep ==
    ASSUME DepartureInvariant, NEW t \in Tx, Begin(t) \/ Step(t) \/ Cancel(t)
    PROVE  SubjectKnown'
<1>1. TypeOK /\ CourseOK /\ SubjectKnown /\ SubjectLocked
  BY DEF DepartureInvariant, OwnerInvariant
<1>2. Begin(t) \/ TakeLock(t) \/ Ends(t) \/ MovesOn(t)
  BY <1>1, StepKinds
<1>3. SUFFICES ASSUME NEW u \in Tx
               PROVE  (/\ pc[u] \in {"lock_actor", "lock_organization", "insert", "write"}
                          /\ loc[u].departed # "None" => actor[Subject(call[u])] # "absent"
                       /\ pc[u] \in {"lock_organization", "insert", "write"}
                          /\ call[u].op # "create_organization"
                          /\ loc[u].departed \in {"Some", "Some(false)"}
                              => actor[Subject(call[u])] = "live"
                       /\ pc[u] = "insert" /\ call[u].op = "create_organization"
                              => actor[call[u].by] = "live")'
  BY DEF SubjectKnown
<1>4. CASE u # t
  <2>1. pc'[u] = pc[u] /\ call'[u] = call[u] /\ loc'[u] = loc[u]
    BY <1>1, <1>2, <1>4, OthersUnchanged
  <2>2. CASE pc[u] \in {"lock_actor", "lock_organization", "insert", "write"}
    <3>1. /\ call[u].by \in Actors /\ Subject(call[u]) \in Actors
          /\ ActorRow(Subject(call[u])) \in Rows
      BY <1>1, <2>2, CallRows
    <3>2. CASE pc[u] # "lock_actor" /\ loc[u].departed # "None"
      <4>1. held[u][ActorRow(Subject(call[u]))] >= KeyShare
        BY <1>1, <2>2, <3>1, <3>2, Weaker, ModeFacts DEF SubjectLocked
      <4>2. actor'[Subject(call[u])] = actor[Subject(call[u])]
        BY <1>4, <3>1, <4>1, ActorStays
      <4>3. call[u].op = "create_organization" => Subject(call[u]) = call[u].by
        BY DEF Subject
      <4> QED
        BY <1>1, <2>1, <4>2, <4>3 DEF SubjectKnown
    <3>3. CASE pc[u] = "lock_actor" \/ loc[u].departed = "None"
      <4>1. actor[Subject(call[u])] # "absent" => actor'[Subject(call[u])] # "absent"
        BY <1>1, <3>1, ActorsStay
      <4>2. ~(pc[u] = "insert" /\ call[u].op = "create_organization")
        BY <1>1, <3>3 DEF SubjectLocked
      <4> QED
        BY <1>1, <2>1, <3>3, <4>1, <4>2 DEF SubjectKnown
    <3> QED
      BY <3>2, <3>3
  <2> QED
    BY <2>1, <2>2
<1>5. CASE u = t /\ TakeLock(t)
  BY <1>1, <1>5 DEF TakeLock, tables, SubjectKnown
<1>6. CASE u = t /\ Begin(t)
  <2>1. PICK c \in Requests :
            /\ call' = [call EXCEPT ![t] = c]
            /\ IF c.op = "leave_service"
               THEN pc' = [pc EXCEPT ![t] = "leave_actor"]
               ELSE /\ pc' = [pc EXCEPT ![t] = "lock_actor"]
                    /\ loc' = [loc EXCEPT ![t].departed =
                                   IF Subject(c) \in LockActorRows(c) THEN "Some" ELSE "None"]
            /\ UNCHANGED tables
    BY <1>6 DEF Begin
  <2>2. call'[t] = c /\ actor' = actor
    BY <1>1, <2>1 DEF TypeOK, ControlTypeOK, tables
  <2>3. CASE c.op = "leave_service"
    BY <1>1, <1>6, <2>1, <2>3 DEF TypeOK, ControlTypeOK
  <2>4. CASE c.op # "leave_service"
    <3>1. pc'[t] = "lock_actor"
      BY <1>1, <2>1, <2>4 DEF TypeOK, ControlTypeOK
    <3>2. loc'[t].departed # "None" => Subject(c) \in LockActorRows(c)
      BY <1>1, <2>1, <2>4 DEF TypeOK, ControlTypeOK, Locals
    <3>3. Subject(c) \in LockActorRows(c) => actor[Subject(c)] # "absent"
      BY DEF LockActorRows, SeesActor
    <3> QED
      BY <1>6, <2>2, <3>1, <3>2, <3>3
  <2> QED
    BY <2>3, <2>4
<1>7. CASE u = t /\ ~Begin(t) /\ ~TakeLock(t) /\ pc'[t] = "lock_organization"
  <2>1. /\ pc[t] = "lock_actor" /\ call[t].op # "create_organization"
        /\ call' = call /\ actor' = actor /\ loc'[t].departed = DepartedNow(t)
    BY <1>1, <1>7, LockerActs DEF tables
  <2>2. Subject(call[t]) \in Actors
    BY <1>1, <2>1, CallRows
  <2>3. actor[Subject(call[t])] \in {"absent", "live", "departed"}
    BY <1>1, <2>2 DEF TypeOK, TablesTypeOK
  <2> QED
    BY <1>1, <1>7, <2>1, <2>3 DEF SubjectKnown, DepartedNow
<1>8. CASE u = t /\ ~Begin(t) /\ ~TakeLock(t) /\ pc'[t] \in {"insert", "write"}
  <2>1. Decides(t) /\ call' = call /\ actor' = actor /\ loc'[t].departed = loc[t].departed
    BY <1>1, <1>8, WriterActs DEF Decides, tables
  <2>2. CASE call[t].op = "create_organization"
    <3>1. pc[t] = "lock_actor" /\ CreateOrganizationRefusal(t) = "none" /\ pc'[t] = "insert"
      BY <2>1, <2>2 DEF Decides
    <3>2. call[t].by \in Actors /\ Subject(call[t]) = call[t].by
      BY <1>1, <2>2, <3>1, CallRows DEF Subject
    <3>3. actor[call[t].by] \in {"absent", "live", "departed"}
      BY <1>1, <3>2 DEF TypeOK, TablesTypeOK
    <3>4. loc[t].departed # "None" /\ actor[call[t].by] # "departed"
      BY <3>1, <3>2 DEF CreateOrganizationRefusal, DepartedNow
    <3>5. actor[call[t].by] # "absent"
      BY <1>1, <3>1, <3>2, <3>4 DEF SubjectKnown
    <3> QED
      BY <1>8, <2>1, <2>2, <3>2, <3>3, <3>4, <3>5
  <2>3. CASE call[t].op # "create_organization"
    <3>1. pc[t] \in {"lock_organization", "insert"}
      BY <2>1, <2>3 DEF Decides
    <3> QED
      BY <1>1, <1>8, <2>1, <2>3, <3>1 DEF SubjectKnown
  <2> QED
    BY <2>2, <2>3
<1>9. CASE u = t /\ ~Begin(t) /\ ~TakeLock(t)
           /\ pc'[t] \notin {"lock_organization", "insert", "write"}
  <2>1. pc'[t] # "lock_actor"
    BY <1>1, <1>2, <1>9
       DEF Ends, End, MovesOn, Advances, ToSlug, ToOrganization,
           ToOrganizations, ToLoop, Loops, Moves, TypeOK, ControlTypeOK
  <2> QED
    BY <1>9, <2>1
<1> QED
  BY <1>4, <1>5, <1>6, <1>7, <1>8, <1>9

\* What others do leaves standing what u read of its target.
LEMMA TargetStandsForOthers ==
    ASSUME DepartureInvariant, NEW t \in Tx, Begin(t) \/ Step(t) \/ Cancel(t),
           NEW u \in Tx, u # t, NEW c, c = call[u], pc[u] \in {"insert", "write"},
           c.op \in {"change_member_role", "suspend_member", "reactivate_member",
                     "add_team_member", "add_channel_member"}
    PROVE  /\ member[c.org][c.who] # NoMember => member'[c.org][c.who] = member[c.org][c.who]
           /\ member[c.org][c.by] # NoMember => member'[c.org][c.by] = member[c.org][c.by]
           /\ c.op = "add_team_member" /\ team[c.team] = c.org => team'[c.team] = c.org
           /\ c.op = "add_channel_member" /\ channel[c.channel].org = c.org
                  => channel'[c.channel] = channel[c.channel]
<1>1. TypeOK /\ CourseOK /\ OrganizationLocked /\ CreationFresh
  BY DEF DepartureInvariant, OwnerInvariant
<1>2. /\ c.org \in Orgs /\ c.who \in Actors /\ c.by \in Actors
      /\ c.op = "add_team_member" => c.team \in Teams
      /\ c.op = "add_channel_member" => c.channel \in Channels
      /\ c.org # 0
  BY <1>1, CallFacts, IdentifiersAssumption DEF CourseOK, WithTarget, WithTeam
<1>3. held[u][OrgRow(c.org)] >= Update
  BY <1>1 DEF OrganizationLocked
<1>4. /\ member[c.org][c.who] # NoMember => member'[c.org][c.who] = member[c.org][c.who]
      /\ member[c.org][c.by] # NoMember => member'[c.org][c.by] = member[c.org][c.by]
  BY <1>2, <1>3, MembersStand
<1>5. ASSUME c.op = "add_team_member", team[c.team] = c.org
      PROVE  team'[c.team] = c.org
  <2>1. CASE TeamCreated(t)
    <3>1. team[call[t].team] = 0
      BY <1>1, <2>1 DEF CreationFresh, TeamCreated, At
    <3> QED
      BY <1>1, <1>2, <1>5, <2>1, <3>1, TeamCreatedRows
  <2> QED
    BY <1>1, <1>5, <2>1, TablesChange
<1>6. ASSUME c.op = "add_channel_member", channel[c.channel].org = c.org
      PROVE  channel'[c.channel] = channel[c.channel]
  <2>1. CASE ChannelCreated(t)
    <3>1. channel[call[t].channel].org = 0
      BY <1>1, <2>1 DEF CreationFresh, ChannelCreated, At
    <3> QED
      BY <1>1, <1>2, <1>6, <2>1, <3>1, ChannelCreatedRows
  <2> QED
    BY <1>1, <1>6, <2>1, TablesChange
<1> QED
  BY <1>4, <1>5, <1>6

\* What a transaction decides on is what it has just read.
LEMMA DecidesTruly ==
    ASSUME TypeOK, CourseOK, NEW t \in Tx, Decides(t), NEW c, c = call[t]
    PROVE  /\ c.op = "change_member_role" =>
                  /\ member[c.org][c.who].status \in {"active", "suspended"}
                  /\ member[c.org][c.who].role = loc'[t].from /\ loc'[t].from # c.role
           /\ c.op = "suspend_member" => member[c.org][c.who].status = "active"
           /\ c.op = "reactivate_member" => member[c.org][c.who].status = "suspended"
           /\ c.op = "add_team_member" /\ pc[t] # "insert" =>
                  member[c.org][c.who].status = "active" /\ team[c.team] = c.org
           /\ c.op = "add_channel_member" =>
                  /\ member[c.org][c.by].status = "active"
                  /\ channel[c.channel].org = c.org /\ channel[c.channel].team # 0
                  /\ loc'[t].departed \in {"Some", "Some(false)"}
<1>0. pc[t] # "idle" /\ call[t] \in Calls
  BY DEF Decides, CourseOK
<1>1. ASSUME c.op \in WithTarget, Target(t) # NoMember
      PROVE  Target(t) = member[c.org][c.who]
  BY <1>1 DEF Target, MemberSeen
<1>2. CASE c.op = "change_member_role"
  <2>1. Target(t) \in MemberRows
    BY <1>0, <1>2, TargetTyped DEF WithTarget
  <2>2. /\ Target(t).status \notin {"none", "left"} /\ Target(t).role # c.role
        /\ loc'[t].from = Target(t).role
    BY <1>2 DEF Decides, ChangeMemberRoleRefusal
  <2>3. Target(t) # NoMember
    BY <2>2 DEF NoMember
  <2>4. Target(t) = member[c.org][c.who]
    BY <1>1, <1>2, <2>3 DEF WithTarget
  <2> QED
    BY <1>2, <2>1, <2>2, <2>4 DEF MemberRows, Statuses, NoMember
<1>3. CASE c.op = "suspend_member"
  BY <1>1, <1>3 DEF Decides, SuspendMemberRefusal, WithTarget
<1>4. CASE c.op = "reactivate_member"
  BY <1>1, <1>4 DEF Decides, ReactivateMemberRefusal, WithTarget
<1>5. CASE c.op = "add_team_member" /\ pc[t] # "insert"
  <2>1. AddTeamMemberRefusal(t) = "none"
    BY <1>5 DEF Decides
  <2> QED
    BY <1>5, <2>1 DEF AddTeamMemberRefusal, SeesTeam, MemberSeen
<1>6. CASE c.op = "add_channel_member"
  <2>1. AddChannelMemberRefusal(t) = "none" /\ loc'[t].departed = loc[t].departed
    BY <1>6 DEF Decides
  <2>2. loc[t].departed \in {"None", "Some", "Some(false)", "Some(true)"}
    BY DEF TypeOK, ControlTypeOK, Locals
  <2> QED
    BY <1>6, <2>1, <2>2
       DEF AddChannelMemberRefusal, SeesChannel, fukulow_active_organizations
<1> QED
  BY <1>2, <1>3, <1>4, <1>5, <1>6

\* What an operation read of its target is so when it writes.
LEMMA TargetStandsStep ==
    ASSUME DepartureInvariant, NEW t \in Tx, Begin(t) \/ Step(t) \/ Cancel(t)
    PROVE  TargetStands'
<1>1. TypeOK /\ CourseOK /\ TargetStands
  BY DEF DepartureInvariant, OwnerInvariant
<1>2. Begin(t) \/ TakeLock(t) \/ Ends(t) \/ MovesOn(t)
  BY <1>1, StepKinds
<1>3. SUFFICES ASSUME NEW u \in Tx, pc'[u] \in {"insert", "write"},
                      NEW c, c = call'[u]
               PROVE  /\ pc'[u] = "write" /\ c.op = "change_member_role" =>
                             /\ member'[c.org][c.who].status \in {"active", "suspended"}
                             /\ member'[c.org][c.who].role = loc'[u].from
                             /\ loc'[u].from # c.role
                      /\ pc'[u] = "write" /\ c.op = "suspend_member" =>
                             member'[c.org][c.who].status = "active"
                      /\ pc'[u] = "write" /\ c.op = "reactivate_member" =>
                             member'[c.org][c.who].status = "suspended"
                      /\ c.op = "add_team_member" =>
                             /\ member'[c.org][c.who].status = "active"
                             /\ team'[c.team] = c.org
                             /\ pc'[u] = "write" => Claims(u, ActorRow(c.who), KeyShare)'
                      /\ pc'[u] = "write" /\ c.op = "add_channel_member" =>
                             /\ member'[c.org][c.by].status = "active"
                             /\ channel'[c.channel].org = c.org
                             /\ channel'[c.channel].team # 0
                             /\ loc'[u].departed \in {"Some", "Some(false)"}
  BY DEF TargetStands, Claims
<1>4. CASE u # t
  <2>1. /\ pc'[u] = pc[u] /\ c = call[u] /\ loc'[u] = loc[u]
        /\ held'[u] = held[u] /\ todo'[u] = todo[u]
    BY <1>1, <1>2, <1>3, <1>4, OthersUnchanged
  <2>2. CASE c.op \in {"change_member_role", "suspend_member", "reactivate_member",
                       "add_team_member", "add_channel_member"}
    <3>1. /\ member[c.org][c.who] # NoMember => member'[c.org][c.who] = member[c.org][c.who]
          /\ member[c.org][c.by] # NoMember => member'[c.org][c.by] = member[c.org][c.by]
          /\ c.op = "add_team_member" /\ team[c.team] = c.org => team'[c.team] = c.org
          /\ c.op = "add_channel_member" /\ channel[c.channel].org = c.org
                 => channel'[c.channel] = channel[c.channel]
      BY <1>3, <1>4, <2>1, <2>2, TargetStandsForOthers
    <3>2. ASSUME NEW a PROVE member[c.org][a].status # "none" => member[c.org][a] # NoMember
      BY DEF NoMember
    <3>3. c.op = "add_team_member" /\ pc[u] = "write"
              => Claims(u, ActorRow(c.who), KeyShare)'
      BY <1>1, <2>1 DEF TargetStands, Claims
    <3> QED
      BY <1>1, <1>3, <2>1, <3>1, <3>2, <3>3 DEF TargetStands
  <2> QED
    BY <2>2
<1>5. CASE u = t /\ TakeLock(t)
  <2>1. pc' = pc /\ call' = call /\ loc' = loc /\ UNCHANGED tables
    BY <1>5 DEF TakeLock
  <2>2. ASSUME pc[t] = "write", c.op = "add_team_member"
        PROVE  Claims(t, ActorRow(c.who), KeyShare)'
    <3>1. ActorRow(c.who) \in Rows
      BY <1>1, <1>3, <1>5, <2>1, <2>2, CallFacts, RowFacts DEF CourseOK, WithTarget
    <3>2. PICK r \in Rows : r = ActorRow(c.who)
      BY <3>1
    <3>3. Claims(t, r, KeyShare)
      BY <1>1, <1>3, <1>5, <2>1, <2>2, <3>2 DEF TargetStands
    <3>4. Claims(t, r, KeyShare)'
      BY <1>1, <1>5, <3>3, HeldGrows, ModeFacts
    <3> QED
      BY <3>2, <3>4 DEF Claims
  <2> QED
    BY <1>1, <1>3, <1>5, <2>1, <2>2 DEF TargetStands, tables
<1>6. CASE u = t /\ ~TakeLock(t)
  <2>1. Decides(t) /\ c = call[t]
    BY <1>1, <1>3, <1>6, WriterActs DEF Decides
  <2>2. member' = member /\ team' = team /\ channel' = channel
    BY <2>1 DEF Decides, tables
  <2>3. CASE c.op = "add_team_member" /\ pc[t] = "insert"
    <3>1. todo'[t] = Statement(KeyShare, {ActorRow(c.who)})
      BY <2>1, <2>3 DEF Decides
    <3>2. Claims(t, ActorRow(c.who), KeyShare)'
      BY <3>1 DEF Claims, Statement
    <3> QED
      BY <1>1, <1>6, <2>1, <2>2, <2>3, <3>2 DEF TargetStands
  <2>4. c.op = "add_team_member" /\ pc[t] # "insert" => pc'[t] = "insert"
    BY <2>1 DEF Decides
  <2> QED
    BY <1>1, <1>6, <2>1, <2>2, <2>3, <2>4, DecidesTruly
<1> QED
  BY <1>4, <1>5, <1>6
\* No transaction but its own founds, adds or lists for a leaver.
LEMMA LeaverUntouched ==
    ASSUME DepartureInvariant, NEW t \in Tx, NEW u \in Tx, t # u, Looping(u)
    PROVE  /\ call[u].by \in Actors
           /\ Founds(t) => call[t].by # call[u].by
           /\ TeamMemberWritten(t) /\ call[t].op = "add_team_member"
                  => call[t].who # call[u].by
           /\ ChannelListed(t) => call[t].who # call[u].by
<1>1. /\ TypeOK /\ CourseOK /\ SubjectLocked /\ TargetStands /\ OwnerInvariant
      /\ Leaving(u) /\ call[u].by \in Actors
  BY CallRows DEF DepartureInvariant, OwnerInvariant, Looping, Leaving
<1>2. ASSUME Founds(t) PROVE call[t].by # call[u].by
  <2>1. /\ loc[t].departed # "None" /\ pc[t] = "insert" /\ Subject(call[t]) = call[t].by
    BY <1>1, <1>2 DEF Founds, SubjectLocked, Subject
  <2>2. /\ call[t].by \in Actors /\ ActorRow(call[t].by) \in Rows
        /\ held[t][ActorRow(call[t].by)] >= Share
    BY <1>1, <2>1, CallRows DEF SubjectLocked
  <2> QED
    BY <1>1, <2>2, Weaker, ModeFacts, LeaverAlone
<1>3. ASSUME TeamMemberWritten(t), call[t].op = "add_team_member"
      PROVE  call[t].who # call[u].by
  <2>1. pc[t] = "write" /\ Returned(t)
    BY <1>3 DEF TeamMemberWritten
  <2>2. call[t].who \in Actors
    BY <1>1, <1>3, <2>1, CallFacts DEF CourseOK, WithTarget
  <2>3. held[t][ActorRow(call[t].who)] >= KeyShare
    BY <1>1, <1>3, <2>1, ReturnedHolds DEF TargetStands
  <2> QED
    BY <1>1, <2>2, <2>3, LeaverAlone
<1>4. ASSUME ChannelListed(t) PROVE call[t].who # call[u].by
  <2>1. /\ pc[t] = "write" /\ call[t].op = "add_channel_member"
        /\ Subject(call[t]) = call[t].who
    BY <1>4 DEF ChannelListed, At, Subject
  <2>2. loc[t].departed # "None"
    BY <1>1, <2>1 DEF TargetStands
  <2>3. /\ call[t].who \in Actors /\ ActorRow(call[t].who) \in Rows
        /\ held[t][ActorRow(call[t].who)] >= Share
    BY <1>1, <2>1, <2>2, CallRows DEF SubjectLocked
  <2> QED
    BY <1>1, <2>3, Weaker, ModeFacts, LeaverAlone
<1> QED
  BY <1>1, <1>2, <1>3, <1>4

\* A leaver's memberships are those it found, and it locks them one by one.
LEMMA MembershipsFoundStep ==
    ASSUME DepartureInvariant, NEW t \in Tx, Begin(t) \/ Step(t) \/ Cancel(t)
    PROVE  MembershipsFound'
<1>1. TypeOK /\ CourseOK /\ MembershipsFound /\ DepartureErases /\ LeaverLocked
  BY DEF DepartureInvariant, OwnerInvariant
<1>2. Begin(t) \/ TakeLock(t) \/ Ends(t) \/ MovesOn(t)
  BY <1>1, StepKinds
<1>3. SUFFICES ASSUME NEW u \in Tx, Looping(u)'
               PROVE  (/\ loc[u].memberships = {o \in Orgs : member[o][call[u].by] # NoMember}
                       /\ loc[u].current = loc[u].memberships
                       /\ loc[u].rest \subseteq loc[u].memberships
                       /\ \A o \in loc[u].memberships \ loc[u].rest :
                              Claims(u, OrgRow(o), KeyShare))'
  BY DEF MembershipsFound
<1>4. CASE u # t
  <2>1. /\ pc'[u] = pc[u] /\ call'[u] = call[u] /\ loc'[u] = loc[u]
        /\ held'[u] = held[u] /\ todo'[u] = todo[u]
    BY <1>1, <1>2, <1>4, OthersUnchanged
  <2>2. Looping(u) /\ call[u].by \in Actors
    BY <1>3, <1>4, <2>1, LeaverUntouched DEF Looping
  <2>3. ASSUME NEW o \in Orgs
        PROVE  member'[o][call[u].by] # NoMember <=> member[o][call[u].by] # NoMember
    <3>1. CASE Founds(t)
      <4>1. call[t].by # call[u].by
        BY <1>4, <2>2, <3>1, LeaverUntouched
      <4> QED
        BY <1>1, <2>2, <3>1, <4>1, FoundsRows
    <3> QED
      BY <1>1, <2>2, <3>1, RowsStay
  <2>4. /\ loc[u].memberships = {o \in Orgs : member[o][call[u].by] # NoMember}
        /\ loc[u].current = loc[u].memberships
        /\ loc[u].rest \subseteq loc[u].memberships
        /\ \A o \in loc[u].memberships \ loc[u].rest : Claims(u, OrgRow(o), KeyShare)
    BY <1>1, <2>2 DEF MembershipsFound
  <2>5. loc[u].memberships = {o \in Orgs : member'[o][call[u].by] # NoMember}
    BY <2>3, <2>4
  <2> QED
    BY <2>1, <2>4, <2>5 DEF Claims
<1>5. CASE u = t /\ TakeLock(t)
  <2>1. pc' = pc /\ call' = call /\ loc' = loc /\ member' = member
    BY <1>5 DEF TakeLock, tables
  <2>2. Looping(t)
    BY <1>3, <1>5, <2>1 DEF Looping
  <2>3. ASSUME NEW o \in loc[t].memberships \ loc[t].rest
        PROVE  Claims(t, OrgRow(o), KeyShare)'
    <3>1. PICK r \in Rows : r = OrgRow(o)
      BY <1>1, <2>2, <2>3, RowFacts DEF MembershipsFound
    <3>2. Claims(t, r, KeyShare)
      BY <1>1, <2>2, <2>3, <3>1 DEF MembershipsFound
    <3>3. Claims(t, r, KeyShare)'
      BY <1>1, <1>5, <3>2, HeldGrows, ModeFacts
    <3> QED
      BY <3>1, <3>3 DEF Claims
  <2> QED
    BY <1>1, <1>5, <2>1, <2>2, <2>3 DEF MembershipsFound
<1>6. CASE u = t /\ EntersLoop(t)
  <2>1. member' = member /\ call' = call /\ Leaving(t)
    BY <1>6 DEF EntersLoop, SameLoop, tables, Leaving
  <2>2. actor[call[t].by] = "live" /\ call[t].by \in Actors
    BY <1>1, <2>1, CallRows DEF LeaverLocked, Leaving
  <2>3. ASSUME NEW o \in Orgs, member[o][call[t].by] # NoMember
        PROVE  member[o][call[t].by].status # "left"
    BY <1>1, <2>2, <2>3 DEF DepartureErases
  <2>4. loc'[t].memberships = {o \in Orgs : member[o][call[t].by] # NoMember}
        /\ loc'[t].rest = loc'[t].memberships
    BY <1>6 DEF EntersLoop
  <2>5. loc'[t].current = loc'[t].memberships
    BY <1>6, <2>3, <2>4 DEF EntersLoop
  <2> QED
    BY <1>6, <2>1, <2>4, <2>5
<1>7. CASE /\ u = t
           /\ StartsOrganization(t) \/ RecordsOrganization(t) \/ RecordsChannels(t)
  <2>1. /\ member' = member /\ call' = call /\ held' = held /\ Returned(t) /\ Looping(t)
        /\ loc'[t].memberships = loc[t].memberships /\ loc'[t].current = loc[t].current
        /\ loc'[t].rest \subseteq loc[t].rest
    BY <1>7 DEF StartsOrganization, RecordsOrganization, RecordsChannels, SameLoop, tables,
                Looping
  <2>2. ASSUME NEW o \in loc[t].memberships \ loc[t].rest
        PROVE  Claims(t, OrgRow(o), KeyShare)'
    BY <1>1, <2>1, <2>2, ReturnedHolds DEF MembershipsFound, Claims
  <2>3. ASSUME NEW o \in loc[t].rest \ loc'[t].rest
        PROVE  Claims(t, OrgRow(o), KeyShare)'
    <3>1. RecordsOrganization(t)
      BY <1>7, <2>3 DEF StartsOrganization, RecordsChannels, SameLoop
    <3>2. todo'[t] = Statement(KeyShare,
                         {OrgRow(e.org) : e \in LeaveAudits(t, o, StillThere(t))})
      BY <2>3, <3>1 DEF RecordsOrganization
    <3>3. o \in loc[t].current
      BY <1>1, <2>1, <2>3 DEF MembershipsFound
    <3>4. member_left(o, Leaver(t)) \in LeaveAudits(t, o, StillThere(t))
      BY <3>3 DEF LeaveAudits
    <3>5. member_left(o, Leaver(t)).org = o
      BY DEF member_left, NoEvent
    <3>6. OrgRow(o) \in todo'[t].rows /\ todo'[t].mode = KeyShare
      BY <3>2, <3>4, <3>5 DEF Statement
    <3> QED
      BY <3>6 DEF Claims
  <2> QED
    BY <1>1, <1>7, <2>1, <2>2, <2>3 DEF MembershipsFound
<1> QED
  BY <1>1, <1>3, <1>4, <1>5, <1>6, <1>7, LoopActs DEF Looping

\* A team row of a leaver is one that it has removed or will come to.
LEMMA TeamRowsFoundStep ==
    ASSUME DepartureInvariant, NEW t \in Tx, Begin(t) \/ Step(t) \/ Cancel(t)
    PROVE  TeamRowsFound'
<1>1. TypeOK /\ CourseOK /\ TeamRowsFound /\ ListingsFit /\ CreationFresh
  BY DEF DepartureInvariant, OwnerInvariant
<1>2. Begin(t) \/ TakeLock(t) \/ Ends(t) \/ MovesOn(t)
  BY <1>1, StepKinds
<1>3. SUFFICES ASSUME NEW u \in Tx, Looping(u)', NEW tm \in Teams,
                      teamMember'[tm][call'[u].by] # "none"
               PROVE  (/\ tm \in loc[u].removed \/ team[tm] \in loc[u].rest
                       /\ pc[u] = "leave_audit" /\ NextOf(loc[u].rest, team[tm])
                              => tm \in loc[u].removing)'
  BY DEF TeamRowsFound
<1>4. CASE u # t
  <2>1. pc'[u] = pc[u] /\ call'[u] = call[u] /\ loc'[u] = loc[u]
    BY <1>1, <1>2, <1>4, OthersUnchanged
  <2>2. Looping(u) /\ call[u].by \in Actors
    BY <1>3, <1>4, <2>1, LeaverUntouched DEF Looping
  <2>3. teamMember[tm][call[u].by] # "none"
    <3>1. CASE TeamMemberWritten(t)
      <4>1. CASE tm = call[t].team /\ call[u].by = call[t].who
        <5>1. call[t].op # "add_team_member"
          BY <1>4, <2>2, <3>1, <4>1, LeaverUntouched
        <5>2. NewTeamRole(call[t]) # "none"
          BY <1>1, <1>3, <2>1, <2>2, <3>1, <4>1, TeamMemberRows
        <5> QED
          BY <3>1, <4>1, <5>1, <5>2 DEF NewTeamRole, TeamMemberWritten
      <4> QED
        BY <1>1, <1>3, <2>1, <2>2, <3>1, <4>1, TeamMemberRows
    <3>2. CASE Left(t)
      BY <1>1, <1>3, <2>1, <2>2, <3>2, LeftRows
    <3> QED
      BY <1>1, <1>3, <2>1, <3>1, <3>2, TablesChange
  <2>4. team'[tm] = team[tm]
    <3>1. team[tm] # 0
      BY <1>1, <2>2, <2>3 DEF ListingsFit
    <3>2. CASE TeamCreated(t)
      BY <1>1, <3>1, <3>2, TeamCreatedRows DEF TeamCreated, CreationFresh, At
    <3> QED
      BY <1>1, <3>2, TablesChange
  <2> QED
    BY <1>1, <2>1, <2>2, <2>3, <2>4 DEF TeamRowsFound, NextOf
<1>5. CASE u = t /\ TakeLock(t)
  <2>1. pc' = pc /\ call' = call /\ loc' = loc /\ team' = team /\ teamMember' = teamMember
    BY <1>5 DEF TakeLock, tables
  <2> QED
    BY <1>1, <1>3, <1>5, <2>1 DEF TeamRowsFound, Looping, NextOf
<1>6. CASE u = t /\ EntersLoop(t)
  <2>1. /\ team' = team /\ teamMember' = teamMember /\ call' = call
        /\ pc[t] = "leave_orgs" /\ pc'[t] = "leave_next"
        /\ loc'[t].rest = {o \in Orgs : member[o][call[t].by] # NoMember}
    BY <1>6 DEF EntersLoop, SameLoop, tables
  <2>2. call[t].by \in Actors
    BY <1>1, <2>1, CallRows
  <2>3. team[tm] # 0 /\ member[team[tm]][call[t].by].status \in {"active", "suspended"}
    BY <1>1, <1>3, <1>6, <2>1, <2>2 DEF ListingsFit
  <2>4. team[tm] \in Orgs /\ member[team[tm]][call[t].by] # NoMember
    BY <1>1, <2>3 DEF TypeOK, TablesTypeOK, NoMember
  <2> QED
    BY <1>6, <2>1, <2>4
<1>7. CASE u = t /\ StartsOrganization(t)
  <2>1. PICK o \in loc[t].rest :
            /\ NextOf(loc[t].rest, o)
            /\ loc'[t].removing =
                   {m \in Teams : team[m] = o /\ teamMember[m][call[t].by] # "none"}
    BY <1>7 DEF StartsOrganization
  <2>2. /\ team' = team /\ teamMember' = teamMember /\ call' = call /\ Looping(t)
        /\ loc'[t].rest = loc[t].rest /\ loc'[t].removed = loc[t].removed
    BY <1>7 DEF StartsOrganization, SameLoop, tables, Looping
  <2>3. ASSUME NextOf(loc[t].rest, team[tm]) PROVE team[tm] = o
    <3>1. loc[t].rest \subseteq Orgs
      BY <1>1 DEF TypeOK, ControlTypeOK, Locals
    <3>2. o \in Nat /\ team[tm] \in Nat /\ o <= team[tm] /\ team[tm] <= o
      BY <2>1, <2>3, <3>1, IdentifiersAssumption DEF NextOf
    <3> QED
      BY <3>2
  <2>4. (NextOf(loc[t].rest, team[tm]))' => NextOf(loc[t].rest, team[tm])
    BY <2>2 DEF NextOf
  <2> QED
    BY <1>1, <1>3, <1>7, <2>1, <2>2, <2>3, <2>4 DEF TeamRowsFound
<1>8. CASE u = t /\ RecordsOrganization(t)
  <2>1. PICK o \in loc[t].rest :
            /\ NextOf(loc[t].rest, o) /\ loc'[t].rest = loc[t].rest \ {o}
            /\ loc'[t].removed = loc[t].removed \cup StillThere(t)
    BY <1>8 DEF RecordsOrganization
  <2>2. /\ team' = team /\ teamMember' = teamMember /\ call' = call /\ Looping(t)
        /\ pc[t] = "leave_audit" /\ pc'[t] = "leave_next"
    BY <1>8 DEF RecordsOrganization, SameLoop, tables, Looping
  <2>3. /\ tm \in loc[t].removed \/ team[tm] \in loc[t].rest
        /\ team[tm] = o => tm \in loc[t].removing
    BY <1>1, <1>3, <1>8, <2>1, <2>2 DEF TeamRowsFound
  <2>4. tm \in loc[t].removing => tm \in StillThere(t)
    BY <1>3, <1>8, <2>2 DEF StillThere
  <2> QED
    BY <1>8, <2>1, <2>2, <2>3, <2>4
<1>9. CASE u = t /\ RecordsChannels(t)
  <2>1. /\ team' = team /\ teamMember' = teamMember /\ call' = call /\ Looping(t)
        /\ loc'[t].rest = loc[t].rest /\ loc'[t].removed = loc[t].removed
        /\ pc'[t] = "leave_next"
    BY <1>9 DEF RecordsChannels, SameLoop, tables, Looping
  <2> QED
    BY <1>1, <1>3, <1>9, <2>1 DEF TeamRowsFound
<1> QED
  BY <1>1, <1>3, <1>4, <1>5, <1>6, <1>7, <1>8, <1>9, LoopActs DEF Looping

\* A channel listing of a leaver is one that it has removed or will come to.
LEMMA ListingsFoundStep ==
    ASSUME DepartureInvariant, NEW t \in Tx, Begin(t) \/ Step(t) \/ Cancel(t)
    PROVE  ListingsFound'
<1>1. TypeOK /\ CourseOK /\ ListingsFound /\ ListingsFit /\ CreationFresh /\ KeysResolve
  BY DEF DepartureInvariant, OwnerInvariant
<1>2. Begin(t) \/ TakeLock(t) \/ Ends(t) \/ MovesOn(t)
  BY <1>1, StepKinds
<1>3. SUFFICES ASSUME NEW u \in Tx, Looping(u)', NEW ch \in Channels,
                      call'[u].by \in channelMember'[ch]
               PROVE  (ch \in loc[u].unlisted \/ channel[ch].org \in loc[u].listed)'
  BY DEF ListingsFound
<1>4. CASE u # t
  <2>1. pc'[u] = pc[u] /\ call'[u] = call[u] /\ loc'[u] = loc[u]
    BY <1>1, <1>2, <1>4, OthersUnchanged
  <2>2. Looping(u) /\ call[u].by \in Actors
    BY <1>3, <1>4, <2>1, LeaverUntouched DEF Looping
  <2>3. call[u].by \in channelMember[ch]
    <3>1. CASE ChannelListed(t)
      <4>1. call[t].who # call[u].by
        BY <1>4, <2>2, <3>1, LeaverUntouched
      <4>2. \/ channelMember'[ch] = channelMember[ch] \cup {call[t].who}
            \/ channelMember'[ch] = channelMember[ch]
        BY <1>1, <3>1, ChannelListedRows
      <4> QED
        BY <1>3, <2>1, <4>1, <4>2
    <3>2. CASE Left(t)
      BY <1>1, <1>3, <2>1, <2>2, <3>2, LeftRows
    <3> QED
      BY <1>1, <1>3, <2>1, <3>1, <3>2, TablesChange
  <2>4. channel'[ch] = channel[ch]
    <3>1. channel[ch].org # 0
      BY <1>1, <2>3 DEF ListingsFit, KeysResolve
    <3>2. CASE ChannelCreated(t)
      BY <1>1, <3>1, <3>2, ChannelCreatedRows DEF ChannelCreated, CreationFresh, At
    <3> QED
      BY <1>1, <3>2, TablesChange
  <2> QED
    BY <1>1, <2>1, <2>2, <2>3, <2>4 DEF ListingsFound
<1>5. CASE u = t /\ TakeLock(t)
  <2>1. /\ pc' = pc /\ call' = call /\ loc' = loc /\ channel' = channel
        /\ channelMember' = channelMember
    BY <1>5 DEF TakeLock, tables
  <2> QED
    BY <1>1, <1>3, <1>5, <2>1 DEF ListingsFound, Looping
<1>6. CASE u = t /\ EntersLoop(t)
  <2>1. /\ channel' = channel /\ channelMember' = channelMember /\ call' = call
        /\ loc'[t].listed = {o \in Orgs : \E c \in Channels :
                                 channel[c].org = o /\ call[t].by \in channelMember[c]}
    BY <1>6 DEF EntersLoop, SameLoop, tables
  <2>2. channel[ch].org # 0
    BY <1>1, <1>3, <1>6, <2>1 DEF ListingsFit, KeysResolve
  <2>3. channel[ch].org \in Orgs
    BY <1>1, <2>2 DEF TypeOK, TablesTypeOK
  <2> QED
    BY <1>3, <1>6, <2>1, <2>3
<1>7. CASE u = t /\ (StartsOrganization(t) \/ RecordsOrganization(t))
  <2>1. /\ channel' = channel /\ channelMember' = channelMember /\ call' = call /\ Looping(t)
        /\ loc'[t].listed = loc[t].listed /\ loc'[t].unlisted = loc[t].unlisted
    BY <1>7 DEF StartsOrganization, RecordsOrganization, SameLoop, tables, Looping
  <2> QED
    BY <1>1, <1>3, <1>7, <2>1 DEF ListingsFound
<1>8. CASE u = t /\ RecordsChannels(t)
  <2>1. PICK o \in loc[t].listed :
            /\ loc'[t].listed = loc[t].listed \ {o}
            /\ loc'[t].unlisted = loc[t].unlisted \cup
                   {c \in Channels : channel[c].org = o /\ call[t].by \in channelMember[c]}
    BY <1>8 DEF RecordsChannels
  <2>2. /\ channel' = channel /\ channelMember' = channelMember /\ call' = call /\ Looping(t)
    BY <1>8 DEF RecordsChannels, SameLoop, tables, Looping
  <2>3. ch \in loc[t].unlisted \/ channel[ch].org \in loc[t].listed
    BY <1>1, <1>3, <1>8, <2>2 DEF ListingsFound
  <2> QED
    BY <1>3, <1>8, <2>1, <2>2, <2>3
<1> QED
  BY <1>1, <1>3, <1>4, <1>5, <1>6, <1>7, <1>8, LoopActs DEF Looping
\* A row that a membership operation writes is of a live actor, and stays so.
LEMMA WrittenMember ==
    ASSUME DepartureInvariant, NEW t \in Tx, MemberWritten(t)
    PROVE  /\ call[t].org \in Orgs /\ call[t].who \in Actors
           /\ member[call[t].org][call[t].who] # NoMember
           /\ member[call[t].org][call[t].who].status \in {"active", "suspended"}
           /\ member'[call[t].org][call[t].who] = Member(NewRole(call[t]), NewStatus(call[t]))
           /\ NewStatus(call[t]) \in {"active", "suspended"}
<1>1. TypeOK /\ CourseOK /\ TargetStands /\ WritesMember(t)
  BY DEF DepartureInvariant, OwnerInvariant, MemberWritten
<1>2. call[t].org \in Orgs /\ call[t].who \in Actors
  BY <1>1, CallFacts DEF WritesMember, CourseOK, WithTarget
<1>3. member[call[t].org][call[t].who].status \in {"active", "suspended"}
  BY <1>1 DEF TargetStands, WritesMember
<1>4. member[call[t].org][call[t].who] # NoMember
  BY <1>3 DEF NoMember
<1>5. NewStatus(call[t]) \in {"active", "suspended"}
  BY <1>1, <1>3 DEF NewStatus, WritesMember
<1>6. member'[call[t].org][call[t].who] = Member(NewRole(call[t]), NewStatus(call[t]))
  BY <1>1, <1>2, <1>4, WritesRows DEF SetColumns
<1> QED
  BY <1>2, <1>3, <1>4, <1>5, <1>6

\* A departure leaves the leaver nothing: its loop has found every row.
LEMMA LeftNothing ==
    ASSUME DepartureInvariant, NEW t \in Tx, Left(t)
    PROVE  /\ \A tm \in Teams : teamMember'[tm][call[t].by] = "none"
           /\ \A ch \in Channels : call[t].by \notin channelMember'[ch]
           /\ call[t].by \notin users'
           /\ \A o \in Orgs : member'[o][call[t].by] # NoMember =>
                  member'[o][call[t].by].status = "left"
<1>1. TypeOK /\ CourseOK /\ MembershipsFound /\ TeamRowsFound /\ ListingsFound
  BY DEF DepartureInvariant, OwnerInvariant
<1>2. call[t].by \in Actors /\ Looping(t) /\ loc[t].rest = {} /\ loc[t].listed = {}
  <2>1. call[t].by \in Actors
    BY <1>1, CallRows DEF Left, LeaveCommit, At
  <2> QED
    BY <1>1, <2>1, LeftRows DEF Looping
<1>3. ASSUME NEW tm \in Teams PROVE teamMember'[tm][call[t].by] = "none"
  <2>1. teamMember[tm][call[t].by] # "none" => tm \in loc[t].removed
    BY <1>1, <1>2 DEF TeamRowsFound
  <2> QED
    BY <1>1, <1>2, <2>1, LeftRows
<1>4. ASSUME NEW ch \in Channels PROVE call[t].by \notin channelMember'[ch]
  <2>1. call[t].by \in channelMember[ch] => ch \in loc[t].unlisted
    BY <1>1, <1>2 DEF ListingsFound
  <2> QED
    BY <1>1, <1>2, <2>1, LeftRows
<1>5. call[t].by \notin users'
  BY <1>1, <1>2, LeftRows
<1>6. ASSUME NEW o \in Orgs, member'[o][call[t].by] # NoMember
      PROVE  member'[o][call[t].by].status = "left"
  <2>1. member[o][call[t].by] # NoMember
    BY <1>1, <1>2, <1>6, LeftRows DEF SetColumns
  <2>2. o \in loc[t].memberships
    BY <1>1, <1>2, <2>1 DEF MembershipsFound
  <2>3. member'[o][call[t].by] =
            SetColumns(member[o][call[t].by], member[o][call[t].by].role, "left")
    BY <1>1, <1>2, <2>2, LeftRows
  <2> QED
    BY <2>1, <2>3 DEF SetColumns, Member
<1> QED
  BY <1>3, <1>4, <1>5, <1>6

\* Nothing is written about a person who has left.
LEMMA DepartureErasesStep ==
    ASSUME DepartureInvariant, NEW t \in Tx, Begin(t) \/ Step(t) \/ Cancel(t)
    PROVE  DepartureErases'
<1>1. /\ TypeOK /\ CourseOK /\ DepartureErases /\ SubjectKnown /\ TargetStands
  BY DEF DepartureInvariant, OwnerInvariant
<1>2. SUFFICES ASSUME NEW a \in Actors
               PROVE  /\ actor'[a] = "departed" =>
                             /\ \A tm \in Teams : teamMember'[tm][a] = "none"
                             /\ \A ch \in Channels : a \notin channelMember'[ch]
                             /\ a \notin users'
                      /\ \A o \in Orgs : member'[o][a] # NoMember =>
                             (member'[o][a].status = "left" <=> actor'[a] = "departed")
  BY DEF DepartureErases
<1>3. CASE Left(t)
  <2>1. CASE a = call[t].by
    <3>1. actor'[a] = "departed"
      BY <1>1, <1>3, <2>1, LeftRows
    <3> QED
      BY <1>3, <2>1, <3>1, LeftNothing
  <2>2. CASE a # call[t].by
    <3>1. /\ actor'[a] = actor[a]
          /\ a \in users' <=> a \in users
          /\ \A o \in Orgs : member'[o][a] = member[o][a]
          /\ \A tm \in Teams : teamMember'[tm][a] = teamMember[tm][a]
          /\ \A ch \in Channels : a \in channelMember'[ch] <=> a \in channelMember[ch]
      BY <1>1, <1>3, <2>2, LeftRows
    <3> QED
      BY <1>1, <3>1 DEF DepartureErases
  <2> QED
    BY <2>1, <2>2
<1>4. CASE ~Left(t)
  <2>1. actor' = actor /\ users' = users
    BY <1>1, <1>4, TablesChange
  <2>2. ASSUME actor[a] = "departed", NEW tm \in Teams
        PROVE  teamMember'[tm][a] = "none"
    <3>1. teamMember[tm][a] = "none"
      BY <1>1, <2>2 DEF DepartureErases
    <3>2. CASE TeamMemberWritten(t) /\ tm = call[t].team /\ a = call[t].who
      <4>1. /\ call[t].org \in Orgs /\ pc[t] = "write"
            /\ teamMember'[tm][a] = NewTeamRole(call[t])
            /\ call[t].op \in {"add_team_member", "change_team_member_role",
                               "remove_team_member"}
        <5>1. /\ pc[t] = "write"
              /\ call[t].op \in {"add_team_member", "change_team_member_role",
                                 "remove_team_member"}
          BY <3>2 DEF TeamMemberWritten
        <5> QED
          BY <1>1, <3>2, <5>1, TeamMemberRows
      <4>2. call[t].op # "add_team_member"
        <5>1. ASSUME call[t].op = "add_team_member" PROVE FALSE
          <6>1. member[call[t].org][a].status = "active"
            BY <1>1, <3>2, <4>1, <5>1 DEF TargetStands
          <6> QED
            BY <1>1, <2>2, <4>1, <6>1 DEF DepartureErases, NoMember
        <5> QED
          BY <5>1
      <4> QED
        BY <3>1, <3>2, <4>1, <4>2 DEF NewTeamRole
    <3>3. CASE TeamMemberWritten(t) /\ ~(tm = call[t].team /\ a = call[t].who)
      BY <1>1, <3>1, <3>3, TeamMemberRows
    <3> QED
      BY <1>1, <1>4, <3>1, <3>2, <3>3, TablesChange
  <2>3. ASSUME actor[a] = "departed", NEW ch \in Channels
        PROVE  a \notin channelMember'[ch]
    <3>1. a \notin channelMember[ch]
      BY <1>1, <2>3 DEF DepartureErases
    <3>2. CASE ChannelListed(t)
      <4>1. /\ pc[t] = "write" /\ call[t].op = "add_channel_member"
            /\ Subject(call[t]) = call[t].who
        BY <3>2 DEF ChannelListed, At, Subject
      <4>2. actor[call[t].who] = "live"
        BY <1>1, <4>1 DEF SubjectKnown, TargetStands
      <4>3. \/ channelMember'[ch] = channelMember[ch] \cup {call[t].who}
            \/ channelMember'[ch] = channelMember[ch]
        BY <1>1, <3>2, ChannelListedRows
      <4> QED
        BY <2>3, <3>1, <4>2, <4>3
    <3> QED
      BY <1>1, <1>4, <3>1, <3>2, TablesChange
  <2>4. ASSUME NEW o \in Orgs, member'[o][a] # NoMember
        PROVE  member'[o][a].status = "left" <=> actor[a] = "departed"
    <3>1. CASE Founded(t)
      <4>1. Founds(t) /\ actor[call[t].by] = "live"
        BY <1>1, <3>1 DEF Founded, SubjectKnown, At
      <4>2. CASE o = call[t].org /\ a = call[t].by
        BY <1>1, <4>1, <4>2, FoundsRows DEF Member
      <4>3. CASE ~(o = call[t].org /\ a = call[t].by)
        BY <1>1, <2>4, <4>1, <4>3, FoundsRows DEF DepartureErases
      <4> QED
        BY <4>2, <4>3
    <3>2. CASE MemberWritten(t)
      <4>1. WritesMember(t)
        BY <3>2 DEF MemberWritten
      <4>2. CASE o = call[t].org /\ a = call[t].who
        <5>1. /\ member[o][a] # NoMember /\ member[o][a].status # "left"
              /\ member'[o][a].status # "left"
          <6>1. member'[o][a] = Member(NewRole(call[t]), NewStatus(call[t]))
            BY <3>2, <4>2, WrittenMember
          <6>2. member'[o][a].status = NewStatus(call[t])
            BY <6>1 DEF Member
          <6> QED
            BY <3>2, <4>2, <6>2, WrittenMember
        <5> QED
          BY <1>1, <5>1 DEF DepartureErases
      <4>3. CASE ~(o = call[t].org /\ a = call[t].who)
        BY <1>1, <2>4, <4>1, <4>3, WritesRows DEF DepartureErases
      <4> QED
        BY <4>2, <4>3
    <3> QED
      BY <1>1, <1>4, <2>4, <3>1, <3>2, TablesChange DEF DepartureErases
  <2> QED
    BY <1>1, <2>1, <2>2, <2>3, <2>4 DEF DepartureErases
<1> QED
  BY <1>3, <1>4
\* A team row that stands has its team, and its membership stays what it was or is.
LEMMA ListingsFitStep ==
    ASSUME DepartureInvariant, NEW t \in Tx, Begin(t) \/ Step(t) \/ Cancel(t)
    PROVE  ListingsFit'
<1>1. /\ TypeOK /\ CourseOK /\ ListingsFit /\ CreationFresh /\ KeysResolve /\ TargetStands
      /\ FoundingFresh
  BY DEF DepartureInvariant, OwnerInvariant
<1>2. ASSUME NEW tm \in Teams, NEW a \in Actors, teamMember'[tm][a] # "none"
      PROVE  /\ team'[tm] # 0
             /\ member'[team'[tm]][a].status \in {"active", "suspended"}
  <2>1. team[tm] \in Orgs /\ member[team[tm]][a].status \in {"active", "suspended"}
    <3>1. CASE teamMember[tm][a] # "none"
      BY <1>1, <3>1 DEF ListingsFit, TypeOK, TablesTypeOK
    <3>2. CASE TeamMemberWritten(t) /\ teamMember[tm][a] = "none"
      <4>1. tm = call[t].team /\ a = call[t].who /\ NewTeamRole(call[t]) # "none"
        BY <1>1, <1>2, <3>2, TeamMemberRows
      <4>2. /\ pc[t] = "write"
            /\ call[t].op \in {"add_team_member", "change_team_member_role",
                               "remove_team_member"}
        BY <3>2 DEF TeamMemberWritten
      <4>3. call[t].op = "add_team_member"
        BY <3>2, <4>1, <4>2 DEF NewTeamRole
      <4>4. call[t].org \in Orgs
        BY <1>1, <3>2, TeamMemberRows
      <4> QED
        BY <1>1, <4>1, <4>2, <4>3, <4>4 DEF TargetStands
    <3>3. CASE Left(t)
      BY <1>1, <1>2, <3>1, <3>3, LeftRows
    <3> QED
      BY <1>1, <1>2, <3>1, <3>2, <3>3, TablesChange
  <2>2. team'[tm] = team[tm] /\ team[tm] # 0
    <3>1. team[tm] # 0
      BY <2>1, IdentifiersAssumption
    <3>2. CASE TeamCreated(t)
      <4>1. team[call[t].team] = 0
        BY <1>1, <3>2 DEF TeamCreated, At, CreationFresh
      <4> QED
        BY <1>1, <3>1, <3>2, <4>1, TeamCreatedRows
    <3> QED
      BY <1>1, <3>1, <3>2, TablesChange
  <2>3. member'[team[tm]][a].status \in {"active", "suspended"}
    <3>1. CASE Founded(t)
      <4>1. Founds(t) /\ member[call[t].org][a] = NoMember
        BY <1>1, <3>1 DEF FoundingFresh, Founds, Founded
      <4>2. team[tm] # call[t].org
        BY <2>1, <4>1 DEF NoMember
      <4> QED
        BY <1>1, <2>1, <4>1, <4>2, FoundsRows
    <3>2. CASE MemberWritten(t)
      <4>1. WritesMember(t)
        BY <3>2 DEF MemberWritten
      <4>2. CASE team[tm] = call[t].org /\ a = call[t].who
        <5>1. member'[team[tm]][a] = Member(NewRole(call[t]), NewStatus(call[t]))
          BY <3>2, <4>2, WrittenMember
        <5>2. member'[team[tm]][a].status = NewStatus(call[t])
          BY <5>1 DEF Member
        <5> QED
          BY <3>2, <5>2, WrittenMember
      <4> QED
        BY <1>1, <2>1, <4>1, <4>2, WritesRows
    <3>3. CASE Left(t)
      <4>1. a # call[t].by
        BY <1>2, <3>3, LeftNothing
      <4> QED
        BY <1>1, <2>1, <3>3, <4>1, LeftRows
    <3> QED
      BY <1>1, <2>1, <3>1, <3>2, <3>3, TablesChange
  <2> QED
    BY <2>2, <2>3
<1>3. ASSUME NEW ch \in Channels, channelMember'[ch] # {}
      PROVE  channel'[ch].team # 0
  <2>1. channel[ch].team # 0
    <3>1. CASE ChannelListed(t) /\ ch = call[t].channel
      BY <1>1, <3>1 DEF ChannelListed, At, TargetStands
    <3>2. CASE ChannelListed(t) /\ ch # call[t].channel
      BY <1>1, <1>3, <3>2, ChannelListedRows DEF ListingsFit
    <3>3. CASE Left(t)
      <4>1. channelMember'[ch] \in SUBSET Actors
        BY <1>1, TypeStep DEF TypeOK, TablesTypeOK
      <4>2. PICK a \in Actors : a \in channelMember'[ch]
        BY <1>3, <4>1
      <4> QED
        BY <1>1, <3>3, <4>2, LeftRows DEF ListingsFit
    <3> QED
      BY <1>1, <1>3, <3>1, <3>2, <3>3, TablesChange DEF ListingsFit
  <2>2. CASE ChannelCreated(t)
    <3>1. channel[call[t].channel].org = 0
      BY <1>1, <2>2 DEF ChannelCreated, At, CreationFresh
    <3>2. ch # call[t].channel
      BY <1>1, <2>1, <3>1 DEF KeysResolve
    <3> QED
      BY <1>1, <2>1, <2>2, <3>2, ChannelCreatedRows
  <2> QED
    BY <1>1, <2>1, <2>2, TablesChange
<1> QED
  BY <1>2, <1>3 DEF ListingsFit

\* A name is written only where the unique key's owner has found none.
LEMMA NamesUniqueStep ==
    ASSUME DepartureInvariant, NEW t \in Tx, Begin(t) \/ Step(t) \/ Cancel(t)
    PROVE  NamesUnique'
<1>1. TypeOK /\ CourseOK /\ NamesUnique
  BY DEF DepartureInvariant, OwnerInvariant
<1>2. ASSUME NEW o \in Orgs, NEW p \in Orgs, slug'[o] = slug'[p], slug'[o] # 0
      PROVE  o = p
  <2>1. CASE Founded(t)
    <3>1. /\ slug' = [slug EXCEPT ![call[t].org] = call[t].name]
          /\ \A q \in Orgs : slug[q] # call[t].name
      BY <2>1 DEF Founded, Founds
    <3> QED
      BY <1>1, <1>2, <3>1 DEF NamesUnique, TypeOK, TablesTypeOK
  <2> QED
    BY <1>1, <1>2, <2>1, TablesChange DEF NamesUnique
<1>3. ASSUME NEW c \in Channels, NEW d \in Channels, channel'[c] = channel'[d],
             channel'[c].org # 0
      PROVE  c = d
  <2>1. CASE ChannelCreated(t)
    <3> DEFINE new == [org |-> call[t].org, team |-> call[t].team, name |-> call[t].name]
    <3>1. \A e \in Channels : channel[e] # new
      BY <2>1 DEF ChannelCreated, NameTaken
    <3>2. ASSUME NEW e \in Channels
          PROVE  channel'[e] = IF e = call[t].channel THEN new ELSE channel[e]
      BY <1>1, <2>1, ChannelCreatedRows
    <3> HIDE DEF new
    <3> QED
      BY <1>1, <1>3, <3>1, <3>2 DEF NamesUnique
  <2> QED
    BY <1>1, <1>3, <2>1, TablesChange DEF NamesUnique
<1> QED
  BY <1>2, <1>3 DEF NamesUnique

\* Every initial state satisfies the inductive invariant.
LEMMA DepartureInvariantInit ==
    ASSUME StoreInit
    PROVE  DepartureInvariant
<1>1. PICK db \in Initial :
          /\ actor = db.actor /\ users = db.users /\ slug = db.slug /\ member = db.member
          /\ team = db.team /\ teamMember = db.teamMember /\ channel = db.channel
          /\ channelMember = db.channelMember
  BY DEF StoreInit
<1>2. Sound(db) /\ db \in Databases
  BY InitialAssumption
<1>3. pc = [t \in Tx |-> "idle"] /\ call = [t \in Tx |-> NoCall]
  BY DEF StoreInit
<1>4. OwnerInvariant /\ TypeOK
  BY OwnerInvariantInit DEF OwnerInvariant
<1>5. KeysResolve
  BY <1>1, <1>2 DEF KeysResolve, Sound
<1>6. CreationFresh
  BY <1>3 DEF CreationFresh, NoCall
<1>7. SubjectKnown /\ TargetStands
  BY <1>3 DEF SubjectKnown, TargetStands
<1>8. MembershipsFound /\ TeamRowsFound /\ ListingsFound
  BY <1>3 DEF MembershipsFound, TeamRowsFound, ListingsFound, Looping
<1>9. DepartureErases
  <2>1. ASSUME NEW a \in Actors, actor[a] = "departed", NEW tm \in Teams
        PROVE  teamMember[tm][a] = "none"
    <3>1. ASSUME teamMember[tm][a] # "none" PROVE FALSE
      <4>1. /\ team[tm] \in Orgs
            /\ member[team[tm]][a].status \in {"active", "suspended"}
        BY <1>1, <1>2, <1>4, <3>1 DEF Sound, TypeOK, TablesTypeOK
      <4>2. member[team[tm]][a] # NoMember
        BY <4>1 DEF NoMember
      <4> QED
        BY <1>1, <1>2, <2>1, <4>1, <4>2 DEF Sound
    <3> QED
      BY <3>1
  <2> QED
    BY <1>1, <1>2, <2>1 DEF DepartureErases, Sound
<1>10. ListingsFit
  <2>1. ASSUME NEW ch \in Channels, channelMember[ch] # {}
        PROVE  channel[ch].team # 0
    <3>1. PICK a \in Actors : a \in channelMember[ch]
      BY <1>4, <2>1 DEF TypeOK, TablesTypeOK
    <3> QED
      BY <1>1, <1>2, <3>1 DEF Sound
  <2> QED
    BY <1>1, <1>2, <2>1 DEF ListingsFit, Sound
<1>11. NamesUnique
  BY <1>1, <1>2 DEF NamesUnique, Sound
<1> QED
  BY <1>4, <1>5, <1>6, <1>7, <1>8, <1>9, <1>10, <1>11 DEF DepartureInvariant

\* Every step preserves the inductive invariant.
LEMMA DepartureInvariantStep ==
    ASSUME DepartureInvariant, [Next]_vars
    PROVE  DepartureInvariant'
<1>1. OwnerInvariant'
  BY OwnerInvariantStep DEF DepartureInvariant
<1>2. CASE UNCHANGED vars
  <2>1. KeysResolve' /\ CreationFresh' /\ NamesUnique'
    BY <1>2 DEF vars, tables, DepartureInvariant, KeysResolve, CreationFresh, NamesUnique
  <2>2. SubjectKnown' /\ TargetStands'
    BY <1>2 DEF vars, tables, locks, DepartureInvariant, SubjectKnown, TargetStands, Claims
  <2>3. MembershipsFound'
    BY <1>2 DEF vars, tables, locks, DepartureInvariant, MembershipsFound, Looping, Claims
  <2>4. TeamRowsFound' /\ ListingsFound'
    BY <1>2 DEF vars, tables, DepartureInvariant, TeamRowsFound, ListingsFound, Looping,
                NextOf
  <2>5. DepartureErases' /\ ListingsFit'
    BY <1>2 DEF vars, tables, DepartureInvariant, DepartureErases, ListingsFit
  <2> QED
    BY <1>1, <2>1, <2>2, <2>3, <2>4, <2>5 DEF DepartureInvariant
<1>3. CASE Next
  <2>1. PICK t \in Tx : Begin(t) \/ Step(t) \/ Cancel(t)
    BY <1>3 DEF Next
  <2>2. KeysResolve' /\ CreationFresh' /\ SubjectKnown' /\ TargetStands'
    BY <2>1, KeysResolveStep, CreationFreshStep, SubjectKnownStep, TargetStandsStep
  <2>3. MembershipsFound' /\ TeamRowsFound' /\ ListingsFound'
    BY <2>1, MembershipsFoundStep, TeamRowsFoundStep, ListingsFoundStep
  <2>4. DepartureErases' /\ ListingsFit' /\ NamesUnique'
    BY <2>1, DepartureErasesStep, ListingsFitStep, NamesUniqueStep
  <2> QED
    BY <1>1, <2>2, <2>3, <2>4 DEF DepartureInvariant
<1> QED
  BY <1>2, <1>3
----------------------------------------------------------------------------
(* What the tables are, in every reachable state.                          *)

(***************************************************************************)
(* leave_service (leaving.rs): a person who left has no membership but     *)
(* "left" rows, no team or channel listing and no users row, whatever was  *)
(* added, reactivated or changed while the departure ran.                  *)
(***************************************************************************)
THEOREM DeparturesErase == Spec => []DepartureErases
<1>1. StoreInit => DepartureInvariant
  BY DepartureInvariantInit
<1>2. DepartureInvariant /\ [Next]_vars => DepartureInvariant'
  BY DepartureInvariantStep
<1>3. DepartureInvariant => DepartureErases
  BY DEF DepartureInvariant
<1> QED
  BY <1>1, <1>2, <1>3, PTL DEF Spec

(***************************************************************************)
(* add_team_member and create_channel (teams.rs, channels.rs): a team row  *)
(* is of a member who has not left, and a listing is in a team channel.    *)
(***************************************************************************)
THEOREM ListingsAlwaysFit == Spec => []ListingsFit
<1>1. StoreInit => DepartureInvariant
  BY DepartureInvariantInit
<1>2. DepartureInvariant /\ [Next]_vars => DepartureInvariant'
  BY DepartureInvariantStep
<1>3. DepartureInvariant => ListingsFit
  BY DEF DepartureInvariant
<1> QED
  BY <1>1, <1>2, <1>3, PTL DEF Spec

(***************************************************************************)
(* create_organization and create_channel: slugs, and channel names in     *)
(* their scope, are unique whatever is created at the same time.           *)
(***************************************************************************)
THEOREM NamesAreUnique == Spec => []NamesUnique
<1>1. StoreInit => DepartureInvariant
  BY DepartureInvariantInit
<1>2. DepartureInvariant /\ [Next]_vars => DepartureInvariant'
  BY DepartureInvariantStep
<1>3. DepartureInvariant => NamesUnique
  BY DEF DepartureInvariant
<1> QED
  BY <1>1, <1>2, <1>3, PTL DEF Spec
----------------------------------------------------------------------------
(* Every change of a membership is a step of Governance.                   *)

\* Whoever has a membership that is not "left" is live.
LEMMA MembersLive ==
    ASSUME DepartureInvariant, NEW o \in Orgs, NEW a \in Actors,
           member[o][a].status \in {"active", "suspended"}
    PROVE  actor[a] = "live"
<1>1. TypeOK /\ KeysResolve /\ DepartureErases
  BY DEF DepartureInvariant, OwnerInvariant
<1>2. member[o][a] # NoMember
  BY DEF NoMember
<1>3. actor[a] # "absent" /\ actor[a] # "departed"
  BY <1>1, <1>2 DEF KeysResolve, DepartureErases
<1>4. actor[a] \in {"absent", "live", "departed"}
  BY <1>1 DEF TypeOK, TablesTypeOK
<1> QED
  BY <1>3, <1>4

\* Only the transaction that commits returns Ok in the step.
LEMMA OneReturns ==
    ASSUME TypeOK, NEW t \in Tx, Committed(t), NEW u \in Tx, result'[u] # result[u]
    PROVE  u = t
<1>1. PICK events : Commit(t, events)
  BY DEF Committed, Founded, MemberWritten, TeamCreated, TeamMemberWritten,
         ChannelCreated, ChannelListed, Left, LeaveCommit
<1> QED
  BY <1>1 DEF Commit, End, TypeOK, ControlTypeOK

\* Whatever an operation of an organization commits, its performer is active there.
LEMMA CommitterActive ==
    ASSUME DepartureInvariant, NEW t \in Tx, Committed(t),
           call[t].op \notin {"create_organization", "leave_service"}
    PROVE  /\ member[call[t].org][call[t].by].status = "active"
           /\ member'[call[t].org][call[t].by].status = "active"
           /\ actor[call[t].by] = "live"
<1>1. TypeOK /\ CourseOK /\ TargetStands
  BY DEF DepartureInvariant, OwnerInvariant
<1>2. ~Founded(t) /\ ~Left(t)
  BY DEF Founded, Left, LeaveCommit, At
<1>3. pc[t] \in {"lock_organization", "write"} /\ PerformerActive(t)
  <2>1. CASE MemberWritten(t) \/ TeamCreated(t) \/ TeamMemberWritten(t) \/ ChannelCreated(t)
    BY <2>1 DEF MemberWritten, WritesMember, TeamCreated, TeamMemberWritten,
                ChannelCreated, At
  <2>2. CASE ChannelListed(t)
    BY <1>1, <2>2 DEF ChannelListed, At, TargetStands, PerformerActive
  <2> QED
    BY <1>2, <2>1, <2>2 DEF Committed
<1>4. call[t].org \in Orgs /\ call[t].by \in Actors
  BY <1>1, <1>3, CallRows
<1>5. PerformerStays(t)
  <2>1. CASE MemberWritten(t)
    BY <2>1 DEF MemberWritten
  <2>2. CASE member' = member
    BY <1>3, <2>2 DEF PerformerActive, PerformerStays
  <2> QED
    BY <1>2, <2>1, <2>2 DEF Committed, TeamCreated, TeamMemberWritten, ChannelCreated,
                            ChannelListed
<1> QED
  BY <1>3, <1>4, <1>5, MembersLive DEF PerformerActive, PerformerStays

(***************************************************************************)
(* context.rs, row security and lock_organization together: an operation   *)
(* of an organization changes its tables only when its performer is a live *)
(* and active member in the very step that commits, however long it waited *)
(* and whatever was suspended or left meanwhile, and remains one.          *)
(***************************************************************************)
THEOREM ActiveMembersCommit == Spec => CommittedByActiveMember
<1>1. StoreInit => DepartureInvariant
  BY DepartureInvariantInit
<1>2. DepartureInvariant /\ [Next]_vars => DepartureInvariant'
  BY DepartureInvariantStep
<1>3. DepartureInvariant /\ [Next]_vars =>
          [\A t \in Tx :
              (/\ result[t] = "none" /\ result'[t] = "Ok" /\ tables' # tables
               /\ call[t].op \notin {"create_organization", "leave_service"})
                  => /\ member[call[t].org][call[t].by].status = "active"
                     /\ member'[call[t].org][call[t].by].status = "active"
                     /\ actor[call[t].by] = "live"]_vars
  <2>1. SUFFICES ASSUME DepartureInvariant, Next, NEW u \in Tx, result[u] = "none",
                        result'[u] = "Ok", tables' # tables,
                        call[u].op \notin {"create_organization", "leave_service"}
                 PROVE  /\ member[call[u].org][call[u].by].status = "active"
                        /\ member'[call[u].org][call[u].by].status = "active"
                        /\ actor[call[u].by] = "live"
    OBVIOUS
  <2>2. TypeOK /\ CourseOK
    BY <2>1 DEF DepartureInvariant, OwnerInvariant
  <2>3. PICK t \in Tx : Begin(t) \/ Step(t) \/ Cancel(t)
    BY <2>1 DEF Next
  <2>4. Committed(t)
    BY <2>1, <2>2, <2>3, CommitKinds
  <2>5. u = t
    BY <2>1, <2>2, <2>4, OneReturns
  <2> QED
    BY <2>1, <2>4, <2>5, CommitterActive
<1> QED
  BY <1>1, <1>2, <1>3, PTL DEF Spec, CommittedByActiveMember

----------------------------------------------------------------------------
(* The refinement of Governance, commit by commit.                         *)

\* A founding is Found.
LEMMA FoundedFounds ==
    ASSUME DepartureInvariant, NEW t \in Tx, Founded(t)
    PROVE  \E a \in Actors, o \in Orgs, n \in Names : Abstract!Found(a, o, n)
<1>1. TypeOK /\ CourseOK /\ SubjectKnown /\ CreationFresh
  BY DEF DepartureInvariant, OwnerInvariant
<1>2. /\ pc[t] = "insert" /\ call[t].op = "create_organization" /\ Founds(t)
      /\ \A p \in Orgs : slug[p] # call[t].name
  BY DEF Founded, Founds
<1>3. call[t].by \in Actors /\ call[t].org \in Orgs /\ call[t].name \in Names
  BY <1>1, <1>2, CallFacts DEF CourseOK
<1>4. actor[call[t].by] = "live" /\ slug[call[t].org] = 0
  BY <1>1, <1>2 DEF SubjectKnown, CreationFresh
<1>5. Abstract!Found(call[t].by, call[t].org, call[t].name)
  BY <1>2, <1>4 DEF Founds, Member, Abstract!Found, Abstract!SetRow, Abstract!Membership
<1> QED
  BY <1>3, <1>5
\* A decision to let an owner go leaves another, where that is promised.
LEMMA DecisionOwned ==
    ASSUME DepartureInvariant, NEW t \in Tx, MemberWritten(t),
           \/ call[t].op = "suspend_member"
           \/ call[t].op = "change_member_role" /\ call[t].role # "owner",
           Abstract!Owns(call[t].org, call[t].who)
    PROVE  Abstract!OwnedWithout(call[t].org, call[t].who)
<1>1. OwnerDecisionStands /\ pc[t] = "write"
  BY DEF DepartureInvariant, OwnerInvariant, MemberWritten, WritesMember
<1>2. ActiveOwner(call[t].org, call[t].who)
  BY DEF Abstract!Owns, Abstract!Membership, ActiveOwner, Member
<1>3. Sighted(call[t].org) => OtherOwner(call[t].org, call[t].who)
  BY <1>1, <1>2 DEF OwnerDecisionStands
<1> QED
  BY <1>3 DEF Sighted, OtherOwner, ActiveOwner, Member, Abstract!OwnedWithout,
              Abstract!Owns, Abstract!Membership

\* A written membership is ChangeRole, Suspend or Reactivate.
LEMMA MemberWrittenGoverned ==
    ASSUME DepartureInvariant, NEW t \in Tx, MemberWritten(t)
    PROVE  \E by \in Actors, o \in Orgs, a \in Actors :
               \/ \E role \in {"owner", "admin", "member"} : Abstract!ChangeRole(by, o, a, role)
               \/ Abstract!Suspend(by, o, a)
               \/ Abstract!Reactivate(by, o, a)
<1> DEFINE c == call[t]
           row == member[c.org][c.who]
<1>1. TypeOK /\ CourseOK /\ TargetStands /\ WritesMember(t) /\ pc[t] = "write"
  BY DEF DepartureInvariant, OwnerInvariant, MemberWritten, WritesMember
<1>2. c.by \in Actors /\ c.org \in Orgs /\ c.who \in Actors
  BY <1>1, CallRows, WrittenMember
<1>3. Abstract!Active(c.org, c.by)
  BY <1>2, MembersLive DEF MemberWritten, PerformerActive, Abstract!Active
<1>4. /\ row # NoMember /\ row.status \in {"active", "suspended"}
  BY WrittenMember
<1>5. /\ member' = [member EXCEPT ![c.org][c.who] = Member(NewRole(c), NewStatus(c))]
      /\ UNCHANGED <<actor, slug>>
      /\ blind' \in {blind, blind \cup {<<c.org, c.who>>}}
      /\ c.op # "reactivate_member" => blind' = blind
      /\ c.op \in {"change_member_role", "suspend_member", "reactivate_member"}
  BY <1>1, <1>4 DEF WritesMember, SetColumns
<1>6. CASE c.op = "change_member_role"
  <2>1. c.role \in {"owner", "admin", "member"}
    BY <1>1, <1>6, CallFacts DEF CourseOK, OrganizationRoles
  <2>2. row.role # c.role
    BY <1>1, <1>6 DEF TargetStands
  <2>3. Abstract!Owns(c.org, c.who) => Abstract!OwnedWithout(c.org, c.who)
    BY <1>6, <2>2, DecisionOwned DEF Abstract!Owns, Abstract!Membership
  <2>4. Abstract!SetRow(c.org, c.who, Abstract!Membership(c.role, row.status))
    BY <1>5, <1>6 DEF NewRole, NewStatus, Member, Abstract!SetRow, Abstract!Membership
  <2>5. Abstract!ChangeRole(c.by, c.org, c.who, c.role)
    BY <1>3, <1>4, <1>5, <1>6, <2>2, <2>3, <2>4 DEF Abstract!ChangeRole
  <2> QED
    BY <1>2, <2>1, <2>5
<1>7. CASE c.op = "suspend_member"
  <2>1. row.status = "active"
    BY <1>1, <1>7 DEF TargetStands
  <2>2. Abstract!Owns(c.org, c.who) => Abstract!OwnedWithout(c.org, c.who)
    BY <1>7, DecisionOwned
  <2>3. Abstract!SetRow(c.org, c.who, Abstract!Membership(row.role, "suspended"))
    BY <1>5, <1>7 DEF NewRole, NewStatus, Member, Abstract!SetRow, Abstract!Membership
  <2>4. Abstract!Suspend(c.by, c.org, c.who)
    BY <1>3, <1>5, <1>7, <2>1, <2>2, <2>3 DEF Abstract!Suspend
  <2> QED
    BY <1>2, <2>4
<1>8. CASE c.op = "reactivate_member"
  <2>1. row.status = "suspended"
    BY <1>1, <1>8 DEF TargetStands
  <2>2. actor[c.who] = "live"
    BY <1>2, <1>4, MembersLive
  <2>3. Abstract!SetRow(c.org, c.who, Abstract!Membership(row.role, "active"))
    BY <1>5, <1>8 DEF NewRole, NewStatus, Member, Abstract!SetRow, Abstract!Membership
  <2>4. Abstract!Reactivate(c.by, c.org, c.who)
    BY <1>3, <1>5, <2>1, <2>2, <2>3 DEF Abstract!Reactivate
  <2> QED
    BY <1>2, <2>4
<1> QED
  BY <1>5, <1>6, <1>7, <1>8

\* A departure is Leave.
LEMMA LeftLeaves ==
    ASSUME DepartureInvariant, NEW t \in Tx, Left(t)
    PROVE  \E a \in Actors : Abstract!Leave(a)
<1> DEFINE a == call[t].by
<1>1. /\ TypeOK /\ CourseOK /\ LeaverLocked /\ LeaverOrganizationsLocked
      /\ OwnerDecisionStands /\ MembershipsFound
  BY DEF DepartureInvariant, OwnerInvariant
<1>2. pc[t] = "leave_next" /\ Leaving(t) /\ Looping(t)
  BY DEF Left, LeaveCommit, At, Leaving, Looping
<1>3. a \in Actors /\ actor[a] = "live"
  BY <1>1, <1>2, CallRows DEF LeaverLocked
<1>4. ASSUME NEW o \in Orgs, Abstract!Owns(o, a), Sighted(o)
      PROVE  \E b \in Actors \ {a} : Abstract!Owns(o, b)
  <2>1. member[o][a].status = "active"
    BY <1>4 DEF Abstract!Owns, Abstract!Membership
  <2>2. o \in loc[t].orgs
    BY <1>1, <1>2, <1>3, <1>4, <2>1 DEF LeaverOrganizationsLocked, Sighted
  <2>3. OtherOwner(o, a)
    BY <1>1, <1>2, <1>4, <2>2 DEF OwnerDecisionStands
  <2> QED
    BY <2>3 DEF OtherOwner, ActiveOwner, Member, Abstract!Owns, Abstract!Membership
<1>5. \A o \in Orgs : Abstract!Owns(o, a) => Abstract!OwnedWithout(o, a)
  BY <1>4 DEF Sighted, Abstract!OwnedWithout
<1>6. /\ member' = [o \in Orgs |-> IF o \in loc[t].memberships
                       THEN [member[o] EXCEPT ![a] = SetColumns(@, @.role, "left")]
                       ELSE member[o]]
      /\ actor' = [actor EXCEPT ![a] = "departed"]
      /\ UNCHANGED <<slug, blind>>
  BY DEF Left, Departs
<1>7. ASSUME NEW o \in Orgs
      PROVE  (IF o \in loc[t].memberships
                  THEN [member[o] EXCEPT ![a] = SetColumns(@, @.role, "left")]
                  ELSE member[o])
             = (IF member[o][a].status = "none" THEN member[o]
                ELSE [member[o] EXCEPT ![a] = Abstract!Membership(@.role, "left")])
  <2>1. o \in loc[t].memberships <=> member[o][a] # NoMember
    BY <1>1, <1>2 DEF MembershipsFound
  <2>2. member[o][a] \in MemberRows
    BY <1>1, <1>3 DEF TypeOK, TablesTypeOK
  <2>3. member[o][a] = NoMember <=> member[o][a].status = "none"
    BY <2>2 DEF MemberRows, Statuses, NoMember
  <2> QED
    BY <2>1, <2>3 DEF SetColumns, Member, Abstract!Membership
<1>8. member' = [o \in Orgs |-> IF member[o][a].status = "none" THEN member[o]
                     ELSE [member[o] EXCEPT ![a] = Abstract!Membership(@.role, "left")]]
  BY <1>6, <1>7
<1>9. Abstract!Leave(a)
  BY <1>3, <1>5, <1>6, <1>8 DEF Abstract!Leave
<1> QED
  BY <1>3, <1>9

(***************************************************************************)
(* The transactions of the four membership operations and of leave_service *)
(* implement the atomic steps of Governance: at the step that commits, the *)
(* guards hold of the tables as they are then.  Joining, which Governance  *)
(* also allows, is what Invites.tla adds.                                  *)
(***************************************************************************)
THEOREM GovernanceImplemented == Spec => ImplementsGovernance
<1>1. StoreInit => DepartureInvariant
  BY DepartureInvariantInit
<1>2. DepartureInvariant /\ [Next]_vars => DepartureInvariant'
  BY DepartureInvariantStep
<1>3. DepartureInvariant /\ [Next]_vars => [Abstract!GNext]_(Abstract!gvars)
  <2>1. SUFFICES ASSUME DepartureInvariant, [Next]_vars,
                        Abstract!gvars' # Abstract!gvars
                 PROVE  Abstract!GNext
    OBVIOUS
  <2>2. TypeOK /\ CourseOK
    BY <2>1 DEF DepartureInvariant, OwnerInvariant
  <2>3. Next
    BY <2>1 DEF vars, tables, Abstract!gvars
  <2>4. PICK t \in Tx : Begin(t) \/ Step(t) \/ Cancel(t)
    BY <2>3 DEF Next
  <2>5. UNCHANGED <<tables, blind>> \/ Committed(t)
    BY <2>2, <2>4, CommitKinds
  <2>6. Founded(t) \/ MemberWritten(t) \/ Left(t)
    BY <2>1, <2>5 DEF tables, Abstract!gvars, Committed, TeamCreated, TeamMemberWritten,
                      ChannelCreated, ChannelListed
  <2>7. \/ \E a \in Actors, o \in Orgs, n \in Names : Abstract!Found(a, o, n)
        \/ \E by \in Actors, o \in Orgs, a \in Actors :
               \/ \E role \in {"owner", "admin", "member"} :
                      Abstract!ChangeRole(by, o, a, role)
               \/ Abstract!Suspend(by, o, a)
               \/ Abstract!Reactivate(by, o, a)
        \/ \E a \in Actors : Abstract!Leave(a)
    BY <2>1, <2>6, FoundedFounds, MemberWrittenGoverned, LeftLeaves
  <2> QED
    BY <2>1, <2>7 DEF Abstract!GNext
<1> QED
  BY <1>1, <1>2, <1>3, PTL DEF Spec, ImplementsGovernance, Abstract!GSpec
----------------------------------------------------------------------------
(* Row security and the records of a departure.                            *)

\* The records of one organization's turn are those of a member of it.
LEMMA TurnAdmitted ==
    ASSUME DepartureInvariant, NEW t \in Tx, Looping(t), NEW o \in loc[t].rest,
           NEW removed, NEW e \in LeaveAudits(t, o, removed)
    PROVE  AuditAdmitted(call[t].by, e)
<1>1. TypeOK /\ MembershipsFound
  BY DEF DepartureInvariant, OwnerInvariant
<1>2. member[o][call[t].by] # NoMember
  BY <1>1 DEF MembershipsFound
<1>3. CASE \E tm \in removed : e = team_member_removed(o, call[t].by, tm, "left_service")
  <2>1. /\ e.org = o /\ e.who = call[t].by /\ e.action = "team.member.removed"
        /\ e.reason = "left_service"
    BY <1>3 DEF team_member_removed, NoEvent
  <2> QED
    BY <1>2, <2>1 DEF AuditAdmitted, AuditAdmittedIn
<1>4. CASE e = member_left(o, call[t].by)
  <2>1. e.org = o /\ e.who = call[t].by /\ e.action = "organization.member.left"
    BY <1>4 DEF member_left, NoEvent
  <2> QED
    BY <1>2, <2>1 DEF AuditAdmitted, AuditAdmittedIn
<1> QED
  BY <1>3, <1>4 DEF LeaveAudits, Leaver

\* The record of a listing is admitted while the listing stands where it is looked for.
LEMMA ListingAdmitted ==
    ASSUME NEW t \in Tx, NEW o, NEW ch \in Channels, NEW seen, channel[ch].org = o,
           call[t].by \in seen[ch]
    PROVE  AuditAdmittedIn(member, seen, call[t].by,
                           channel_member_left(o, call[t].by, ch))
<1>1. PICK e : e = channel_member_left(o, call[t].by, ch)
  OBVIOUS
<1>2. /\ e.org = o /\ e.who = call[t].by /\ e.action = "channel.member.removed"
      /\ e.reason = "left_service" /\ e.channel = ch
  BY <1>1 DEF channel_member_left, NoEvent
<1> QED
  BY <1>1, <1>2 DEF AuditAdmittedIn

\* A step of leave_service ends in a database error only as a deadlock's victim.
LEMMA LeaverNotRefused ==
    ASSUME DepartureInvariant, NEW t \in Tx, Begin(t) \/ Step(t) \/ Cancel(t),
           NEW u \in Tx, call[u].op = "leave_service", result[u] = "none",
           result'[u] = "Database"
    PROVE  \E S \in SUBSET Tx : u \in S /\ Circle(S)
<1>1. TypeOK /\ CourseOK
  BY DEF DepartureInvariant, OwnerInvariant
<1>2. ASSUME NEW r, End(t, r)
      PROVE  u = t /\ r = "Database"
  BY <1>1, <1>2 DEF End, TypeOK, ControlTypeOK
<1>3. ASSUME NEW r, Rollback(t, r)
      PROVE  u = t /\ r = "Database"
  BY <1>2, <1>3 DEF Rollback
<1>4. ~Begin(t) /\ ~TakeLock(t) /\ ~Cancel(t)
  <2>1. ~Rollback(t, "Cancelled")
    BY <1>3
  <2>2. result' # result
    OBVIOUS
  <2> QED
    BY <2>1, <2>2 DEF Begin, TakeLock, Cancel
<1>5. ASSUME NEW events, Commit(t, events) PROVE FALSE
  BY <1>2, <1>5 DEF Commit
<1>6. ASSUME NEW p, NEW m, NEW rows, Start(t, p, m, rows) PROVE FALSE
  BY <1>6 DEF Start
<1>7. u = t
  <2>1. \E r : End(t, r)
    <3>1. TakeLock(t) \/ Ends(t) \/ MovesOn(t)
      BY <1>1, <1>4, StepKinds
    <3>2. ~MovesOn(t)
      BY DEF MovesOn, Advances, ToSlug, ToOrganization, ToOrganizations, ToLoop, Loops, Moves
    <3> QED
      BY <1>4, <3>1, <3>2 DEF Ends
  <2> QED
    BY <1>2, <2>1
<1>8. CASE DeadlockAbort(t)
  BY <1>7, <1>8 DEF DeadlockAbort
<1>9. ~LockOrganization(t)
  BY <1>1, <1>7 DEF LockOrganization, CourseOK
<1>10. ~MembershipStep(t)
  BY <1>7 DEF MembershipStep, CreateOrganization, InsertOrganization, ChangeMemberRole,
              WriteMemberRole, SuspendMember, WriteSuspension, ReactivateMember,
              WriteReactivation, At
<1>11. ~TeamsStep(t) /\ ~ChannelsStep(t)
  BY <1>7 DEF TeamsStep, CreateTeam, AddTeamMember, InsertTeamMember, WriteTeamMembership,
              ChangeTeamMemberRole, WriteTeamRole, RemoveTeamMember, WriteTeamRemoval,
              ChannelsStep, CreateChannel, WriteChannel, AddChannelMember,
              WriteChannelMember, At
<1>12. ~LeavingStep(t)
  <2>1. ~LeaveActor(t) /\ ~LeaveChecks(t) /\ ~LeaveTeams(t) /\ ~LeaveCommit(t)
    <3>1. ~Rollback(t, "NotFound") /\ ~Rollback(t, "LastOwner")
      BY <1>3
    <3>2. ~LeaveActor(t) /\ ~LeaveChecks(t)
      BY <1>6, <3>1 DEF LeaveActor, LeaveChecks
    <3>3. ~LeaveTeams(t) /\ ~LeaveCommit(t)
      BY <1>5, <1>6 DEF LeaveTeams, LeaveCommit
    <3> QED
      BY <3>2, <3>3
  <2>2. ~LeaveAudit(t)
    <3>1. SUFFICES ASSUME LeaveAudit(t) PROVE FALSE
      OBVIOUS
    <3>2. PICK o, removed :
              /\ o \in loc[t].rest /\ At(t, "leave_audit", "leave_service")
              /\ ~ \A e \in LeaveAudits(t, o, removed) : AuditAdmitted(Leaver(t), e)
      BY <1>6, <3>1 DEF LeaveAudit
    <3> QED
      BY <3>2, TurnAdmitted DEF At, Looping, Leaver
  <2>3. ~LeaveChannels(t)
    <3>1. SUFFICES ASSUME LeaveChannels(t) PROVE FALSE
      OBVIOUS
    <3>2. PICK o \in loc[t].listed :
              ~ \A e \in {channel_member_left(o, call[t].by, ch) : ch \in ListedIn(t, o)} :
                    AuditAdmittedIn(member, ListingsLeft(t, loc[t].unlisted), call[t].by, e)
      BY <1>6, <3>1 DEF LeaveChannels, Leaver
    <3>3. PICK ch \in ListedIn(t, o) :
              ~ AuditAdmittedIn(member, ListingsLeft(t, loc[t].unlisted), call[t].by,
                                channel_member_left(o, call[t].by, ch))
      BY <3>2
    <3>4. /\ ch \in Channels /\ channel[ch].org = o
          /\ call[t].by \in ListingsLeft(t, loc[t].unlisted)[ch]
      BY DEF ListedIn, Leaver
    <3> QED
      BY <3>3, <3>4, ListingAdmitted
  <2> QED
    BY <2>1, <2>2, <2>3 DEF LeavingStep
<1> QED
  BY <1>4, <1>8, <1>9, <1>10, <1>11, <1>12 DEF Step

(***************************************************************************)
(* audit_events_insert (the migrations of row security) against leaving.rs:*)
(* the policy admits every record a departure writes, also in organizations*)
(* where the leaver is suspended or only listed, so a departure ends in a  *)
(* database error only as the victim of a deadlock.                        *)
(***************************************************************************)
THEOREM DeparturesAdmitted == Spec => DepartureAdmitted
<1>1. StoreInit => DepartureInvariant
  BY DepartureInvariantInit
<1>2. DepartureInvariant /\ [Next]_vars => DepartureInvariant'
  BY DepartureInvariantStep
<1>3. DepartureInvariant /\ [Next]_vars =>
          [\A t \in Tx :
              (call[t].op = "leave_service" /\ result[t] = "none" /\ result'[t] = "Database")
                  => \E S \in SUBSET Tx : t \in S /\ Circle(S)]_vars
  <2>1. SUFFICES ASSUME DepartureInvariant, Next, NEW u \in Tx,
                        call[u].op = "leave_service", result[u] = "none",
                        result'[u] = "Database"
                 PROVE  \E S \in SUBSET Tx : u \in S /\ Circle(S)
    OBVIOUS
  <2>2. PICK t \in Tx : Begin(t) \/ Step(t) \/ Cancel(t)
    BY <2>1 DEF Next
  <2> QED
    BY <2>1, <2>2, LeaverNotRefused
<1> QED
  BY <1>1, <1>2, <1>3, PTL DEF Spec, DepartureAdmitted
----------------------------------------------------------------------------
(* The order of locks.                                                     *)

\* A set of natural numbers with a member has a least one.
LEMMA LeastNatural ==
    ASSUME NEW T \in SUBSET Nat, T # {}
    PROVE  \E x \in T : \A y \in T : x <= y
<1> DEFINE R == OpToRel(<, Nat)
<1>1. IsWellFoundedOn(R, Nat)
  BY NatLessThanWellFounded, Zenon
<1>2. \A x, y \in Nat : y < x => <<y, x>> \in R
  BY DEF OpToRel
<1> HIDE DEF R
<1>3. PICK x \in T : \A y \in T : ~(<<y, x>> \in R)
  BY <1>1, WFMin
<1>4. ASSUME NEW y \in T PROVE x <= y
  <2>1. ~(y < x)
    BY <1>2, <1>3
  <2> QED
    BY <2>1
<1> QED
  BY <1>4

\* Actors are locked first, then organizations, then what has keys of their own.
LEMMA RowLevels ==
    /\ \A a : Level(ActorRow(a)) = 1 /\ ActorRow(a)[2] = a
    /\ \A o : Level(OrgRow(o)) = 2 /\ OrgRow(o)[2] = o
    /\ \A n : Level(SlugKey(n)) = 3 /\ SlugKey(n)[2] = n
    /\ \A tm, a : Level(TeamMemberRow(tm, a)) = 3
    /\ \A tm, a, o : TeamMemberRow(tm, a) # OrgRow(o) /\ TeamMemberRow(tm, a) # SlugKey(o)
                         /\ TeamMemberRow(tm, a) # ActorRow(o)
    /\ \A tm, a, um, b : TeamMemberRow(tm, a) = TeamMemberRow(um, b) => tm = um /\ a = b
BY DEF Level, ActorRow, OrgRow, SlugKey, TeamMemberRow

LEMMA RowNumbers ==
    ASSUME NEW r \in Rows
    PROVE  Level(r) \in 1 .. 3 /\ r[2] \in Nat
<1>1. r[2] \in Nat
  BY IdentifiersAssumption DEF Rows, ActorRow, OrgRow, TeamMemberRow, SlugKey, ChannelRow,
        MessageKey, InviteRow, EmailKey
<1> QED
  BY <1>1 DEF Level

\* leave_actor is followed by the locks of the organizations, in one statement.
LEMMA LeaverActs ==
    ASSUME TypeOK, CourseOK, NEW t \in Tx, Begin(t) \/ Step(t) \/ Cancel(t),
           pc'[t] = "leave_orgs"
    PROVE  \/ TakeLock(t)
           \/ /\ pc[t] = "leave_actor" /\ UNCHANGED <<tables, blind, held, call>>
              /\ \A r \in todo'[t].rows : \E o \in Orgs : r = OrgRow(o)
              /\ loc'[t].unlisted = loc[t].unlisted
<1>1. Ends(t) => FALSE
  BY DEF Ends, End, TypeOK, ControlTypeOK
<1>2. (Advances(t) \/ ToSlug(t) \/ ToOrganization(t) \/ ToLoop(t) \/ Loops(t)) => FALSE
  BY DEF Advances, ToSlug, ToOrganization, ToLoop, Loops, Moves, TypeOK, ControlTypeOK
<1>3. ~Begin(t)
  BY DEF Begin, TypeOK, ControlTypeOK
<1>4. TakeLock(t) \/ ToOrganizations(t)
  BY <1>1, <1>2, <1>3, StepKinds DEF MovesOn
<1>5. CASE ToOrganizations(t)
  <2>1. pc[t] = "leave_actor" /\ Returned(t) /\ UNCHANGED <<tables, blind, held, call>>
    BY <1>5 DEF ToOrganizations, Moves
  <2>2. ~TakeLock(t) /\ ~Cancel(t) /\ ~DeadlockAbort(t)
    <3>1. ~TakeLock(t)
      BY <2>1 DEF TakeLock, Acquire, Returned
    <3>2. ~Cancel(t) /\ ~DeadlockAbort(t)
      BY <2>1 DEF Cancel, DeadlockAbort, Rollback, End, TypeOK, ControlTypeOK
    <3> QED
      BY <3>1, <3>2
  <2>3. ~MembershipStep(t) /\ ~TeamsStep(t) /\ ~ChannelsStep(t) /\ ~LockOrganization(t)
    <3>1. (Advances(t) \/ ToSlug(t) \/ ToOrganization(t) \/ Ends(t)) => FALSE
      BY <1>1, <1>2
    <3> QED
      BY <3>1, MembershipKinds, TeamsKinds, ChannelsKinds, LockOrganizationKinds
  <2>4. LeaveActor(t)
    BY <1>3, <2>1, <2>2, <2>3
       DEF Step, LeavingStep, LeaveChecks, LeaveTeams, LeaveAudit, LeaveChannels,
           LeaveCommit, At
  <2>5. \E S \in SUBSET Orgs : /\ loc' = [loc EXCEPT ![t].orgs = S]
                               /\ Start(t, "leave_orgs", Update, {OrgRow(o) : o \in S})
    <3>1. ~Rollback(t, "NotFound")
      BY DEF Rollback, End, TypeOK, ControlTypeOK
    <3> QED
      BY <2>4, <3>1 DEF LeaveActor, fukulow_active_organizations
  <2>6. PICK S \in SUBSET Orgs : /\ loc' = [loc EXCEPT ![t].orgs = S]
                                 /\ Start(t, "leave_orgs", Update, {OrgRow(o) : o \in S})
    BY <2>5
  <2>7. todo'[t].rows = {OrgRow(o) : o \in S}
    BY <2>6 DEF Start, Statement, TypeOK, LocksTypeOK
  <2>8. loc'[t].unlisted = loc[t].unlisted
    BY <2>6 DEF TypeOK, ControlTypeOK, Locals
  <2> QED
    BY <2>1, <2>7, <2>8
<1> QED
  BY <1>4, <1>5

\* Taking a row in order leaves the rest in order.
LEMMA OrderTaken ==
    ASSUME TypeOK, NEW t \in Tx, AsksInOrder(t), LoopAsks(t), TakeLock(t)
    PROVE  AsksInOrder(t)' /\ LoopAsks(t)'
<1>1. PICK r \in todo[t].rows :
          /\ IsNext(t, r)
          /\ held' = [held EXCEPT ![t][r] = Strongest(@, todo[t].mode)]
          /\ todo' = [todo EXCEPT ![t] = Statement(@.mode, @.rows \ {r})]
  BY DEF TakeLock, Acquire
<1>2. /\ pc' = pc /\ call' = call /\ loc' = loc /\ channel' = channel
      /\ channelMember' = channelMember
  BY DEF TakeLock, tables
<1>3. todo[t].rows \in SUBSET Rows /\ r \in Rows
  BY DEF TypeOK, LocksTypeOK
<1>4. todo'[t].rows = todo[t].rows \ {r}
  BY <1>1 DEF TypeOK, LocksTypeOK, Statement
<1>5. \A q \in Rows : q # r => held'[t][q] = held[t][q]
  BY <1>1, <1>3 DEF TypeOK, LocksTypeOK
<1>6. AsksInOrder(t)'
  <2>1. pc[t] \notin {"idle", "done"}
    BY DEF AsksInOrder
  <2>2. ASSUME pc[t] \in {"lock_actor", "leave_actor"}, NEW q \in Rows,
               q \in todo'[t].rows \/ held'[t][q] # 0
        PROVE  Level(q) = 1
    BY <1>1, <1>3, <1>4, <1>5, <2>2 DEF AsksInOrder
  <2>3. ASSUME ~Looping(t), NEW p \in Rows, NEW q \in todo'[t].rows, held'[t][p] # 0
        PROVE  Before(p, q)
    <3>1. q \in todo[t].rows /\ q # r /\ q \in Rows
      BY <1>3, <1>4, <2>3
    <3>2. CASE p # r
      BY <1>5, <2>3, <3>1, <3>2 DEF AsksInOrder
    <3>3. CASE p = r
      <4>1. Level(r) = Level(q) /\ r[2] # q[2]
        BY <2>3, <3>1 DEF AsksInOrder
      <4>2. r[2] <= q[2]
        BY <1>1, <3>1 DEF IsNext
      <4>3. r[2] \in Nat /\ q[2] \in Nat
        BY <1>3, <3>1, RowNumbers
      <4>4. r[2] < q[2]
        BY <4>1, <4>2, <4>3
      <4> QED
        BY <3>3, <4>1, <4>4 DEF Before
    <3> QED
      BY <3>2, <3>3
  <2>4. ASSUME ~Looping(t), NEW p \in todo'[t].rows, NEW q \in todo'[t].rows
        PROVE  Level(p) = Level(q) /\ (p[2] = q[2] => p = q)
    BY <1>4, <2>4 DEF AsksInOrder
  <2> QED
    BY <1>2, <2>1, <2>2, <2>3, <2>4 DEF AsksInOrder, Looping
<1>7. LoopAsks(t)'
  <2>1. ASSUME NEW tm \in Teams, NEW a \in Actors,
               TeamMemberRow(tm, a) \in todo'[t].rows \/ held'[t][TeamMemberRow(tm, a)] # 0
        PROVE  Looping(t) /\ a = call[t].by
    <3>1. TeamMemberRow(tm, a) \in Rows
      BY RowFacts
    <3>2. TeamMemberRow(tm, a) \in todo[t].rows \/ held[t][TeamMemberRow(tm, a)] # 0
      BY <1>4, <1>5, <2>1, <3>1
    <3> QED
      BY <3>2 DEF LoopAsks
  <2>2. \A q \in todo'[t].rows : q \in todo[t].rows
    BY <1>4
  <2> QED
    BY <1>2, <2>1, <2>2 DEF LoopAsks, Looping
<1> QED
  BY <1>6, <1>7

\* Who has ended holds nothing and asks for nothing.
LEMMA OrderEnded ==
    ASSUME TypeOK, NEW t \in Tx, Ends(t)
    PROVE  AsksInOrder(t)' /\ LoopAsks(t)'
<1>1. /\ pc'[t] = "done" /\ held'[t] = NoLocks /\ todo'[t] = NoStatement
      /\ loc'[t] = NoLocals
  BY DEF Ends, End, TypeOK, LocksTypeOK, ControlTypeOK
<1>2. todo'[t].rows = {} /\ \A r \in Rows : held'[t][r] = 0
  BY <1>1 DEF NoStatement, NoLocks
<1>3. AsksInOrder(t)'
  BY <1>1, <1>2 DEF AsksInOrder
<1>4. LoopAsks(t)'
  BY <1>1, <1>2, RowFacts DEF LoopAsks, Looping
<1> QED
  BY <1>3, <1>4

\* The first statement asks for actors only.
LEMMA OrderBegun ==
    ASSUME TypeOK, NEW t \in Tx, AsksInOrder(t), LoopAsks(t), Begin(t)
    PROVE  AsksInOrder(t)' /\ LoopAsks(t)'
<1>1. /\ pc[t] = "idle" /\ held' = held
      /\ pc'[t] \in {"lock_actor", "leave_actor"}
  BY DEF Begin, TypeOK, ControlTypeOK
<1>2. \A r \in todo'[t].rows : \E a \in Actors : r = ActorRow(a)
  <2>1. PICK c \in Requests :
            \/ todo' = [todo EXCEPT ![t] = Statement(Update,
                            {ActorRow(a) : a \in {b \in {c.by} : SeesActor(b, b)}})]
            \/ todo' = [todo EXCEPT ![t] = Statement(Share,
                            {ActorRow(a) : a \in LockActorRows(c)})]
    BY DEF Begin
  <2>2. c.by \in Actors /\ Subject(c) \in Actors
    BY RequestsAssumption, CallFacts, SubjectIsActor
  <2>3. \/ todo'[t].rows = {ActorRow(a) : a \in {b \in {c.by} : SeesActor(b, b)}}
        \/ todo'[t].rows = {ActorRow(a) : a \in LockActorRows(c)}
    BY <2>1 DEF Statement, TypeOK, LocksTypeOK
  <2>4. ASSUME NEW r \in todo'[t].rows
        PROVE  r = ActorRow(c.by) \/ r = ActorRow(Subject(c))
    BY <2>3, <2>4 DEF LockActorRows
  <2> QED
    BY <2>2, <2>4
<1>3. \A r \in Rows : held'[t][r] = 0
  BY <1>1 DEF AsksInOrder, NoLocks
<1>4. pc'[t] = "leave_actor" => loc'[t].unlisted = {}
  <2>1. pc'[t] = "leave_actor" => loc' = loc
    BY DEF Begin, TypeOK, ControlTypeOK
  <2> QED
    BY <1>1, <2>1 DEF LoopAsks
<1>5. AsksInOrder(t)'
  <2>1. \A r \in todo'[t].rows : Level(r) = 1
    BY <1>2, RowLevels
  <2>2. \A r, q \in todo'[t].rows : r[2] = q[2] => r = q
    BY <1>2, RowLevels
  <2> QED
    BY <1>1, <1>3, <2>1, <2>2 DEF AsksInOrder
<1>6. LoopAsks(t)'
  <2>1. \A tm \in Teams, a \in Actors :
            TeamMemberRow(tm, a) \notin todo'[t].rows /\ held'[t][TeamMemberRow(tm, a)] = 0
    BY <1>2, <1>3, RowLevels, RowFacts
  <2> QED
    BY <1>1, <1>4, <2>1 DEF LoopAsks, Looping
<1> QED
  BY <1>5, <1>6

\* Every further statement before the loop asks for rows of a later level.
LEMMA OrderOutsideLoop ==
    ASSUME TypeOK, CourseOK, NEW t \in Tx, AsksInOrder(t), LoopAsks(t),
           Step(t), ~TakeLock(t), call[t].op \in OwnerOperations,
           pc'[t] \in {"lock_organization", "insert", "write", "leave_orgs"}
    PROVE  AsksInOrder(t)' /\ LoopAsks(t)'
<1>1. /\ held' = held /\ ~Looping(t)
      /\ \/ todo'[t].rows = {}
         \/ /\ pc[t] \in {"lock_actor", "leave_actor"}
            /\ \/ \E n : todo'[t].rows = {SlugKey(n)}
               \/ \A r \in todo'[t].rows : \E o : r = OrgRow(o)
      /\ pc'[t] = "leave_orgs" => loc'[t].unlisted = {}
  <2>1. CASE pc'[t] \in {"insert", "write"}
    <3>1. Decides(t)
      BY <2>1, WriterActs
    <3>2. held' = held /\ ~Looping(t)
      BY <3>1 DEF Decides, Looping
    <3>3. \/ todo'[t].rows = {}
          \/ pc[t] = "lock_actor" /\ todo'[t].rows = {SlugKey(call[t].name)}
      BY <3>1 DEF Decides, OwnerOperations
    <3> QED
      BY <2>1, <3>2, <3>3
  <2>2. CASE pc'[t] = "lock_organization"
    BY <2>2, LockerActs DEF Looping
  <2>3. CASE pc'[t] = "leave_orgs"
    BY <2>3, LeaverActs DEF Looping, LoopAsks
  <2> QED
    BY <2>1, <2>2, <2>3
<1>2. pc'[t] \notin {"idle", "done", "lock_actor", "leave_actor", "leave_next", "leave_audit"}
  OBVIOUS
<1>3. ASSUME NEW r \in Rows, NEW q \in todo'[t].rows, held'[t][r] # 0
      PROVE  Before(r, q)
  <2>1. Level(r) = 1
    BY <1>1, <1>3 DEF AsksInOrder
  <2>2. Level(q) \in {2, 3}
    BY <1>1, <1>3, RowLevels
  <2> QED
    BY <2>1, <2>2 DEF Before
<1>4. ASSUME NEW r \in todo'[t].rows, NEW q \in todo'[t].rows
      PROVE  Level(r) = Level(q) /\ (r[2] = q[2] => r = q)
  BY <1>1, <1>4, RowLevels
<1>5. AsksInOrder(t)'
  BY <1>2, <1>3, <1>4 DEF AsksInOrder
<1>6. \A tm \in Teams, a \in Actors :
          TeamMemberRow(tm, a) \notin todo'[t].rows /\ held'[t][TeamMemberRow(tm, a)] = 0
  <2>1. ASSUME NEW tm \in Teams, NEW a \in Actors
        PROVE  held'[t][TeamMemberRow(tm, a)] = 0
    BY <1>1 DEF LoopAsks
  <2>2. ASSUME NEW tm \in Teams, NEW a \in Actors
        PROVE  TeamMemberRow(tm, a) \notin todo'[t].rows
    BY <1>1, RowLevels
  <2> QED
    BY <2>1, <2>2
<1>7. LoopAsks(t)'
  BY <1>1, <1>2, <1>6 DEF LoopAsks, Looping
<1> QED
  BY <1>5, <1>7

\* In the loop, a departure asks for its own team rows and for what it records in.
LEMMA OrderInLoop ==
    ASSUME DepartureInvariant, NEW t \in Tx, AsksInOrder(t), LoopAsks(t),
           Step(t), ~TakeLock(t), pc'[t] \in {"leave_next", "leave_audit"}
    PROVE  AsksInOrder(t)' /\ LoopAsks(t)'
<1>1. TypeOK /\ CourseOK /\ MembershipsFound /\ ListingsFit /\ KeysResolve
  BY DEF DepartureInvariant, OwnerInvariant
<1>2. EntersLoop(t) \/ StartsOrganization(t) \/ RecordsOrganization(t) \/ RecordsChannels(t)
  BY <1>1, LoopActs
<1>3. Looping(t)' /\ pc'[t] \notin {"idle", "done", "lock_actor", "leave_actor", "leave_orgs"}
  BY DEF Looping
<1>4. AsksInOrder(t)'
  BY <1>3 DEF AsksInOrder
<1>5. /\ held' = held /\ call' = call /\ channel' = channel /\ channelMember' = channelMember
  BY <1>2 DEF EntersLoop, StartsOrganization, RecordsOrganization, RecordsChannels,
              SameLoop, tables
<1>6. \A ch \in loc[t].unlisted : channel[ch].org # 0 /\ call[t].by \in channelMember[ch]
  BY <1>2 DEF LoopAsks, Looping, EntersLoop, StartsOrganization, RecordsOrganization,
              RecordsChannels
<1>7. \A ch \in loc'[t].unlisted : channel[ch].org # 0 /\ call[t].by \in channelMember[ch]
  <2>1. CASE loc'[t].unlisted = loc[t].unlisted
    BY <1>6, <2>1
  <2>2. CASE RecordsChannels(t)
    <3>1. PICK o \in loc[t].listed : loc'[t].unlisted = loc[t].unlisted \cup
               {ch \in Channels : channel[ch].org = o /\ call[t].by \in channelMember[ch]}
      BY <2>2 DEF RecordsChannels
    <3>2. o # 0
      BY <1>1, IdentifiersAssumption DEF TypeOK, ControlTypeOK, Locals
    <3> QED
      BY <1>6, <3>1, <3>2
  <2> QED
    BY <1>2, <2>1, <2>2 DEF EntersLoop, StartsOrganization, RecordsOrganization, SameLoop
<1>8. /\ pc'[t] = "leave_audit" =>
             \A r \in todo'[t].rows : \E tm \in Teams : r = TeamMemberRow(tm, call[t].by)
      /\ pc'[t] = "leave_next" => \A r \in todo'[t].rows : \E o \in Orgs :
             /\ r = OrgRow(o)
             /\ o \in loc'[t].memberships \/ \E ch \in loc'[t].unlisted : channel[ch].org = o
  <2>1. CASE EntersLoop(t)
    BY <2>1 DEF EntersLoop
  <2>2. CASE StartsOrganization(t)
    <3>1. /\ pc'[t] = "leave_audit" /\ loc'[t].removing \subseteq Teams
          /\ todo'[t].rows = {TeamMemberRow(tm, call[t].by) : tm \in loc'[t].removing}
      BY <2>2 DEF StartsOrganization, Statement
    <3> QED
      BY <3>1
  <2>3. CASE RecordsOrganization(t)
    <3>1. PICK o \in loc[t].rest :
              /\ pc'[t] = "leave_next" /\ loc'[t].memberships = loc[t].memberships
              /\ todo'[t].rows = {OrgRow(e.org) : e \in LeaveAudits(t, o, StillThere(t))}
      BY <2>3 DEF RecordsOrganization, SameLoop, Statement
    <3>2. o \in loc[t].memberships /\ o \in Orgs
      BY <1>1, <2>3, <3>1 DEF MembershipsFound, Looping, RecordsOrganization, TypeOK,
                              ControlTypeOK, Locals
    <3>3. \A e \in LeaveAudits(t, o, StillThere(t)) : e.org = o
      BY DEF LeaveAudits, team_member_removed, member_left, NoEvent
    <3>4. \A r \in todo'[t].rows : r = OrgRow(o)
      BY <3>1, <3>3
    <3> QED
      BY <3>1, <3>2, <3>4
  <2>4. CASE RecordsChannels(t)
    <3>1. PICK o \in loc[t].listed :
              /\ pc'[t] = "leave_next"
              /\ \A r \in todo'[t].rows :
                     r = OrgRow(o) /\ \E ch \in loc'[t].unlisted : channel[ch].org = o
      BY <2>4 DEF RecordsChannels
    <3>2. o \in Orgs
      BY <1>1 DEF TypeOK, ControlTypeOK, Locals
    <3> QED
      BY <3>1, <3>2
  <2> QED
    BY <1>2, <2>1, <2>2, <2>3, <2>4
<1>9. ASSUME NEW tm \in Teams, NEW a \in Actors,
             TeamMemberRow(tm, a) \in todo'[t].rows \/ held'[t][TeamMemberRow(tm, a)] # 0
      PROVE  a = call[t].by
  BY <1>5, <1>8, <1>9, RowLevels DEF LoopAsks
<1>10. LoopAsks(t)'
  BY <1>3, <1>5, <1>7, <1>8, <1>9 DEF LoopAsks
<1> QED
  BY <1>4, <1>10

\* What the others hold, ask for and are listed in, a step of t leaves alone.
LEMMA OrderOfOthers ==
    ASSUME OnlyOwnerOperations, CircleInvariant, NEW t \in Tx, NEW u \in Tx, t # u,
           Begin(t) \/ Step(t) \/ Cancel(t)
    PROVE  AsksInOrder(u)' /\ LoopAsks(u)'
<1>1. /\ TypeOK /\ CourseOK /\ DepartureInvariant /\ OwnerInvariant /\ LeaverLocked
      /\ AsksInOrder(u) /\ LoopAsks(u)
      /\ pc[t] # "idle" => call[t].op \in OwnerOperations
  BY DEF OnlyOwnerOperations, CircleInvariant, DepartureInvariant, OwnerInvariant
<1>2. Begin(t) \/ TakeLock(t) \/ Ends(t) \/ MovesOn(t)
  BY <1>1, StepKinds
<1>3. /\ pc'[u] = pc[u] /\ call'[u] = call[u] /\ loc'[u] = loc[u]
      /\ held'[u] = held[u] /\ todo'[u] = todo[u]
  BY <1>1, <1>2, OthersUnchanged
<1>4. AsksInOrder(u)'
  BY <1>1, <1>3 DEF AsksInOrder, Looping
<1>5. ~ChannelCreated(t) /\ ~ChannelListed(t)
  BY <1>1 DEF ChannelCreated, ChannelListed, At, OwnerOperations
<1>6. channel' = channel
  BY <1>1, <1>5, TablesChange
<1>7. ASSUME Looping(u), NEW ch \in loc[u].unlisted
      PROVE  call[u].by \in channelMember'[ch]
  <2>1. /\ call[u].by \in channelMember[ch] /\ ch \in Channels /\ Leaving(u)
        /\ call[u].by \in Actors
    BY <1>1, <1>7, CallFacts DEF LoopAsks, Looping, Leaving, CourseOK, TypeOK, ControlTypeOK,
                                 Locals
  <2>2. CASE Left(t)
    <3>1. call[t].by \in Actors /\ Leaving(t)
      BY <1>1, <2>1, <2>2, LeftRows DEF Leaving
    <3>2. held[t][ActorRow(call[t].by)] >= KeyShare
      <4>1. held[t][ActorRow(call[t].by)] >= Update
        BY <1>1, <3>1 DEF LeaverLocked
      <4>2. held[t][ActorRow(call[t].by)] \in 0 .. Update
        BY <1>1, <3>1, RowFacts DEF TypeOK, LocksTypeOK
      <4> QED
        BY <4>1, <4>2 DEF KeyShare, Update
    <3>3. call[t].by # call[u].by
      BY <1>1, <2>1, <3>1, <3>2, LeaverAlone
    <3> QED
      BY <1>1, <2>1, <2>2, <3>3, LeftRows
  <2> QED
    BY <1>1, <1>5, <2>1, <2>2, TablesChange
<1>8. LoopAsks(u)'
  BY <1>1, <1>3, <1>6, <1>7 DEF LoopAsks, Looping
<1> QED
  BY <1>4, <1>8

\* Initially nobody holds or asks for anything.
LEMMA CircleInvariantInit ==
    ASSUME StoreInit
    PROVE  CircleInvariant
<1>1. DepartureInvariant
  BY DepartureInvariantInit
<1>2. SUFFICES ASSUME NEW t \in Tx
               PROVE  /\ AsksInOrder(t) /\ LoopAsks(t)
                      /\ pc[t] # "idle" => call[t] \in Requests
  BY <1>1 DEF CircleInvariant
<1>3. /\ pc[t] = "idle" /\ held[t] = NoLocks /\ todo[t] = NoStatement
      /\ loc[t] = NoLocals
  BY DEF StoreInit
<1>4. todo[t].rows = {} /\ loc[t].unlisted = {} /\ \A r \in Rows : held[t][r] = 0
  BY <1>3 DEF NoStatement, NoLocals, NoLocks
<1>5. AsksInOrder(t)
  BY <1>3, <1>4 DEF AsksInOrder
<1>6. LoopAsks(t)
  BY <1>3, <1>4, RowFacts DEF LoopAsks, Looping
<1> QED
  BY <1>3, <1>5, <1>6

\* Every step preserves the order of locks.
LEMMA CircleInvariantStep ==
    ASSUME OnlyOwnerOperations, CircleInvariant, [Next]_vars
    PROVE  CircleInvariant'
<1>1. DepartureInvariant'
  BY DepartureInvariantStep DEF CircleInvariant
<1>2. CASE UNCHANGED vars
  <2>1. UNCHANGED <<pc, call, loc, held, todo, channel, channelMember>>
    BY <1>2 DEF vars, tables, locks
  <2>2. \A t \in Tx : AsksInOrder(t)'
    BY <2>1 DEF CircleInvariant, AsksInOrder, Looping
  <2>3. \A t \in Tx : LoopAsks(t)'
    BY <2>1 DEF CircleInvariant, LoopAsks, Looping
  <2> QED
    BY <1>1, <2>1, <2>2, <2>3 DEF CircleInvariant
<1>3. CASE Next
  <2>1. PICK t \in Tx : Begin(t) \/ Step(t) \/ Cancel(t)
    BY <1>3 DEF Next
  <2>2. /\ TypeOK /\ CourseOK /\ DepartureInvariant /\ AsksInOrder(t) /\ LoopAsks(t)
        /\ \A u \in Tx : pc[u] # "idle" => call[u] \in Requests
    BY DEF CircleInvariant, DepartureInvariant, OwnerInvariant
  <2>3. Begin(t) \/ TakeLock(t) \/ Ends(t) \/ MovesOn(t)
    BY <2>1, <2>2, StepKinds
  <2>4. AsksInOrder(t)' /\ LoopAsks(t)'
    <3>1. CASE Begin(t)
      BY <2>2, <3>1, OrderBegun
    <3>2. CASE TakeLock(t)
      BY <2>2, <3>2, OrderTaken
    <3>3. CASE Ends(t)
      BY <2>2, <3>3, OrderEnded
    <3>4. CASE MovesOn(t) /\ ~TakeLock(t) /\ ~Begin(t) /\ ~Ends(t)
      <4>1. /\ pc[t] # "idle"
            /\ pc'[t] \in {"lock_organization", "insert", "write", "leave_orgs",
                           "leave_next", "leave_audit"}
        BY <2>2, <3>4 DEF MovesOn, Advances, ToSlug, ToOrganization, ToOrganizations, ToLoop,
                          Loops, Moves, TypeOK, ControlTypeOK
      <4>2. Step(t)
        BY <2>1, <3>4 DEF Cancel, Rollback, Ends, Results
      <4>3. call[t].op \in OwnerOperations
        BY <2>2, <4>1 DEF OnlyOwnerOperations
      <4>4. CASE pc'[t] \in {"leave_next", "leave_audit"}
        BY <2>2, <3>4, <4>2, <4>4, OrderInLoop
      <4>5. CASE pc'[t] \in {"lock_organization", "insert", "write", "leave_orgs"}
        BY <2>2, <3>4, <4>2, <4>3, <4>5, OrderOutsideLoop
      <4> QED
        BY <4>1, <4>4, <4>5
    <3> QED
      BY <2>3, <3>1, <3>2, <3>3, <3>4
  <2>5. \A u \in Tx : AsksInOrder(u)' /\ LoopAsks(u)'
    BY <2>1, <2>4, OrderOfOthers
  <2>6. ASSUME NEW u \in Tx, pc'[u] # "idle" PROVE call'[u] \in Requests
    <3>1. CASE u # t
      BY <2>2, <2>3, <2>6, <3>1, OthersUnchanged
    <3>2. CASE u = t /\ Begin(t)
      <4>1. PICK c \in Requests : call' = [call EXCEPT ![t] = c]
        BY <3>2 DEF Begin
      <4>2. call'[t] = c
        BY <2>2, <4>1 DEF TypeOK, ControlTypeOK
      <4> QED
        BY <3>2, <4>1, <4>2
    <3>3. CASE u = t /\ TakeLock(t)
      BY <2>2, <2>6, <3>3 DEF TakeLock
    <3>4. CASE u = t /\ ~Begin(t) /\ ~TakeLock(t)
      <4>1. pc[t] # "idle"
        BY <2>1, <3>4, StepStarted
      <4>2. call' = call
        BY <2>3, <3>4 DEF Ends, End, MovesOn, Advances, ToSlug, ToOrganization,
                          ToOrganizations, ToLoop, Loops, Moves
      <4> QED
        BY <2>2, <3>4, <4>1, <4>2
    <3> QED
      BY <3>1, <3>2, <3>3, <3>4
  <2> QED
    BY <1>1, <2>5, <2>6 DEF CircleInvariant
<1> QED
  BY <1>2, <1>3

\* A row that u wants in its loop and another holds is in an organization where u is a stray.
LEMMA LoopersStray ==
    ASSUME CircleInvariant, NEW u \in Tx, NEW v \in Tx, u # v, Looping(u),
           NEW q \in todo[u].rows, held[v][q] >= KeyShare
    PROVE  call[u].op = "leave_service" /\ \E o \in Orgs : Stray(o, call[u].by)
<1>1. /\ TypeOK /\ CourseOK /\ OwnerInvariant /\ LocksExclude /\ LeaverLocked
      /\ LeaverOrganizationsLocked /\ MembershipsFound /\ DepartureErases
      /\ LoopAsks(u) /\ LoopAsks(v)
  BY DEF CircleInvariant, DepartureInvariant, OwnerInvariant
<1>2. call[u].op = "leave_service" /\ call[u].by \in Actors /\ Leaving(u)
  BY <1>1, CallFacts DEF CourseOK, Looping, Leaving
<1>3. CASE pc[u] = "leave_audit"
  <2>1. PICK tm \in Teams : q = TeamMemberRow(tm, call[u].by)
    BY <1>1, <1>3 DEF LoopAsks
  <2>2. Looping(v) /\ call[u].by = call[v].by
    BY <1>1, <1>2, <2>1 DEF LoopAsks, KeyShare
  <2>3. held[v][ActorRow(call[u].by)] >= Update /\ ActorRow(call[u].by) \in Rows
    BY <1>1, <1>2, <2>2, RowFacts DEF LeaverLocked, Leaving, Looping
  <2>4. held[v][ActorRow(call[u].by)] >= KeyShare
    BY <1>1, <2>3, Weaker, ModeFacts
  <2>5. FALSE
    BY <1>1, <1>2, <2>4, LeaverAlone
  <2> QED
    BY <2>5
<1>4. CASE pc[u] = "leave_next"
  <2>1. PICK o \in Orgs :
            /\ q = OrgRow(o)
            /\ o \in loc[u].memberships \/ \E ch \in loc[u].unlisted : channel[ch].org = o
    BY <1>1, <1>4 DEF LoopAsks
  <2>2. o \notin loc[u].orgs
    <3>1. ASSUME held[u][OrgRow(o)] >= Update PROVE FALSE
      BY <1>1, <2>1, <3>1, OneUpdater, RowFacts
    <3> QED
      BY <1>1, <1>2, <1>4, <3>1 DEF LeaverOrganizationsLocked
  <2>3. member[o][call[u].by].status # "active" \/ <<o, call[u].by>> \in blind
    BY <1>1, <1>2, <2>2 DEF LeaverOrganizationsLocked
  <2>4. CASE member[o][call[u].by] = NoMember
    <3>1. o \notin loc[u].memberships
      BY <1>1, <2>4 DEF MembershipsFound
    <3>2. PICK ch \in loc[u].unlisted : channel[ch].org = o
      BY <2>1, <3>1
    <3>3. ch \in Channels /\ call[u].by \in channelMember[ch]
      BY <1>1 DEF LoopAsks, TypeOK, ControlTypeOK, Locals
    <3> QED
      BY <1>2, <2>4, <3>2, <3>3 DEF Stray
  <2>5. CASE member[o][call[u].by] # NoMember
    <3>1. member[o][call[u].by].status \in {"active", "suspended", "left"}
      BY <1>1, <1>2, <2>5 DEF TypeOK, TablesTypeOK, MemberRows, Statuses
    <3>2. member[o][call[u].by].status # "left"
      BY <1>1, <1>2, <2>5 DEF DepartureErases, LeaverLocked
    <3> QED
      BY <1>2, <2>3, <3>1, <3>2 DEF Stray
  <2> QED
    BY <2>4, <2>5
<1> QED
  BY <1>3, <1>4 DEF Looping

(***************************************************************************)
(* Whoever waits in a circle waits for a row that somebody holds who in    *)
(* turn waits for a later one: no row would be the last, were it not for a *)
(* departure out of order.                                                 *)
(***************************************************************************)
LEMMA CirclesHaveStrays ==
    ASSUME CircleInvariant, IdentifiersBounded
    PROVE  OnlyStrayLeaversDeadlock
<1>1. SUFFICES ASSUME NEW S \in SUBSET Tx, Stuck(S),
                      \A t \in S : call[t].op = "leave_service" =>
                          \A o \in Orgs : ~Stray(o, call[t].by)
               PROVE  FALSE
  BY DEF OnlyStrayLeaversDeadlock
<1>2. /\ TypeOK /\ \A t \in Tx : AsksInOrder(t)
  BY DEF CircleInvariant, DepartureInvariant, OwnerInvariant
<1> DEFINE Blocks(r, t, u) == /\ IsNext(t, r) /\ u # t
                              /\ Conflict(held[u][r], todo[t].mode)
           W == {r \in Rows : \E t, u \in S : Blocks(r, t, u)}
<1>3. ASSUME NEW u \in S
      PROVE  \E q \in todo[u].rows : q \in W /\ \E v \in S : Blocks(q, u, v)
  <2>1. PICK v \in S : WaitsFor(u, v)
    BY <1>1, <1>3 DEF Stuck
  <2>2. PICK q \in todo[u].rows : Blocks(q, u, v)
    BY <2>1 DEF WaitsFor
  <2>3. q \in Rows
    BY <1>1, <1>2, <1>3, <2>2 DEF TypeOK, LocksTypeOK
  <2> QED
    BY <1>3, <2>2, <2>3
<1>4. ASSUME NEW r \in Rows, NEW t \in S, NEW u \in S, Blocks(r, t, u)
      PROVE  held[u][r] >= KeyShare /\ held[u][r] # 0
  <2>1. held[u][r] \in 0 .. Update /\ todo[t].mode \in Modes
    BY <1>1, <1>2, <1>4 DEF TypeOK, LocksTypeOK
  <2>2. held[u][r] + todo[t].mode > 4
    BY <1>4 DEF Conflict
  <2> QED
    BY <2>1, <2>2 DEF Modes, KeyShare, Update
<1>5. ASSUME NEW r \in W PROVE \E q \in W : Before(r, q)
  <2>1. PICK t \in S, u \in S : Blocks(r, t, u)
    BY <1>5
  <2>2. held[u][r] # 0 /\ r \in Rows
    BY <1>4, <1>5, <2>1
  <2>3. PICK q \in todo[u].rows : q \in W /\ \E v \in S : Blocks(q, u, v)
    BY <1>3, <2>1
  <2>4. PICK v \in S : Blocks(q, u, v)
    BY <2>3
  <2>5. held[v][q] >= KeyShare /\ u # v
    BY <1>4, <2>1, <2>3, <2>4
  <2>6. ~Looping(u)
    BY <1>1, <2>1, <2>3, <2>4, <2>5, LoopersStray
  <2>7. Before(r, q)
    BY <1>1, <1>2, <2>1, <2>2, <2>3, <2>6 DEF AsksInOrder
  <2> QED
    BY <2>3, <2>7
<1>6. W # {} /\ W \subseteq Rows
  <2>1. PICK u \in S : TRUE
    BY <1>1 DEF Stuck
  <2>2. \E q \in todo[u].rows : q \in W
    BY <1>3, <2>1
  <2>3. W \subseteq Rows
    OBVIOUS
  <2> QED
    BY <2>2, <2>3
<1> HIDE DEF W
<1>7. PICK n \in Nat : \A r \in Rows : r[2] <= n
  BY DEF IdentifiersBounded
<1> DEFINE Place(r) == IF Level(r) = 1 THEN r[2] ELSE IF Level(r) = 2 THEN n + 1 + r[2]
                       ELSE n + 1 + n + 1 + r[2]
           Remains(r) == n + 1 + n + 1 + n - Place(r)
<1>8. ASSUME NEW r \in Rows PROVE Remains(r) \in Nat
  <2>1. Level(r) \in 1 .. 3 /\ r[2] \in Nat /\ r[2] <= n
    BY <1>7, RowNumbers
  <2> QED
    BY <2>1
<1>9. ASSUME NEW r \in Rows, NEW q \in Rows, Before(r, q) PROVE Remains(q) < Remains(r)
  <2>1. /\ Level(r) \in 1 .. 3 /\ r[2] \in Nat /\ r[2] <= n
        /\ Level(q) \in 1 .. 3 /\ q[2] \in Nat /\ q[2] <= n
    BY <1>7, RowNumbers
  <2>2. Level(r) < Level(q) \/ (Level(r) = Level(q) /\ r[2] < q[2])
    BY <1>9 DEF Before
  <2> QED
    BY <2>1, <2>2
<1> HIDE DEF Remains
<1>10. PICK x \in {Remains(r) : r \in W} : \A y \in {Remains(r) : r \in W} : x <= y
  <2>1. {Remains(r) : r \in W} \in SUBSET Nat /\ {Remains(r) : r \in W} # {}
    BY <1>6, <1>8
  <2> QED
    BY <2>1, LeastNatural
<1>11. PICK r \in W : x = Remains(r)
  BY <1>10
<1>12. PICK q \in W : Before(r, q)
  BY <1>5
<1>13. x <= Remains(q) /\ Remains(q) < Remains(r) /\ Remains(q) \in Nat /\ Remains(r) \in Nat
  BY <1>6, <1>8, <1>9, <1>10, <1>12
<1> QED
  BY <1>11, <1>13

(***************************************************************************)
(* leaving.rs, ORDER BY id: while only operations that govern (founding,   *)
(* roles, suspension, reactivation, departure) run, any number of them,    *)
(* every circle of waiting transactions has in it a leaver that records    *)
(* its departure in an organization it did not lock in order.              *)
(***************************************************************************)
THEOREM LocksInOrder ==
    ASSUME OnlyOwnerOperations, IdentifiersBounded
    PROVE  Spec => []OnlyStrayLeaversDeadlock
<1>1. StoreInit => CircleInvariant
  BY CircleInvariantInit
<1>2. CircleInvariant /\ [Next]_vars => CircleInvariant'
  BY CircleInvariantStep
<1>3. CircleInvariant => OnlyStrayLeaversDeadlock
  BY CirclesHaveStrays
<1> QED
  BY <1>1, <1>2, <1>3, PTL DEF Spec

(***************************************************************************)
(* operations/mod.rs, lock_actor and lock_organization: while nobody       *)
(* leaves, foundings and changes of members never wait in a circle, in     *)
(* however many organizations and for however many actors they run.        *)
(***************************************************************************)
THEOREM ChangesNeverDeadlock ==
    ASSUME OnlyOwnerOperations, IdentifiersBounded,
           \A c \in Requests : c.op # "leave_service"
    PROVE  Spec => []NoDeadlock
<1>1. StoreInit => CircleInvariant
  BY CircleInvariantInit
<1>2. CircleInvariant /\ [Next]_vars => CircleInvariant'
  BY CircleInvariantStep
<1>3. CircleInvariant => NoDeadlock
  <2>1. SUFFICES ASSUME CircleInvariant, NEW S \in SUBSET Tx, Stuck(S)
                 PROVE  FALSE
    BY DEF NoDeadlock
  <2>2. PICK t \in S : call[t].op = "leave_service"
    BY <2>1, CirclesHaveStrays DEF OnlyStrayLeaversDeadlock
  <2>3. AsksInOrder(t) /\ (pc[t] # "idle" => call[t] \in Requests)
    BY <2>1 DEF CircleInvariant
  <2>4. todo[t].rows # {}
    BY <2>1 DEF Stuck, WaitsFor
  <2>5. pc[t] # "idle"
    BY <2>3, <2>4 DEF AsksInOrder
  <2> QED
    BY <2>2, <2>3, <2>5
<1> QED
  BY <1>1, <1>2, <1>3, PTL DEF Spec
===============================================================================
