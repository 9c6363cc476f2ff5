----------------------------- MODULE TrailProofs ------------------------------
(***************************************************************************)
(* Machine-checked proof that replaying the audit trail gives the tables.  *)
(***************************************************************************)
EXTENDS DepartureProofs, AuditTrail

----------------------------------------------------------------------------
(* The rows that records are about stand until they are committed.         *)

(***************************************************************************)
(* While u holds an organization for update nobody else changes a row of   *)
(* its teams: every team operation takes the same lock, and a departure    *)
(* shares it wherever it has a membership, hence wherever a team row.      *)
(***************************************************************************)
LEMMA TeamRowsStand ==
    ASSUME TrailInvariant, NEW t \in Tx, Begin(t) \/ Step(t) \/ Cancel(t),
           NEW u \in Tx, u # t, NEW tm \in Teams, team[tm] \in Orgs,
           held[u][OrgRow(team[tm])] >= Update, NEW a \in Actors
    PROVE  teamMember'[tm][a] = teamMember[tm][a] /\ team'[tm] = team[tm]
<1>1. /\ DepartureInvariant /\ TypeOK /\ CourseOK /\ LocksExclude /\ OrganizationLocked
      /\ CreationFresh /\ ListingsFit /\ TargetStands /\ TeamTargetStands
  BY DEF TrailInvariant, DepartureInvariant, OwnerInvariant
<1>2. OrgRow(team[tm]) \in Rows /\ ~(held[t][OrgRow(team[tm])] >= KeyShare)
  BY <1>1, RowFacts, OneUpdater
<1>3. team'[tm] = team[tm]
  <2>1. CASE TeamCreated(t)
    <3>1. team[call[t].team] = 0 /\ team[tm] # 0
      BY <1>1, <2>1, IdentifiersAssumption DEF TeamCreated, At, CreationFresh
    <3> QED
      BY <1>1, <2>1, <3>1, TeamCreatedRows
  <2> QED
    BY <1>1, <2>1, TablesChange
<1>4. CASE TeamMemberWritten(t) /\ tm = call[t].team
  <2>1. /\ pc[t] = "write"
        /\ call[t].op \in {"add_team_member", "change_team_member_role",
                           "remove_team_member"}
    BY <1>4 DEF TeamMemberWritten
  <2>2. team[tm] = call[t].org
    BY <1>1, <1>4, <2>1 DEF TargetStands, TeamTargetStands
  <2>3. held[t][OrgRow(team[tm])] >= Update
    BY <1>1, <2>1, <2>2 DEF OrganizationLocked
  <2> QED
    BY <1>1, <1>2, <2>3, Weaker, ModeFacts
<1>5. CASE TeamMemberWritten(t) /\ tm # call[t].team
  BY <1>1, <1>3, <1>5, TeamMemberRows
<1>6. CASE Left(t) /\ a = call[t].by /\ teamMember[tm][a] # "none"
  <2>1. member[team[tm]][a].status \in {"active", "suspended"}
    BY <1>1, <1>6 DEF ListingsFit
  <2>2. member[team[tm]][call[t].by] # NoMember
    BY <1>6, <2>1 DEF NoMember
  <2> QED
    BY <1>1, <1>2, <1>6, <2>2, LeaverHoldsAll
<1>7. CASE Left(t) /\ ~(a = call[t].by /\ teamMember[tm][a] # "none")
  BY <1>1, <1>3, <1>7, LeftRows
<1> QED
  BY <1>1, <1>3, <1>4, <1>5, <1>6, <1>7, TablesChange

\* What was read of a team row stays so until it is written.
LEMMA TeamTargetStandsStep ==
    ASSUME TrailInvariant, NEW t \in Tx, Begin(t) \/ Step(t) \/ Cancel(t)
    PROVE  TeamTargetStands'
<1>1. /\ DepartureInvariant /\ TypeOK /\ CourseOK /\ OrganizationLocked
      /\ TargetStands /\ TeamTargetStands
  BY DEF TrailInvariant, DepartureInvariant, OwnerInvariant
<1>2. SUFFICES ASSUME NEW u \in Tx, pc'[u] = "write",
                      call'[u].op \in {"add_team_member", "change_team_member_role",
                                       "remove_team_member"}
               PROVE  (LET c == call[u]
                           row == teamMember[c.team][c.who]
                       IN /\ c.op = "add_team_member" => row = "none"
                          /\ c.op = "change_team_member_role" =>
                                 team[c.team] = c.org /\ row = loc[u].from /\ row # "none"
                          /\ c.op = "remove_team_member" =>
                                 /\ team[c.team] = c.org /\ row # "none"
                                 /\ Claims(u, TeamMemberRow(c.team, c.who), Update))'
  BY DEF TeamTargetStands
<1>3. CASE u # t
  <2>1. /\ pc'[u] = pc[u] /\ call'[u] = call[u] /\ loc'[u] = loc[u]
        /\ held'[u] = held[u] /\ todo'[u] = todo[u]
    BY <1>1, <1>3, StepKinds, OthersUnchanged
  <2>2. call[u].team \in Teams /\ call[u].who \in Actors /\ call[u].org \in Orgs
    BY <1>1, <1>2, <2>1, CallFacts DEF CourseOK, WithTeam, WithTarget
  <2>3. team[call[u].team] = call[u].org /\ held[u][OrgRow(call[u].org)] >= Update
    BY <1>1, <1>2, <2>1 DEF TargetStands, TeamTargetStands, OrganizationLocked
  <2>4. /\ teamMember'[call[u].team][call[u].who] = teamMember[call[u].team][call[u].who]
        /\ team'[call[u].team] = team[call[u].team]
    BY <1>3, <2>2, <2>3, TeamRowsStand
  <2>5. /\ call[u].op = "add_team_member" => teamMember[call[u].team][call[u].who] = "none"
        /\ call[u].op = "change_team_member_role" =>
               /\ teamMember[call[u].team][call[u].who] = loc[u].from
               /\ teamMember[call[u].team][call[u].who] # "none"
        /\ call[u].op = "remove_team_member" =>
               /\ teamMember[call[u].team][call[u].who] # "none"
               /\ Claims(u, TeamMemberRow(call[u].team, call[u].who), Update)
    BY <1>1, <1>2, <2>1 DEF TeamTargetStands
  <2> QED
    BY <2>1, <2>3, <2>4, <2>5 DEF Claims
<1>4. CASE u = t /\ TakeLock(t)
  <2>1. /\ pc' = pc /\ call' = call /\ loc' = loc /\ team' = team
        /\ teamMember' = teamMember
    BY <1>4 DEF TakeLock, tables
  <2>2. call[t].team \in Teams /\ call[t].who \in Actors
    BY <1>1, <1>2, <1>4, <2>1, CallFacts DEF CourseOK, WithTeam, WithTarget
  <2>3. TeamMemberRow(call[t].team, call[t].who) \in Rows
    BY <2>2, RowFacts
  <2>4. Claims(t, TeamMemberRow(call[t].team, call[t].who), Update)
            => Claims(t, TeamMemberRow(call[t].team, call[t].who), Update)'
    BY <1>1, <1>4, <2>1, <2>3, HeldGrows, ModeFacts
  <2> QED
    BY <1>1, <1>2, <1>4, <2>1, <2>4 DEF TeamTargetStands
<1>5. CASE u = t /\ Decides(t)
  <2>1. /\ call' = call /\ team' = team /\ teamMember' = teamMember
    BY <1>5 DEF Decides, tables
  <2>2. CASE call[t].op = "add_team_member"
    <3>1. teamMember[call[t].team][call[t].who] = "none"
      BY <1>2, <1>5, <2>2 DEF Decides
    <3> QED
      BY <1>5, <2>1, <2>2, <3>1
  <2>3. CASE call[t].op = "change_team_member_role"
    <3>1. loc'[t].from = Listing(t) /\ Listing(t) # "none"
      BY <1>2, <1>5, <2>3 DEF Decides
    <3> QED
      BY <1>5, <2>1, <2>3, <3>1 DEF Listing, TeamMemberSeen
  <2>4. CASE call[t].op = "remove_team_member"
    <3>1. /\ Listing(t) # "none"
          /\ todo'[t] = Statement(Update, {TeamMemberRow(call[t].team, call[t].who)})
      BY <1>2, <1>5, <2>4 DEF Decides
    <3>2. Claims(t, TeamMemberRow(call[t].team, call[t].who), Update)'
      BY <2>1, <3>1 DEF Claims, Statement
    <3> QED
      BY <1>5, <2>1, <2>4, <3>1, <3>2 DEF Listing, TeamMemberSeen
  <2> QED
    BY <1>2, <1>5, <2>1, <2>2, <2>3, <2>4
<1> QED
  BY <1>1, <1>2, <1>3, <1>4, <1>5, WriterActs
\* Who is before the loop of leave_service has removed nothing.
LEMMA NothingRemovedYet ==
    ASSUME TrailInvariant, NEW t \in Tx, Begin(t) \/ Step(t) \/ Cancel(t),
           pc'[t] \in {"idle", "leave_actor", "leave_orgs"}
    PROVE  loc'[t].removed = {}
<1>1. TypeOK /\ CourseOK /\ RemovalsHeld
  BY DEF TrailInvariant, DepartureInvariant, OwnerInvariant
<1>2. /\ loc \in [Tx -> Locals] /\ loc[t] \in Locals /\ pc \in [Tx -> Points]
  BY <1>1 DEF TypeOK, ControlTypeOK
<1>3. CASE Begin(t)
  <2>1. pc[t] = "idle" /\ loc'[t] = loc[t]
    BY <1>2, <1>3 DEF Begin
  <2> QED
    BY <1>1, <2>1 DEF RemovalsHeld
<1>4. CASE TakeLock(t)
  BY <1>1, <1>4 DEF TakeLock, RemovalsHeld
<1>5. ASSUME NEW r, Rollback(t, r) PROVE FALSE
  BY <1>2, <1>5 DEF Rollback, End
<1>6. ~Ends(t)
  BY <1>2 DEF Ends, End
<1>7. ~Advances(t) /\ ~ToSlug(t) /\ ~ToOrganization(t) /\ ~ToLoop(t) /\ ~Loops(t)
  BY <1>2 DEF Advances, ToSlug, ToOrganization, ToLoop, Loops, Moves
<1>8. CASE LeaveActor(t)
  <2>1. /\ At(t, "leave_actor", "leave_service")
        /\ loc' = [loc EXCEPT ![t].orgs = fukulow_active_organizations(Leaver(t))]
    BY <1>5, <1>8 DEF LeaveActor
  <2>2. loc'[t].removed = loc[t].removed
    BY <1>2, <2>1 DEF Locals
  <2> QED
    BY <1>1, <2>1, <2>2 DEF RemovalsHeld, At
<1>9. ~LeaveChecks(t) /\ ~LeaveTeams(t) /\ ~LeaveAudit(t) /\ ~LeaveChannels(t)
  BY <1>2, <1>5 DEF LeaveChecks, LeaveTeams, LeaveAudit, LeaveChannels, Start
<1>10. ~LeaveCommit(t)
  BY <1>2 DEF LeaveCommit, Commit, End
<1>11. ~DeadlockAbort(t) /\ ~Cancel(t) /\ ~LockOrganization(t)
  BY <1>2, <1>5 DEF DeadlockAbort, Cancel, LockOrganization, Start
<1>12. ~MembershipStep(t) /\ ~TeamsStep(t) /\ ~ChannelsStep(t)
  BY <1>1, <1>6, <1>7, MembershipKinds, TeamsKinds, ChannelsKinds
<1> QED
  BY <1>3, <1>4, <1>8, <1>9, <1>10, <1>11, <1>12 DEF Step, LeavingStep

\* A team row that a leaver has locked is not removed by anybody else.
LEMMA RemovedRowStays ==
    ASSUME TrailInvariant, NEW t \in Tx, Begin(t) \/ Step(t) \/ Cancel(t),
           NEW u \in Tx, u # t, Looping(u), NEW tm \in Teams,
           held[u][TeamMemberRow(tm, call[u].by)] >= Update,
           teamMember[tm][call[u].by] # "none"
    PROVE  teamMember'[tm][call[u].by] # "none"
<1>1. /\ DepartureInvariant /\ OwnerInvariant /\ TypeOK /\ CourseOK /\ LocksExclude
      /\ TeamTargetStands /\ LeaverLocked
  BY DEF TrailInvariant, DepartureInvariant, OwnerInvariant
<1>2. call[u].by \in Actors /\ TeamMemberRow(tm, call[u].by) \in Rows
  BY <1>1, CallRows, RowFacts DEF Looping
<1>3. CASE TeamMemberWritten(t) /\ tm = call[t].team /\ call[u].by = call[t].who
  <2>1. /\ pc[t] = "write" /\ Returned(t)
        /\ call[t].op \in {"add_team_member", "change_team_member_role",
                           "remove_team_member"}
    BY <1>3 DEF TeamMemberWritten
  <2>2. call[t].op # "remove_team_member"
    <3>1. ASSUME call[t].op = "remove_team_member" PROVE FALSE
      <4>1. held[t][TeamMemberRow(tm, call[u].by)] >= Update
        BY <1>1, <1>3, <2>1, <3>1, ReturnedHolds DEF TeamTargetStands
      <4> QED
        BY <1>1, <1>2, <4>1, Weaker, ModeFacts, OneUpdater
    <3> QED
      BY <3>1
  <2>3. /\ call[t].role \in TeamRoles
        /\ teamMember'[tm][call[u].by] = NewTeamRole(call[t])
    BY <1>1, <1>2, <1>3, <2>2, TeamMemberRows
  <2> QED
    BY <1>3, <2>2, <2>3 DEF NewTeamRole, TeamRoles
<1>4. CASE TeamMemberWritten(t) /\ ~(tm = call[t].team /\ call[u].by = call[t].who)
  BY <1>1, <1>2, <1>4, TeamMemberRows
<1>5. CASE Left(t)
  <2>1. call[t].by \in Actors /\ Leaving(t) /\ Leaving(u)
    <3>1. call[t].by \in Actors
      BY <1>1, <1>5, CallRows DEF Left, LeaveCommit, At
    <3> QED
      BY <1>1, <1>5, <3>1, LeftRows DEF Leaving, Looping
  <2>2. held[t][ActorRow(call[t].by)] >= KeyShare
    BY <1>1, <2>1, Weaker, ModeFacts, RowFacts DEF LeaverLocked
  <2>3. call[t].by # call[u].by
    BY <1>1, <2>1, <2>2, LeaverAlone
  <2> QED
    BY <1>1, <1>2, <1>5, <2>3, LeftRows
<1> QED
  BY <1>1, <1>3, <1>4, <1>5, TablesChange

\* What a leaver has removed stays locked and there until it commits.
LEMMA RemovalsHeldStep ==
    ASSUME TrailInvariant, NEW t \in Tx, Begin(t) \/ Step(t) \/ Cancel(t)
    PROVE  RemovalsHeld'
<1>1. DepartureInvariant /\ TypeOK /\ CourseOK /\ RemovalsHeld
  BY DEF TrailInvariant, DepartureInvariant, OwnerInvariant
<1>2. TypeOK'
  BY <1>1, TypeStep
<1>3. ASSUME NEW u \in Tx
      PROVE  /\ loc[u].removed \subseteq Teams /\ loc[u].removing \subseteq Teams
             /\ loc'[u].removed \subseteq Teams /\ loc'[u].removing \subseteq Teams
  BY <1>1, <1>2 DEF TypeOK, ControlTypeOK, Locals
<1>4. ASSUME NEW u \in Tx, u # t
      PROVE  /\ pc'[u] = pc[u] /\ call'[u] = call[u] /\ loc'[u] = loc[u]
             /\ held'[u] = held[u] /\ todo'[u] = todo[u]
  BY <1>1, <1>4, StepKinds, OthersUnchanged
<1>5. ASSUME NEW u \in Tx, pc'[u] \in {"idle", "leave_actor", "leave_orgs"}
      PROVE  loc'[u].removed = {}
  <2>1. CASE u # t
    BY <1>1, <1>4, <1>5, <2>1 DEF RemovalsHeld
  <2>2. CASE u = t
    BY <1>5, <2>2, NothingRemovedYet
  <2> QED
    BY <2>1, <2>2
<1>6. ASSUME NEW u \in Tx, Looping(u)', u # t
      PROVE  /\ \A tm \in loc'[u].removed :
                    /\ held'[u][TeamMemberRow(tm, call'[u].by)] >= Update
                    /\ teamMember'[tm][call'[u].by] # "none"
             /\ pc'[u] = "leave_audit" => \A tm \in loc'[u].removing :
                    Claims(u, TeamMemberRow(tm, call[u].by), Update)'
  <2>1. Looping(u)
    BY <1>4, <1>6 DEF Looping
  <2>2. ASSUME NEW tm \in loc[u].removed
        PROVE  /\ held[u][TeamMemberRow(tm, call[u].by)] >= Update
               /\ teamMember'[tm][call[u].by] # "none"
    <3>1. /\ tm \in Teams /\ held[u][TeamMemberRow(tm, call[u].by)] >= Update
          /\ teamMember[tm][call[u].by] # "none"
      BY <1>1, <1>3, <2>1 DEF RemovalsHeld
    <3> QED
      BY <1>6, <2>1, <3>1, RemovedRowStays
  <2>3. pc[u] = "leave_audit" => \A tm \in loc[u].removing :
            Claims(u, TeamMemberRow(tm, call[u].by), Update)
    BY <1>1 DEF RemovalsHeld
  <2> QED
    BY <1>4, <1>6, <2>2, <2>3 DEF Claims
<1>7. ASSUME Looping(t)'
      PROVE  /\ \A tm \in loc'[t].removed :
                    /\ held'[t][TeamMemberRow(tm, call'[t].by)] >= Update
                    /\ teamMember'[tm][call'[t].by] # "none"
             /\ pc'[t] = "leave_audit" => \A tm \in loc'[t].removing :
                    Claims(t, TeamMemberRow(tm, call[t].by), Update)'
  <2>1. CASE TakeLock(t)
    <3>1. /\ pc' = pc /\ call' = call /\ loc' = loc /\ teamMember' = teamMember
          /\ Looping(t)
      BY <1>7, <2>1 DEF TakeLock, tables, Looping
    <3>2. call[t].by \in Actors
      BY <1>1, <3>1, CallRows DEF Looping
    <3>3. ASSUME NEW tm \in Teams
          PROVE  /\ held[t][TeamMemberRow(tm, call[t].by)] >= Update
                        => held'[t][TeamMemberRow(tm, call[t].by)] >= Update
                 /\ Claims(t, TeamMemberRow(tm, call[t].by), Update)
                        => Claims(t, TeamMemberRow(tm, call[t].by), Update)'
      BY <1>1, <2>1, <3>1, <3>2, HeldGrows, ModeFacts, RowFacts
    <3> QED
      BY <1>1, <1>3, <3>1, <3>3 DEF RemovalsHeld
  <2>2. CASE EntersLoop(t)
    BY <1>1, <2>2 DEF EntersLoop, SameLoop, RemovalsHeld
  <2>3. CASE StartsOrganization(t)
    <3>1. /\ Looping(t) /\ call' = call /\ teamMember' = teamMember /\ held' = held
          /\ loc'[t].removed = loc[t].removed
          /\ todo'[t] = Statement(Update,
                            {TeamMemberRow(tm, call[t].by) : tm \in loc'[t].removing})
      BY <2>3 DEF StartsOrganization, SameLoop, tables, Looping
    <3>2. ASSUME NEW tm \in loc'[t].removing
          PROVE  Claims(t, TeamMemberRow(tm, call[t].by), Update)'
      BY <3>1 DEF Claims, Statement
    <3> QED
      BY <1>1, <3>1, <3>2 DEF RemovalsHeld
  <2>4. CASE RecordsOrganization(t)
    <3>1. /\ Looping(t) /\ call' = call /\ teamMember' = teamMember /\ held' = held
          /\ Returned(t) /\ pc[t] = "leave_audit" /\ pc'[t] = "leave_next"
          /\ loc'[t].removed = loc[t].removed \cup StillThere(t)
      BY <2>4 DEF RecordsOrganization, SameLoop, tables, Looping
    <3>2. ASSUME NEW tm \in StillThere(t)
          PROVE  /\ held[t][TeamMemberRow(tm, call[t].by)] >= Update
                 /\ teamMember[tm][call[t].by] # "none"
      BY <1>1, <3>1, ReturnedHolds DEF RemovalsHeld, StillThere
    <3> QED
      BY <1>1, <3>1, <3>2 DEF RemovalsHeld
  <2>5. CASE RecordsChannels(t)
    <3>1. /\ Looping(t) /\ call' = call /\ teamMember' = teamMember /\ held' = held
          /\ pc'[t] = "leave_next" /\ loc'[t].removed = loc[t].removed
      BY <2>5 DEF RecordsChannels, SameLoop, tables, Looping
    <3> QED
      BY <1>1, <3>1 DEF RemovalsHeld
  <2> QED
    BY <1>1, <1>7, <2>1, <2>2, <2>3, <2>4, <2>5, LoopActs DEF Looping
<1>8. ASSUME NEW u \in Tx
      PROVE  (/\ pc[u] \in {"idle", "leave_actor", "leave_orgs"} => loc[u].removed = {}
              /\ Looping(u) => \A tm \in loc[u].removed :
                     /\ held[u][TeamMemberRow(tm, call[u].by)] >= Update
                     /\ teamMember[tm][call[u].by] # "none"
              /\ pc[u] = "leave_audit" => \A tm \in loc[u].removing :
                     Claims(u, TeamMemberRow(tm, call[u].by), Update))'
  <2>1. CASE u # t
    BY <1>5, <1>6, <2>1 DEF Looping
  <2>2. CASE u = t
    BY <1>5, <1>7, <2>2 DEF Looping
  <2> QED
    BY <2>1, <2>2
<1> QED
  BY <1>8 DEF RemovalsHeld
----------------------------------------------------------------------------
(* What replaying the records of one commit makes of each table.           *)

\* The records E of one commit that are about a table, or a row of it.
Of(E, actions) == {e \in E : e.action \in actions}
MemberEvents(E, o, a) == {e \in Of(E, MemberActions) : e.org = o /\ e.who = a}
TeamEvents(E, tm) == {e \in Of(E, {"team.created"}) : e.team = tm}
TeamMemberEvents(E, tm, a) == {e \in Of(E, TeamMemberActions) : e.team = tm /\ e.who = a}
ChannelEvents(E, ch) == {e \in Of(E, {"channel.created"}) : e.channel = ch}
Listed(E, ch) == {e.who : e \in {f \in Of(E, {"channel.member.added"}) : f.channel = ch}}
Unlisted(E, ch) == {e.who : e \in {f \in Of(E, {"channel.member.removed"}) : f.channel = ch}}

CreatedTold(E) ==
    {o \in Orgs : slug[o] # 0} \cup {e.org : e \in Of(E, {"organization.created"})}
        = {o \in Orgs : slug'[o] # 0}
MemberTold(E) ==
    \A o \in Orgs, a \in Actors :
        After(member[o][a], MemberEvents(E, o, a), MemberAfter) = member'[o][a]
TeamTold(E) ==
    \A tm \in Teams : After(team[tm], TeamEvents(E, tm), TeamAfter) = team'[tm]
TeamMemberTold(E) ==
    \A tm \in Teams, a \in Actors :
        After(teamMember[tm][a], TeamMemberEvents(E, tm, a), TeamMemberAfter)
            = teamMember'[tm][a]
ChannelTold(E) ==
    \A ch \in Channels :
        After([org |-> channel[ch].org, team |-> channel[ch].team],
              ChannelEvents(E, ch), ChannelAfter)
            = [org |-> channel'[ch].org, team |-> channel'[ch].team]
ListingTold(E) ==
    \A ch \in Channels :
        (channelMember[ch] \cup Listed(E, ch)) \ Unlisted(E, ch) = channelMember'[ch]

\* A trail that tells the tables tells them after a commit that tells its changes.
LEMMA Retold ==
    ASSUME TypeOK', TrailTellsTheTables, NEW E, trail' = Replay(trail, E),
           CreatedTold(E), MemberTold(E), TeamTold(E), TeamMemberTold(E), ChannelTold(E),
           ListingTold(E)
    PROVE  TrailTellsTheTables'
<1>1. /\ trail.created = {o \in Orgs : slug[o] # 0} /\ trail.member = member
      /\ trail.team = team /\ trail.teamMember = teamMember
      /\ trail.channel = [ch \in Channels |-> [org |-> channel[ch].org,
                                               team |-> channel[ch].team]]
      /\ trail.channelMember = channelMember
  BY DEF TrailTellsTheTables
<1>2. trail' =
        [ created |-> trail.created \cup {e.org : e \in Of(E, {"organization.created"})},
          member |-> [o \in Orgs |-> [a \in Actors |->
              After(trail.member[o][a], MemberEvents(E, o, a), MemberAfter)]],
          team |-> [tm \in Teams |-> After(trail.team[tm], TeamEvents(E, tm), TeamAfter)],
          teamMember |-> [tm \in Teams |-> [a \in Actors |->
              After(trail.teamMember[tm][a], TeamMemberEvents(E, tm, a), TeamMemberAfter)]],
          channel |-> [ch \in Channels |->
              After(trail.channel[ch], ChannelEvents(E, ch), ChannelAfter)],
          channelMember |-> [ch \in Channels |->
              (trail.channelMember[ch] \cup Listed(E, ch)) \ Unlisted(E, ch)] ]
  BY DEF Replay, Of, MemberEvents, TeamEvents, TeamMemberEvents, ChannelEvents, Listed,
         Unlisted
<1>3. trail.created \cup {e.org : e \in Of(E, {"organization.created"})}
          = {o \in Orgs : slug'[o] # 0}
  BY <1>1 DEF CreatedTold
<1>4. [o \in Orgs |-> [a \in Actors |->
           After(trail.member[o][a], MemberEvents(E, o, a), MemberAfter)]] = member'
  <2>1. ASSUME NEW o \in Orgs, NEW a \in Actors
        PROVE  After(trail.member[o][a], MemberEvents(E, o, a), MemberAfter) = member'[o][a]
    BY <1>1 DEF MemberTold
  <2>2. member' \in [Orgs -> [Actors -> MemberRows]]
    BY DEF TypeOK, TablesTypeOK
  <2> QED
    BY <2>1, <2>2
<1>5. [tm \in Teams |-> After(trail.team[tm], TeamEvents(E, tm), TeamAfter)] = team'
  <2>1. ASSUME NEW tm \in Teams
        PROVE  After(trail.team[tm], TeamEvents(E, tm), TeamAfter) = team'[tm]
    BY <1>1 DEF TeamTold
  <2>2. team' \in [Teams -> Orgs \cup {0}]
    BY DEF TypeOK, TablesTypeOK
  <2> QED
    BY <2>1, <2>2
<1>6. [tm \in Teams |-> [a \in Actors |->
           After(trail.teamMember[tm][a], TeamMemberEvents(E, tm, a), TeamMemberAfter)]]
          = teamMember'
  <2>1. ASSUME NEW tm \in Teams, NEW a \in Actors
        PROVE  After(trail.teamMember[tm][a], TeamMemberEvents(E, tm, a), TeamMemberAfter)
                   = teamMember'[tm][a]
    BY <1>1 DEF TeamMemberTold
  <2>2. teamMember' \in [Teams -> [Actors -> TeamRoles \cup {"none"}]]
    BY DEF TypeOK, TablesTypeOK
  <2> QED
    BY <2>1, <2>2
<1>7. [ch \in Channels |-> After(trail.channel[ch], ChannelEvents(E, ch), ChannelAfter)]
          = [ch \in Channels |-> [org |-> channel'[ch].org, team |-> channel'[ch].team]]
  <2>1. ASSUME NEW ch \in Channels
        PROVE  After(trail.channel[ch], ChannelEvents(E, ch), ChannelAfter)
                   = [org |-> channel'[ch].org, team |-> channel'[ch].team]
    BY <1>1 DEF ChannelTold
  <2> QED
    BY <2>1
<1>8. [ch \in Channels |->
           (trail.channelMember[ch] \cup Listed(E, ch)) \ Unlisted(E, ch)] = channelMember'
  <2>1. ASSUME NEW ch \in Channels
        PROVE  (trail.channelMember[ch] \cup Listed(E, ch)) \ Unlisted(E, ch)
                   = channelMember'[ch]
    BY <1>1 DEF ListingTold
  <2>2. channelMember' \in [Channels -> SUBSET Actors]
    BY DEF TypeOK, TablesTypeOK
  <2> QED
    BY <2>1, <2>2
<1> QED
  BY <1>2, <1>3, <1>4, <1>5, <1>6, <1>7, <1>8 DEF TrailTellsTheTables

\* A row that no record of the commit is about stays as it was.
LEMMA AfterNone ==
    ASSUME NEW old, NEW S, S = {}
    PROVE  /\ After(old, S, MemberAfter) = old /\ After(old, S, TeamAfter) = old
           /\ After(old, S, TeamMemberAfter) = old /\ After(old, S, ChannelAfter) = old
BY DEF After

\* The one record about a row says what it becomes.
LEMMA AfterOne ==
    ASSUME NEW old, NEW x
    PROVE  /\ After(old, {x}, MemberAfter) = MemberAfter(old, x)
           /\ After(old, {x}, TeamAfter) = TeamAfter(old, x)
           /\ After(old, {x}, TeamMemberAfter) = TeamMemberAfter(old, x)
           /\ After(old, {x}, ChannelAfter) = ChannelAfter(old, x)
<1>1. (CHOOSE e \in {x} : TRUE) = x
  OBVIOUS
<1>2. {x} # {}
  OBVIOUS
<1> QED
  BY <1>1, <1>2 DEF After

\* A table that a commit neither changes nor records is told.
LEMMA Untold ==
    ASSUME NEW E
    PROVE  /\ slug' = slug /\ Of(E, {"organization.created"}) = {} => CreatedTold(E)
           /\ member' = member /\ Of(E, MemberActions) = {} => MemberTold(E)
           /\ team' = team /\ Of(E, {"team.created"}) = {} => TeamTold(E)
           /\ teamMember' = teamMember /\ Of(E, TeamMemberActions) = {} => TeamMemberTold(E)
           /\ channel' = channel /\ Of(E, {"channel.created"}) = {} => ChannelTold(E)
           /\ channelMember' = channelMember /\ Of(E, {"channel.member.added"}) = {}
                  /\ Of(E, {"channel.member.removed"}) = {} => ListingTold(E)
<1>1. slug' = slug /\ Of(E, {"organization.created"}) = {} => CreatedTold(E)
  BY DEF CreatedTold
<1>2. member' = member /\ Of(E, MemberActions) = {} => MemberTold(E)
  BY AfterNone DEF MemberTold, MemberEvents
<1>3. team' = team /\ Of(E, {"team.created"}) = {} => TeamTold(E)
  BY AfterNone DEF TeamTold, TeamEvents
<1>4. teamMember' = teamMember /\ Of(E, TeamMemberActions) = {} => TeamMemberTold(E)
  BY AfterNone DEF TeamMemberTold, TeamMemberEvents
<1>5. channel' = channel /\ Of(E, {"channel.created"}) = {} => ChannelTold(E)
  BY AfterNone DEF ChannelTold, ChannelEvents
<1>6. channelMember' = channelMember /\ Of(E, {"channel.member.added"}) = {}
          /\ Of(E, {"channel.member.removed"}) = {} => ListingTold(E)
  BY DEF ListingTold, Listed, Unlisted
<1> QED
  BY <1>1, <1>2, <1>3, <1>4, <1>5, <1>6
Told(E) ==
    /\ CreatedTold(E) /\ MemberTold(E) /\ TeamTold(E) /\ TeamMemberTold(E)
    /\ ChannelTold(E) /\ ListingTold(E)

\* A founding's two records tell the organization and its owner.
LEMMA FoundedTold ==
    ASSUME TrailInvariant, NEW t \in Tx, Founded(t)
    PROVE  Told({organization_created(call[t].org),
                 member_added(call[t].org, call[t].by, "owner")})
<1> DEFINE c == call[t]
<1>1. TypeOK /\ CourseOK /\ FoundingFresh /\ Founds(t)
  BY DEF TrailInvariant, DepartureInvariant, OwnerInvariant, Founded
<1>2. PICK x, y : x = organization_created(c.org) /\ y = member_added(c.org, c.by, "owner")
  OBVIOUS
<1>3. /\ x.action = "organization.created" /\ x.org = c.org
      /\ y.action = "organization.member.added" /\ y.org = c.org /\ y.who = c.by
      /\ y.to = "owner"
  BY <1>2 DEF organization_created, member_added, NoEvent
<1>4. /\ Of({x, y}, {"organization.created"}) = {x}
      /\ Of({x, y}, MemberActions) = {y}
      /\ Of({x, y}, {"team.created"}) = {} /\ Of({x, y}, TeamMemberActions) = {}
      /\ Of({x, y}, {"channel.created"}) = {}
      /\ Of({x, y}, {"channel.member.added"}) = {}
      /\ Of({x, y}, {"channel.member.removed"}) = {}
  BY <1>3 DEF Of, MemberActions, TeamMemberActions
<1>5. TeamTold({x, y}) /\ TeamMemberTold({x, y}) /\ ChannelTold({x, y}) /\ ListingTold({x, y})
  BY <1>4, Untold DEF Founded
<1>6. CreatedTold({x, y})
  <2>1. c.org \in Orgs /\ c.by \in Actors
    BY <1>1, CallRows DEF Founds
  <2>2. ASSUME NEW o \in Orgs
        PROVE  slug'[o] # 0 <=> slug[o] # 0 \/ o = c.org
    BY <1>1, <2>1, FoundsRows
  <2> QED
    BY <1>3, <1>4, <2>1, <2>2 DEF CreatedTold
<1>7. MemberTold({x, y})
  <2>1. ASSUME NEW o \in Orgs, NEW a \in Actors
        PROVE  After(member[o][a], MemberEvents({x, y}, o, a), MemberAfter) = member'[o][a]
    <3>1. CASE o = c.org /\ a = c.by
      <4>1. MemberEvents({x, y}, o, a) = {y}
        BY <1>3, <1>4, <3>1 DEF MemberEvents
      <4>2. member[o][a] = NoMember
        BY <1>1, <3>1 DEF FoundingFresh, Founds
      <4>3. MemberAfter(NoMember, y) = Member("owner", "active")
        BY <1>3 DEF MemberAfter
      <4>4. member'[o][a] = Member("owner", "active")
        BY <1>1, <3>1, FoundsRows
      <4> QED
        BY <4>1, <4>2, <4>3, <4>4, AfterOne
    <3>2. CASE ~(o = c.org /\ a = c.by)
      <4>1. MemberEvents({x, y}, o, a) = {}
        BY <1>3, <1>4, <3>2 DEF MemberEvents
      <4>2. After(member[o][a], MemberEvents({x, y}, o, a), MemberAfter) = member[o][a]
        BY <4>1, AfterNone
      <4>3. member'[o][a] = member[o][a]
        BY <1>1, <3>2, FoundsRows
      <4> QED
        BY <4>2, <4>3
    <3> QED
      BY <3>1, <3>2
  <2> QED
    BY <2>1 DEF MemberTold
<1> QED
  BY <1>2, <1>5, <1>6, <1>7 DEF Told

\* The record of a membership operation tells the row it wrote.
LEMMA MemberWrittenTold ==
    ASSUME TrailInvariant, NEW t \in Tx, MemberWritten(t)
    PROVE  Told({MemberEvent(t)})
<1> DEFINE c == call[t]
<1>1. /\ DepartureInvariant /\ TypeOK /\ CourseOK /\ TargetStands /\ WritesMember(t)
  BY DEF TrailInvariant, DepartureInvariant, OwnerInvariant, MemberWritten
<1>2. PICK x : x = MemberEvent(t)
  OBVIOUS
<1>3. /\ pc[t] = "write"
      /\ c.op \in {"change_member_role", "suspend_member", "reactivate_member"}
  BY <1>1 DEF WritesMember
<1>4. /\ x.action \in MemberActions /\ x.org = c.org /\ x.who = c.who
      /\ c.op = "change_member_role" =>
             /\ x.action = "organization.member.role_changed"
             /\ x.from = loc[t].from /\ x.to = c.role
      /\ c.op = "suspend_member" => x.action = "organization.member.suspended"
      /\ c.op = "reactivate_member" => x.action = "organization.member.reactivated"
  BY <1>2, <1>3 DEF MemberEvent, member_role_changed, member_suspended, member_reactivated,
                    NoEvent, MemberActions
<1>5. /\ Of({x}, {"organization.created"}) = {}
      /\ Of({x}, MemberActions) = {x}
      /\ Of({x}, {"team.created"}) = {} /\ Of({x}, TeamMemberActions) = {}
      /\ Of({x}, {"channel.created"}) = {}
      /\ Of({x}, {"channel.member.added"}) = {} /\ Of({x}, {"channel.member.removed"}) = {}
  BY <1>4 DEF Of, MemberActions, TeamMemberActions
<1>6. /\ CreatedTold({x}) /\ TeamTold({x}) /\ TeamMemberTold({x}) /\ ChannelTold({x})
      /\ ListingTold({x})
  BY <1>1, <1>5, Untold DEF MemberWritten, WritesMember
<1>7. MemberTold({x})
  <2>1. ASSUME NEW o \in Orgs, NEW a \in Actors
        PROVE  After(member[o][a], MemberEvents({x}, o, a), MemberAfter) = member'[o][a]
    <3>1. CASE o = c.org /\ a = c.who
      <4>1. MemberEvents({x}, o, a) = {x}
        BY <1>4, <1>5, <3>1 DEF MemberEvents
      <4>2. member'[o][a] = Member(NewRole(c), NewStatus(c))
        BY <1>1, <3>1, WrittenMember
      <4>3. MemberAfter(member[o][a], x) = Member(NewRole(c), NewStatus(c))
        <5>1. CASE c.op = "change_member_role"
          <6>1. member[o][a].role = x.from /\ member[o][a].status \in {"active", "suspended"}
            BY <1>1, <1>3, <1>4, <3>1, <5>1 DEF TargetStands
          <6> QED
            BY <1>4, <3>1, <5>1, <6>1 DEF MemberAfter, NewRole, NewStatus
        <5>2. CASE c.op = "suspend_member"
          <6>1. member[o][a].status = "active"
            BY <1>1, <1>3, <3>1, <5>2 DEF TargetStands
          <6> QED
            BY <1>4, <3>1, <5>2, <6>1 DEF MemberAfter, NewRole, NewStatus
        <5>3. CASE c.op = "reactivate_member"
          <6>1. member[o][a].status = "suspended"
            BY <1>1, <1>3, <3>1, <5>3 DEF TargetStands
          <6> QED
            BY <1>4, <3>1, <5>3, <6>1 DEF MemberAfter, NewRole, NewStatus
        <5> QED
          BY <1>3, <5>1, <5>2, <5>3
      <4> QED
        BY <4>1, <4>2, <4>3, AfterOne
    <3>2. CASE ~(o = c.org /\ a = c.who)
      <4>1. MemberEvents({x}, o, a) = {}
        BY <1>4, <1>5, <3>2 DEF MemberEvents
      <4>2. After(member[o][a], MemberEvents({x}, o, a), MemberAfter) = member[o][a]
        BY <4>1, AfterNone
      <4>3. member'[o][a] = member[o][a]
        BY <1>1, <3>2, WritesRows
      <4> QED
        BY <4>2, <4>3
    <3> QED
      BY <3>1, <3>2
  <2> QED
    BY <2>1 DEF MemberTold
<1> QED
  BY <1>2, <1>6, <1>7 DEF Told

\* The record of a new team tells it.
LEMMA TeamCreatedTold ==
    ASSUME TrailInvariant, NEW t \in Tx, TeamCreated(t)
    PROVE  Told({team_created(call[t].org, call[t].team)})
<1> DEFINE c == call[t]
<1>1. TypeOK /\ CourseOK /\ CreationFresh
  BY DEF TrailInvariant, DepartureInvariant, OwnerInvariant
<1>2. PICK x : x = team_created(c.org, c.team)
  OBVIOUS
<1>3. x.action = "team.created" /\ x.org = c.org /\ x.team = c.team
  BY <1>2 DEF team_created, NoEvent
<1>4. /\ Of({x}, {"organization.created"}) = {} /\ Of({x}, MemberActions) = {}
      /\ Of({x}, {"team.created"}) = {x} /\ Of({x}, TeamMemberActions) = {}
      /\ Of({x}, {"channel.created"}) = {}
      /\ Of({x}, {"channel.member.added"}) = {} /\ Of({x}, {"channel.member.removed"}) = {}
  BY <1>3 DEF Of, MemberActions, TeamMemberActions
<1>5. /\ CreatedTold({x}) /\ MemberTold({x}) /\ TeamMemberTold({x}) /\ ChannelTold({x})
      /\ ListingTold({x})
  BY <1>4, Untold DEF TeamCreated
<1>6. ASSUME NEW tm \in Teams
      PROVE  After(team[tm], TeamEvents({x}, tm), TeamAfter) = team'[tm]
  <2>1. CASE tm = c.team
    <3>1. TeamEvents({x}, tm) = {x} /\ team[tm] = 0
      BY <1>1, <1>3, <1>4, <2>1 DEF TeamEvents, CreationFresh, TeamCreated, At
    <3>2. TeamAfter(team[tm], x) = c.org
      BY <1>3, <3>1 DEF TeamAfter
    <3>3. After(team[tm], TeamEvents({x}, tm), TeamAfter) = c.org
      BY <3>1, <3>2, AfterOne
    <3>4. team'[tm] = c.org
      BY <1>1, <2>1, TeamCreatedRows
    <3> QED
      BY <3>3, <3>4
  <2>2. CASE tm # c.team
    <3>1. TeamEvents({x}, tm) = {}
      BY <1>3, <1>4, <2>2 DEF TeamEvents
    <3>2. After(team[tm], TeamEvents({x}, tm), TeamAfter) = team[tm]
      BY <3>1, AfterNone
    <3>3. team'[tm] = team[tm]
      BY <1>1, <2>2, TeamCreatedRows
    <3> QED
      BY <3>2, <3>3
  <2> QED
    BY <2>1, <2>2
<1> QED
  BY <1>2, <1>5, <1>6 DEF Told, TeamTold
\* The record of a team membership operation tells the row it wrote.
LEMMA TeamMemberWrittenTold ==
    ASSUME TrailInvariant, NEW t \in Tx, TeamMemberWritten(t)
    PROVE  Told({TeamMemberEvent(t)})
<1> DEFINE c == call[t]
<1>1. TypeOK /\ CourseOK /\ TeamTargetStands
  BY DEF TrailInvariant, DepartureInvariant, OwnerInvariant
<1>2. PICK x : x = TeamMemberEvent(t)
  OBVIOUS
<1>3. /\ pc[t] = "write"
      /\ c.op \in {"add_team_member", "change_team_member_role", "remove_team_member"}
  BY DEF TeamMemberWritten
<1>4. /\ x.action \in TeamMemberActions /\ x.team = c.team /\ x.who = c.who
      /\ c.op = "add_team_member" => x.action = "team.member.added" /\ x.to = c.role
      /\ c.op = "change_team_member_role" =>
             /\ x.action = "team.member.role_changed"
             /\ x.from = loc[t].from /\ x.to = c.role
      /\ c.op = "remove_team_member" => x.action = "team.member.removed"
  BY <1>2, <1>3 DEF TeamMemberEvent, team_member_added, team_member_role_changed,
                    team_member_removed, NoEvent, TeamMemberActions
<1>5. /\ Of({x}, {"organization.created"}) = {} /\ Of({x}, MemberActions) = {}
      /\ Of({x}, {"team.created"}) = {} /\ Of({x}, TeamMemberActions) = {x}
      /\ Of({x}, {"channel.created"}) = {}
      /\ Of({x}, {"channel.member.added"}) = {} /\ Of({x}, {"channel.member.removed"}) = {}
  BY <1>4 DEF Of, MemberActions, TeamMemberActions
<1>6. /\ CreatedTold({x}) /\ MemberTold({x}) /\ TeamTold({x}) /\ ChannelTold({x})
      /\ ListingTold({x})
  BY <1>5, Untold DEF TeamMemberWritten
<1>7. ASSUME NEW tm \in Teams, NEW a \in Actors
      PROVE  After(teamMember[tm][a], TeamMemberEvents({x}, tm, a), TeamMemberAfter)
                 = teamMember'[tm][a]
  <2>1. CASE tm = c.team /\ a = c.who
    <3>1. TeamMemberEvents({x}, tm, a) = {x}
      BY <1>4, <1>5, <2>1 DEF TeamMemberEvents
    <3>2. teamMember'[tm][a] = NewTeamRole(c)
      BY <1>1, <2>1, TeamMemberRows
    <3>3. TeamMemberAfter(teamMember[tm][a], x) = NewTeamRole(c)
      <4>1. CASE c.op = "add_team_member"
        <5>1. teamMember[tm][a] = "none"
          BY <1>1, <1>3, <2>1, <4>1 DEF TeamTargetStands
        <5> QED
          BY <1>4, <4>1, <5>1 DEF TeamMemberAfter, NewTeamRole
      <4>2. CASE c.op = "change_team_member_role"
        <5>1. teamMember[tm][a] = x.from /\ teamMember[tm][a] # "none"
          BY <1>1, <1>3, <1>4, <2>1, <4>2 DEF TeamTargetStands
        <5> QED
          BY <1>4, <2>1, <4>2, <5>1 DEF TeamMemberAfter, NewTeamRole
      <4>3. CASE c.op = "remove_team_member"
        <5>1. teamMember[tm][a] # "none"
          BY <1>1, <1>3, <2>1, <4>3 DEF TeamTargetStands
        <5> QED
          BY <1>4, <4>3, <5>1 DEF TeamMemberAfter, NewTeamRole
      <4> QED
        BY <1>3, <4>1, <4>2, <4>3
    <3> QED
      BY <3>1, <3>2, <3>3, AfterOne
  <2>2. CASE ~(tm = c.team /\ a = c.who)
    <3>1. TeamMemberEvents({x}, tm, a) = {}
      BY <1>4, <1>5, <2>2 DEF TeamMemberEvents
    <3>2. After(teamMember[tm][a], TeamMemberEvents({x}, tm, a), TeamMemberAfter)
              = teamMember[tm][a]
      BY <3>1, AfterNone
    <3>3. teamMember'[tm][a] = teamMember[tm][a]
      BY <1>1, <2>2, TeamMemberRows
    <3> QED
      BY <3>2, <3>3
  <2> QED
    BY <2>1, <2>2
<1> QED
  BY <1>2, <1>6, <1>7 DEF Told, TeamMemberTold

\* The record of a new channel tells it.
LEMMA ChannelCreatedTold ==
    ASSUME TrailInvariant, NEW t \in Tx, ChannelCreated(t)
    PROVE  Told({channel_created(call[t].org, call[t].channel, call[t].team)})
<1> DEFINE c == call[t]
<1>1. TypeOK /\ CourseOK
  BY DEF TrailInvariant, DepartureInvariant, OwnerInvariant
<1>2. PICK x : x = channel_created(c.org, c.channel, c.team)
  OBVIOUS
<1>3. /\ x.action = "channel.created" /\ x.org = c.org /\ x.team = c.team
      /\ x.channel = c.channel
  BY <1>2 DEF channel_created, NoEvent
<1>4. /\ Of({x}, {"organization.created"}) = {} /\ Of({x}, MemberActions) = {}
      /\ Of({x}, {"team.created"}) = {} /\ Of({x}, TeamMemberActions) = {}
      /\ Of({x}, {"channel.created"}) = {x}
      /\ Of({x}, {"channel.member.added"}) = {} /\ Of({x}, {"channel.member.removed"}) = {}
  BY <1>3 DEF Of, MemberActions, TeamMemberActions
<1>5. /\ CreatedTold({x}) /\ MemberTold({x}) /\ TeamTold({x}) /\ TeamMemberTold({x})
      /\ ListingTold({x})
  BY <1>4, Untold DEF ChannelCreated
<1>6. ASSUME NEW ch \in Channels
      PROVE  After([org |-> channel[ch].org, team |-> channel[ch].team],
                   ChannelEvents({x}, ch), ChannelAfter)
                 = [org |-> channel'[ch].org, team |-> channel'[ch].team]
  <2>1. CASE ch = c.channel
    <3>1. ChannelEvents({x}, ch) = {x}
      BY <1>3, <1>4, <2>1 DEF ChannelEvents
    <3>2. After([org |-> channel[ch].org, team |-> channel[ch].team],
                ChannelEvents({x}, ch), ChannelAfter) = [org |-> c.org, team |-> c.team]
      <4>1. PICK old : old = [org |-> channel[ch].org, team |-> channel[ch].team]
        OBVIOUS
      <4>2. After(old, {x}, ChannelAfter) = ChannelAfter(old, x)
        BY AfterOne
      <4> QED
        BY <1>3, <3>1, <4>1, <4>2 DEF ChannelAfter
    <3>3. channel'[ch] = [org |-> c.org, team |-> c.team, name |-> c.name]
      BY <1>1, <2>1, ChannelCreatedRows
    <3>4. channel'[ch].org = c.org /\ channel'[ch].team = c.team
      BY <3>3
    <3> QED
      BY <3>2, <3>4
  <2>2. CASE ch # c.channel
    <3>1. ChannelEvents({x}, ch) = {}
      BY <1>3, <1>4, <2>2 DEF ChannelEvents
    <3>2. After([org |-> channel[ch].org, team |-> channel[ch].team],
                ChannelEvents({x}, ch), ChannelAfter)
              = [org |-> channel[ch].org, team |-> channel[ch].team]
      BY <3>1, AfterNone
    <3>3. channel'[ch] = channel[ch]
      BY <1>1, <2>2, ChannelCreatedRows
    <3> QED
      BY <3>2, <3>3
  <2> QED
    BY <2>1, <2>2
<1> QED
  BY <1>2, <1>5, <1>6 DEF Told, ChannelTold

\* The record of a new listing tells it.
LEMMA ChannelListedTold ==
    ASSUME TrailInvariant, NEW t \in Tx, ChannelListed(t)
    PROVE  Told({channel_member_added(call[t].org, call[t].who, call[t].channel)})
<1> DEFINE c == call[t]
<1>1. TypeOK /\ CourseOK
  BY DEF TrailInvariant, DepartureInvariant, OwnerInvariant
<1>2. PICK x : x = channel_member_added(c.org, c.who, c.channel)
  OBVIOUS
<1>3. x.action = "channel.member.added" /\ x.who = c.who /\ x.channel = c.channel
  BY <1>2 DEF channel_member_added, NoEvent
<1>4. /\ Of({x}, {"organization.created"}) = {} /\ Of({x}, MemberActions) = {}
      /\ Of({x}, {"team.created"}) = {} /\ Of({x}, TeamMemberActions) = {}
      /\ Of({x}, {"channel.created"}) = {}
      /\ Of({x}, {"channel.member.added"}) = {x} /\ Of({x}, {"channel.member.removed"}) = {}
  BY <1>3 DEF Of, MemberActions, TeamMemberActions
<1>5. /\ CreatedTold({x}) /\ MemberTold({x}) /\ TeamTold({x}) /\ TeamMemberTold({x})
      /\ ChannelTold({x})
  BY <1>4, Untold DEF ChannelListed
<1>6. ASSUME NEW ch \in Channels
      PROVE  (channelMember[ch] \cup Listed({x}, ch)) \ Unlisted({x}, ch)
                 = channelMember'[ch]
  <2>1. Unlisted({x}, ch) = {}
    BY <1>4 DEF Unlisted
  <2>2. Listed({x}, ch) = IF ch = c.channel THEN {c.who} ELSE {}
    BY <1>3, <1>4 DEF Listed
  <2>3. channelMember'[ch] = IF ch = c.channel THEN channelMember[ch] \cup {c.who}
                             ELSE channelMember[ch]
    BY <1>1, ChannelListedRows
  <2> QED
    BY <2>1, <2>2, <2>3
<1> QED
  BY <1>2, <1>5, <1>6 DEF Told, ListingTold
\* What the records of a departure are.
LEMMA LeaveEventsAre ==
    ASSUME NEW t \in Tx
    PROVE  /\ Of(LeaveEvents(t), MemberActions) =
                  {member_left(o, call[t].by) : o \in loc[t].current}
           /\ Of(LeaveEvents(t), TeamMemberActions) =
                  {team_member_removed(team[tm], call[t].by, tm, "left_service") :
                       tm \in loc[t].removed}
           /\ Of(LeaveEvents(t), {"channel.member.removed"}) =
                  {channel_member_left(channel[ch].org, call[t].by, ch) :
                       ch \in loc[t].unlisted}
           /\ Of(LeaveEvents(t), {"organization.created"}) = {}
           /\ Of(LeaveEvents(t), {"team.created"}) = {}
           /\ Of(LeaveEvents(t), {"channel.created"}) = {}
           /\ Of(LeaveEvents(t), {"channel.member.added"}) = {}
<1> DEFINE M == {member_left(o, call[t].by) : o \in loc[t].current}
           R == {team_member_removed(team[tm], call[t].by, tm, "left_service") :
                     tm \in loc[t].removed}
           U == {channel_member_left(channel[ch].org, call[t].by, ch) :
                     ch \in loc[t].unlisted}
<1>1. LeaveEvents(t) = M \cup R \cup U
  BY DEF LeaveEvents, Leaver
<1>2. \A e \in M : e.action = "organization.member.left"
  BY DEF member_left, NoEvent
<1>3. \A e \in R : e.action = "team.member.removed"
  BY DEF team_member_removed, NoEvent
<1>4. \A e \in U : e.action = "channel.member.removed"
  BY DEF channel_member_left, NoEvent
<1> HIDE DEF M, R, U
<1>5. /\ Of(LeaveEvents(t), MemberActions) = M
      /\ Of(LeaveEvents(t), TeamMemberActions) = R
      /\ Of(LeaveEvents(t), {"channel.member.removed"}) = U
  BY <1>1, <1>2, <1>3, <1>4 DEF Of, MemberActions, TeamMemberActions
<1>6. /\ Of(LeaveEvents(t), {"organization.created"}) = {}
      /\ Of(LeaveEvents(t), {"team.created"}) = {}
      /\ Of(LeaveEvents(t), {"channel.created"}) = {}
      /\ Of(LeaveEvents(t), {"channel.member.added"}) = {}
  BY <1>1, <1>2, <1>3, <1>4 DEF Of
<1> QED
  BY <1>5, <1>6 DEF M, R, U

\* The records of a departure tell what it erased, row by row.
LEMMA LeftTold ==
    ASSUME TrailInvariant, NEW t \in Tx, Left(t)
    PROVE  Told(LeaveEvents(t))
<1> DEFINE by == call[t].by
           E == LeaveEvents(t)
<1>1. /\ DepartureInvariant /\ TypeOK /\ CourseOK /\ MembershipsFound /\ RemovalsHeld
      /\ LeaverLocked /\ DepartureErases
  BY DEF TrailInvariant, DepartureInvariant, OwnerInvariant
<1>2. Looping(t) /\ Leaving(t) /\ by \in Actors /\ actor[by] = "live"
  <2>1. pc[t] = "leave_next"
    BY DEF Left, LeaveCommit, At
  <2> QED
    BY <1>1, <2>1, CallRows DEF Looping, Leaving, LeaverLocked
<1>3. \A o : LET e == member_left(o, by)
             IN e.action = "organization.member.left" /\ e.org = o /\ e.who = by
  BY DEF member_left, NoEvent
<1>4. \A o, tm : LET e == team_member_removed(o, by, tm, "left_service")
                 IN e.action = "team.member.removed" /\ e.team = tm /\ e.who = by
  BY DEF team_member_removed, NoEvent
<1>5. \A o, ch : LET e == channel_member_left(o, by, ch)
                 IN e.channel = ch /\ e.who = by
  BY DEF channel_member_left, NoEvent
<1>6. CreatedTold(E) /\ TeamTold(E) /\ ChannelTold(E)
  BY LeaveEventsAre, Untold DEF Left, LeaveCommit
<1>7. ASSUME NEW o \in Orgs, NEW a \in Actors
      PROVE  After(member[o][a], MemberEvents(E, o, a), MemberAfter) = member'[o][a]
  <2>1. o \in loc[t].memberships <=> member[o][by] # NoMember
    BY <1>1, <1>2 DEF MembershipsFound
  <2>2. loc[t].current = loc[t].memberships
    BY <1>1, <1>2 DEF MembershipsFound
  <2>3. member'[o][a] = IF a = by /\ o \in loc[t].memberships
                        THEN SetColumns(member[o][a], member[o][a].role, "left")
                        ELSE member[o][a]
    BY <1>1, <1>7, LeftRows
  <2>4. CASE a = by /\ o \in loc[t].memberships
    <3>1. PICK x : x = member_left(o, by)
      OBVIOUS
    <3>2. MemberEvents(E, o, a) = {x}
      BY <1>3, <2>2, <2>4, <3>1, LeaveEventsAre DEF MemberEvents
    <3>3. member[o][a].status \in {"active", "suspended"}
      <4>1. member[o][a] \in MemberRows /\ member[o][a] # NoMember
        BY <1>1, <2>1, <2>4 DEF TypeOK, TablesTypeOK
      <4>2. member[o][a].status # "left"
        BY <1>1, <1>2, <2>4, <4>1 DEF DepartureErases
      <4> QED
        BY <4>1, <4>2 DEF MemberRows, Statuses
    <3>4. MemberAfter(member[o][a], x) = Member(member[o][a].role, "left")
      <4>1. x.action = "organization.member.left"
        BY <1>3, <3>1
      <4> QED
        BY <3>3, <4>1 DEF MemberAfter
    <3>5. member'[o][a] = Member(member[o][a].role, "left")
      BY <2>1, <2>3, <2>4 DEF SetColumns
    <3> QED
      BY <3>2, <3>4, <3>5, AfterOne
  <2>5. CASE ~(a = by /\ o \in loc[t].memberships)
    <3>1. MemberEvents(E, o, a) = {}
      BY <1>3, <2>2, <2>5, LeaveEventsAre DEF MemberEvents
    <3>2. After(member[o][a], MemberEvents(E, o, a), MemberAfter) = member[o][a]
      BY <3>1, AfterNone
    <3> QED
      BY <2>3, <2>5, <3>2
  <2> QED
    BY <2>4, <2>5
<1>8. ASSUME NEW tm \in Teams, NEW a \in Actors
      PROVE  After(teamMember[tm][a], TeamMemberEvents(E, tm, a), TeamMemberAfter)
                 = teamMember'[tm][a]
  <2>1. teamMember'[tm][a] = IF a = by /\ tm \in loc[t].removed THEN "none"
                             ELSE teamMember[tm][a]
    BY <1>1, <1>8, LeftRows
  <2>2. CASE a = by /\ tm \in loc[t].removed
    <3>1. PICK x : x = team_member_removed(team[tm], by, tm, "left_service")
      OBVIOUS
    <3>2. TeamMemberEvents(E, tm, a) = {x}
      BY <1>4, <2>2, <3>1, LeaveEventsAre DEF TeamMemberEvents
    <3>3. teamMember[tm][a] # "none"
      BY <1>1, <1>2, <2>2 DEF RemovalsHeld
    <3>4. x.action = "team.member.removed"
      BY <1>4, <3>1
    <3>5. TeamMemberAfter(teamMember[tm][a], x) = "none"
      BY <3>3, <3>4 DEF TeamMemberAfter
    <3> QED
      BY <2>1, <2>2, <3>2, <3>5, AfterOne
  <2>3. CASE ~(a = by /\ tm \in loc[t].removed)
    <3>1. TeamMemberEvents(E, tm, a) = {}
      BY <1>4, <2>3, LeaveEventsAre DEF TeamMemberEvents
    <3>2. After(teamMember[tm][a], TeamMemberEvents(E, tm, a), TeamMemberAfter)
              = teamMember[tm][a]
      BY <3>1, AfterNone
    <3> QED
      BY <2>1, <2>3, <3>2
  <2> QED
    BY <2>2, <2>3
<1>9. ASSUME NEW ch \in Channels
      PROVE  (channelMember[ch] \cup Listed(E, ch)) \ Unlisted(E, ch) = channelMember'[ch]
  <2>1. Listed(E, ch) = {}
    BY LeaveEventsAre DEF Listed
  <2>2. Unlisted(E, ch) = IF ch \in loc[t].unlisted THEN {by} ELSE {}
    BY <1>5, LeaveEventsAre DEF Unlisted
  <2>3. channelMember'[ch] = IF ch \in loc[t].unlisted THEN channelMember[ch] \ {by}
                             ELSE channelMember[ch]
    BY DEF Left, LeaveCommit, Leaver, ListingsLeft
  <2> QED
    BY <2>1, <2>2, <2>3
<1> QED
  BY <1>6, <1>7, <1>8, <1>9 DEF Told, MemberTold, TeamMemberTold, ListingTold

----------------------------------------------------------------------------
\* Every commit records what it changes.
LEMMA TrailTellsStep ==
    ASSUME TrailInvariant, NEW t \in Tx, Begin(t) \/ Step(t) \/ Cancel(t)
    PROVE  TrailTellsTheTables'
<1>1. TypeOK /\ CourseOK /\ TrailTellsTheTables /\ TypeOK'
  BY TypeStep DEF TrailInvariant, DepartureInvariant, OwnerInvariant
<1>2. CASE UNCHANGED <<tables, blind>>
  BY <1>1, <1>2 DEF tables, TrailTellsTheTables
<1>3. ASSUME NEW E, Told(E), Commit(t, E)
      PROVE  TrailTellsTheTables'
  BY <1>1, <1>3, Retold DEF Told, Commit
<1>4. CASE Founded(t)
  BY <1>3, <1>4, FoundedTold DEF Founded
<1>5. CASE MemberWritten(t)
  BY <1>3, <1>5, MemberWrittenTold DEF MemberWritten
<1>6. CASE TeamCreated(t)
  BY <1>3, <1>6, TeamCreatedTold DEF TeamCreated
<1>7. CASE TeamMemberWritten(t)
  BY <1>3, <1>7, TeamMemberWrittenTold DEF TeamMemberWritten
<1>8. CASE ChannelCreated(t)
  BY <1>3, <1>8, ChannelCreatedTold DEF ChannelCreated
<1>9. CASE ChannelListed(t)
  BY <1>3, <1>9, ChannelListedTold DEF ChannelListed
<1>10. CASE Left(t)
  BY <1>3, <1>10, LeftTold DEF Left, LeaveCommit
<1> QED
  BY <1>1, <1>2, <1>4, <1>5, <1>6, <1>7, <1>8, <1>9, <1>10, CommitKinds DEF Committed

\* Every initial state satisfies the inductive invariant.
LEMMA TrailInvariantInit ==
    ASSUME StoreInit
    PROVE  TrailInvariant
<1>1. DepartureInvariant
  BY DepartureInvariantInit
<1>2. TrailTellsTheTables
  BY DEF StoreInit, TrailTellsTheTables
<1>3. pc = [t \in Tx |-> "idle"] /\ loc = [t \in Tx |-> NoLocals]
  BY DEF StoreInit
<1>4. TeamTargetStands /\ RemovalsHeld
  BY <1>3 DEF TeamTargetStands, RemovalsHeld, Looping, NoLocals
<1> QED
  BY <1>1, <1>2, <1>4 DEF TrailInvariant

\* Every step preserves the inductive invariant.
LEMMA TrailInvariantStep ==
    ASSUME TrailInvariant, [Next]_vars
    PROVE  TrailInvariant'
<1>1. DepartureInvariant'
  BY DepartureInvariantStep DEF TrailInvariant
<1>2. CASE UNCHANGED vars
  <2>1. TeamTargetStands' /\ RemovalsHeld'
    BY <1>2 DEF vars, tables, locks, TrailInvariant, TeamTargetStands, RemovalsHeld,
                Claims, Looping
  <2>2. TrailTellsTheTables'
    BY <1>2 DEF vars, tables, TrailInvariant, TrailTellsTheTables
  <2> QED
    BY <1>1, <2>1, <2>2 DEF TrailInvariant
<1>3. CASE Next
  <2>1. PICK t \in Tx : Begin(t) \/ Step(t) \/ Cancel(t)
    BY <1>3 DEF Next
  <2> QED
    BY <1>1, <2>1, TeamTargetStandsStep, RemovalsHeldStep, TrailTellsStep DEF TrailInvariant
<1> QED
  BY <1>2, <1>3

(***************************************************************************)
(* audit.rs: replaying audit_events in commit order gives the tables, for  *)
(* any number of transactions, people and rows.  In particular no record   *)
(* describes a team row that a concurrent departure had already removed:   *)
(* the organization's lock and the KEY SHARE of the departure's records    *)
(* keep the two apart (teams.rs, leaving.rs).                              *)
(***************************************************************************)
THEOREM TrailTells == Spec => []TrailTellsTheTables
<1>1. StoreInit => TrailInvariant
  BY TrailInvariantInit
<1>2. TrailInvariant /\ [Next]_vars => TrailInvariant'
  BY TrailInvariantStep
<1>3. TrailInvariant => TrailTellsTheTables
  BY DEF TrailInvariant
<1> QED
  BY <1>1, <1>2, <1>3, PTL DEF Spec
===============================================================================
