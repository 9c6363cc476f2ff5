---------------------------- MODULE TenancyProofs -----------------------------
(***************************************************************************)
(* Machine-checked proofs about Tenancy, for any number of concurrent      *)
(* transactions, actors, organizations, teams and channels: its type       *)
(* invariant, the exclusion of conflicting locks, and the few kinds of     *)
(* step that a transaction takes.                                          *)
(***************************************************************************)
EXTENDS OwnerRule, TLAPS

----------------------------------------------------------------------------
(* Facts about the calls and the rows.                                     *)

WithTarget == {"change_member_role", "suspend_member", "reactivate_member",
               "add_team_member", "change_team_member_role", "remove_team_member",
               "add_channel_member"}

WithTeam == {"create_team", "add_team_member", "change_team_member_role",
             "remove_team_member"}

\* The arguments of a call are of the kinds its operation declares.
LEMMA CallFacts ==
    ASSUME NEW c \in Calls
    PROVE  /\ c.by \in Actors
           /\ c.op # "none"
           /\ c.op # "leave_service" => c.org \in Orgs
           /\ c.op \in WithTarget => c.who \in Actors
           /\ c.op = "change_member_role" => c.role \in OrganizationRoles
           /\ c.op \in {"add_team_member", "change_team_member_role"}
                  => c.role \in TeamRoles
           /\ c.op \in WithTeam => c.team \in Teams
           /\ c.op = "create_organization" => c.name \in Names
           /\ c.op = "create_channel" =>
                  c.channel \in Channels /\ c.team \in Teams \cup {0} /\ c.name \in Names
           /\ c.op = "add_channel_member" => c.channel \in Channels
<1>1. CASE \E by \in Actors, o \in Orgs, n \in Names :
                c = create_organization(by, o, n)
  BY <1>1 DEF create_organization, NoCall, WithTarget, WithTeam
<1>2. CASE \E by \in Actors, o \in Orgs, a \in Actors, role \in OrganizationRoles :
                c = change_member_role(by, o, a, role)
  BY <1>2 DEF change_member_role, NoCall, WithTarget, WithTeam
<1>3. CASE \E by \in Actors, o \in Orgs, a \in Actors :
                c = suspend_member(by, o, a)
  BY <1>3 DEF suspend_member, NoCall, WithTarget, WithTeam
<1>4. CASE \E by \in Actors, o \in Orgs, a \in Actors :
                c = reactivate_member(by, o, a)
  BY <1>4 DEF reactivate_member, NoCall, WithTarget, WithTeam
<1>5. CASE \E a \in Actors :
                c = leave_service(a)
  BY <1>5 DEF leave_service, NoCall, WithTarget, WithTeam
<1>6. CASE \E by \in Actors, o \in Orgs, tm \in Teams :
                c = create_team(by, o, tm)
  BY <1>6 DEF create_team, NoCall, WithTarget, WithTeam
<1>7. CASE \E by \in Actors, o \in Orgs, tm \in Teams, a \in Actors, role \in TeamRoles :
                c = add_team_member(by, o, tm, a, role)
  BY <1>7 DEF add_team_member, NoCall, WithTarget, WithTeam
<1>8. CASE \E by \in Actors, o \in Orgs, tm \in Teams, a \in Actors, role \in TeamRoles :
                c = change_team_member_role(by, o, tm, a, role)
  BY <1>8 DEF change_team_member_role, NoCall, WithTarget, WithTeam
<1>9. CASE \E by \in Actors, o \in Orgs, tm \in Teams, a \in Actors :
                c = remove_team_member(by, o, tm, a)
  BY <1>9 DEF remove_team_member, NoCall, WithTarget, WithTeam
<1>10. CASE \E by \in Actors, o \in Orgs, ch \in Channels, tm \in Teams \cup {0}, n \in Names :
                c = create_channel(by, o, ch, tm, n)
  BY <1>10 DEF create_channel, NoCall, WithTarget, WithTeam
<1>11. CASE \E by \in Actors, o \in Orgs, ch \in Channels, a \in Actors :
                c = add_channel_member(by, o, ch, a)
  BY <1>11 DEF add_channel_member, NoCall, WithTarget, WithTeam
<1> QED
  BY <1>1, <1>2, <1>3, <1>4, <1>5, <1>6, <1>7, <1>8, <1>9, <1>10, <1>11 DEF Calls

\* lock_actor is about an actor.
LEMMA SubjectIsActor ==
    ASSUME NEW c \in Calls
    PROVE  Subject(c) \in Actors
BY CallFacts DEF Subject, WithTarget

\* What operations lock are rows.
LEMMA RowFacts ==
    /\ \A a \in Actors : ActorRow(a) \in Rows
    /\ \A o \in Orgs : OrgRow(o) \in Rows
    /\ \A tm \in Teams, a \in Actors : TeamMemberRow(tm, a) \in Rows
    /\ \A n \in Names : SlugKey(n) \in Rows
BY DEF Rows

\* Rows of different tables, or of different keys, are different.
LEMMA RowsDiffer ==
    /\ \A o, p : OrgRow(o) = OrgRow(p) => o = p
    /\ \A a, b : ActorRow(a) = ActorRow(b) => a = b
BY DEF OrgRow, ActorRow

----------------------------------------------------------------------------
(* The type invariant.                                                     *)

\* A transaction whose operation is known runs a call of it.
LEMMA RunsCall ==
    ASSUME TypeOK, NEW t \in Tx, call[t].op # "none"
    PROVE  call[t] \in Calls
BY DEF TypeOK, ControlTypeOK, NoCall

\* The end of a transaction keeps locks and control in their domains.
LEMMA EndTyped ==
    ASSUME TypeOK, NEW t \in Tx, NEW r \in Results, End(t, r)
    PROVE  LocksTypeOK' /\ ControlTypeOK'
<1>1. NoLocals \in Locals
  BY DEF NoLocals, Locals
<1>2. NoLocks \in [Rows -> 0 .. Update]
  BY DEF NoLocks, Update
<1>3. NoStatement \in [mode : Modes, rows : SUBSET Rows]
  BY DEF NoStatement, Modes, KeyShare, Update
<1> QED
  BY <1>1, <1>2, <1>3 DEF TypeOK, LocksTypeOK, ControlTypeOK, End, Points

\* So does a rollback, which leaves the tables alone.
LEMMA RollbackTyped ==
    ASSUME TypeOK, NEW t \in Tx, NEW r \in Results, Rollback(t, r)
    PROVE  TypeOK'
BY EndTyped DEF Rollback, TypeOK, TablesTypeOK, tables

\* And a commit, if the tables it writes are in their domains.
LEMMA CommitTyped ==
    ASSUME TypeOK, NEW t \in Tx, NEW events, Commit(t, events), TablesTypeOK'
    PROVE  TypeOK'
BY EndTyped DEF Commit, TypeOK, Results

\* And the start of a statement.
LEMMA StartTyped ==
    ASSUME TypeOK, NEW t \in Tx, NEW p \in Points, NEW m \in Modes,
           NEW rows \in SUBSET Rows, Start(t, p, m, rows), loc' \in [Tx -> Locals]
    PROVE  TypeOK'
BY DEF Start, Statement, TypeOK, TablesTypeOK, LocksTypeOK, ControlTypeOK, tables

\* The lock modes are the numbers 1 to 4.
LEMMA ModeFacts ==
    KeyShare \in Modes /\ Share \in Modes /\ NoKeyUpdate \in Modes /\ Update \in Modes
BY DEF Modes, KeyShare, Share, NoKeyUpdate, Update

\* Local variables keep their domains when one of them is assigned.
LEMMA LocalsFacts ==
    ASSUME NEW l \in Locals
    PROVE  /\ \A d \in {"None", "Some", "Some(false)", "Some(true)"} :
                  [l EXCEPT !.departed = d] \in Locals
           /\ \A r \in OrganizationRoles \cup TeamRoles \cup {"none"} :
                  [l EXCEPT !.from = r] \in Locals
           /\ \A S \in SUBSET Orgs : [l EXCEPT !.orgs = S] \in Locals
           /\ \A S \in SUBSET Teams : [l EXCEPT !.removing = S] \in Locals
           /\ \A R, C, L \in SUBSET Orgs :
                  [l EXCEPT !.memberships = R, !.rest = R, !.current = C, !.listed = L]
                      \in Locals
           /\ \A S \in SUBSET Orgs, T \in SUBSET Teams :
                  [l EXCEPT !.rest = S, !.removing = {}, !.removed = T] \in Locals
           /\ \A S \in SUBSET Orgs, U \in SUBSET Channels :
                  [l EXCEPT !.listed = S, !.unlisted = U] \in Locals
BY DEF Locals

\* The stronger of two modes is a mode, and at least as strong as each.
LEMMA StrongestFacts ==
    ASSUME NEW m \in 0 .. Update, NEW n \in Modes
    PROVE  /\ Strongest(m, n) \in 0 .. Update
           /\ Strongest(m, n) >= m /\ Strongest(m, n) >= n
           /\ Strongest(m, n) = m \/ Strongest(m, n) = n
BY DEF Strongest, Modes, KeyShare, Update

\* Begin keeps the types.
LEMMA BeginTyped ==
    ASSUME TypeOK, NEW t \in Tx, Begin(t)
    PROVE  TypeOK'
<1>1. PICK c \in Requests :
        /\ call' = [call EXCEPT ![t] = c]
        /\ IF c.op = "leave_service"
           THEN /\ todo' = [todo EXCEPT ![t] = Statement(Update,
                                {ActorRow(a) : a \in {b \in {c.by} : SeesActor(b, b)}})]
                /\ pc' = [pc EXCEPT ![t] = "leave_actor"]
                /\ UNCHANGED loc
           ELSE /\ todo' = [todo EXCEPT ![t] = Statement(Share,
                                {ActorRow(a) : a \in LockActorRows(c)})]
                /\ pc' = [pc EXCEPT ![t] = "lock_actor"]
                /\ loc' = [loc EXCEPT ![t].departed =
                               IF Subject(c) \in LockActorRows(c) THEN "Some" ELSE "None"]
        /\ UNCHANGED <<tables, blind, held, result>>
  BY DEF Begin
<1>2. c \in Calls /\ c.by \in Actors /\ Subject(c) \in Actors
  BY RequestsAssumption, CallFacts, SubjectIsActor
<1>3. TablesTypeOK'
  BY <1>1 DEF TypeOK, TablesTypeOK, tables
<1>4. LocksTypeOK'
  <2>1. {ActorRow(a) : a \in {b \in {c.by} : SeesActor(b, b)}} \in SUBSET Rows
    BY <1>2, RowFacts
  <2>2. {ActorRow(a) : a \in LockActorRows(c)} \in SUBSET Rows
    BY <1>2, RowFacts DEF LockActorRows
  <2> QED
    BY <1>1, <2>1, <2>2, ModeFacts DEF TypeOK, LocksTypeOK, Statement
<1>5. loc' \in [Tx -> Locals]
  <2>1. loc \in [Tx -> Locals] /\ loc[t] \in Locals
    BY DEF TypeOK, ControlTypeOK
  <2>2. [loc[t] EXCEPT !.departed = "Some"] \in Locals
    BY <2>1, LocalsFacts
  <2>3. [loc[t] EXCEPT !.departed = "None"] \in Locals
    BY <2>1, LocalsFacts
  <2> QED
    BY <1>1, <2>1, <2>2, <2>3
<1>6. ControlTypeOK'
  BY <1>1, <1>2, <1>5 DEF TypeOK, ControlTypeOK, Points
<1> QED
  BY <1>3, <1>4, <1>6 DEF TypeOK

\* A statement that takes its next row keeps the types.
LEMMA TakeLockTyped ==
    ASSUME TypeOK, NEW t \in Tx, TakeLock(t)
    PROVE  TypeOK'
<1>1. PICK r \in todo[t].rows :
        /\ held' = [held EXCEPT ![t][r] = Strongest(@, todo[t].mode)]
        /\ todo' = [todo EXCEPT ![t] = Statement(@.mode, @.rows \ {r})]
  BY DEF TakeLock, Acquire
<1>2. LocksTypeOK'
  <2>1. held[t][r] \in 0 .. Update /\ todo[t].mode \in Modes /\ r \in Rows
    BY DEF TypeOK, LocksTypeOK
  <2>2. Strongest(held[t][r], todo[t].mode) \in 0 .. Update
    BY <2>1, StrongestFacts
  <2>3. held' \in [Tx -> [Rows -> 0 .. Update]]
    <3>1. held \in [Tx -> [Rows -> 0 .. Update]]
      BY DEF TypeOK, LocksTypeOK
    <3>2. [held[t] EXCEPT ![r] = Strongest(held[t][r], todo[t].mode)]
              \in [Rows -> 0 .. Update]
      BY <3>1, <2>1, <2>2
    <3>3. held' = [held EXCEPT ![t] =
                       [held[t] EXCEPT ![r] = Strongest(held[t][r], todo[t].mode)]]
      BY <1>1
    <3> QED
      BY <3>1, <3>2, <3>3
  <2>4. todo' \in [Tx -> [mode : Modes, rows : SUBSET Rows]]
    BY <1>1, <2>1 DEF TypeOK, LocksTypeOK, Statement
  <2> QED
    BY <2>3, <2>4 DEF LocksTypeOK
<1> QED
  BY <1>2 DEF TakeLock, TypeOK, TablesTypeOK, ControlTypeOK, tables

\* lock_organization keeps the types.
LEMMA LockOrganizationTyped ==
    ASSUME TypeOK, NEW t \in Tx, LockOrganization(t), call[t] \in Calls,
           call[t].op # "leave_service"
    PROVE  TypeOK'
<1>1. CASE Rollback(t, "NotFound")
  BY <1>1, RollbackTyped DEF Results
<1>2. CASE /\ loc' = [loc EXCEPT ![t].departed = DepartedNow(t)]
           /\ Start(t, "lock_organization", Update, {OrgRow(call[t].org)})
  <2>1. DepartedNow(t) \in {"None", "Some(false)", "Some(true)"}
    BY DEF DepartedNow
  <2>2. loc' \in [Tx -> Locals]
    BY <1>2, <2>1, LocalsFacts DEF TypeOK, ControlTypeOK
  <2>3. {OrgRow(call[t].org)} \in SUBSET Rows
    BY RowFacts, CallFacts
  <2> QED
    BY <1>2, <2>2, <2>3, StartTyped, ModeFacts DEF Points
<1> QED
  BY <1>1, <1>2 DEF LockOrganization

(* The operations on organizations and memberships.                        *)

\* An UPDATE of a membership keeps it a membership.
LEMMA SetColumnsTyped ==
    ASSUME NEW row \in MemberRows, NEW role, NEW status,
           row # NoMember => role \in OrganizationRoles /\ status \in Statuses
    PROVE  SetColumns(row, role, status) \in MemberRows
BY DEF SetColumns, Member, MemberRows

\* Writing a membership row keeps the types.
LEMMA WriteMemberTyped ==
    ASSUME TypeOK, NEW t \in Tx, call[t] \in Calls, call[t].op \in WithTarget,
           NEW role, NEW status, NEW event, WriteMember(t, role, status, event),
           member[call[t].org][call[t].who] # NoMember
               => role \in OrganizationRoles /\ status \in Statuses
    PROVE  TypeOK'
<1> DEFINE row == SetColumns(member[call[t].org][call[t].who], role, status)
<1>1. call[t].org \in Orgs /\ call[t].who \in Actors
  BY CallFacts DEF WithTarget
<1>2. CASE Rollback(t, "Database")
  BY <1>2, RollbackTyped DEF Results
<1>3. CASE /\ member' = [member EXCEPT ![call[t].org][call[t].who] = row]
           /\ blind' = IF call[t].op = "reactivate_member" /\ loc[t].departed = "None"
                       THEN blind \cup {<<call[t].org, call[t].who>>} ELSE blind
           /\ Commit(t, {event})
           /\ UNCHANGED <<actor, users, slug, team, teamMember, channel, channelMember>>
  <2>1. row \in MemberRows
    BY <1>1, SetColumnsTyped DEF TypeOK, TablesTypeOK
  <2> HIDE DEF row
  <2>2. TablesTypeOK'
    BY <1>1, <1>3, <2>1 DEF TypeOK, TablesTypeOK
  <2> QED
    BY <1>3, <2>2, CommitTyped
<1> QED
  BY <1>2, <1>3 DEF WriteMember

\* Deciding on a membership keeps the types.
LEMMA DecideTyped ==
    ASSUME TypeOK, NEW t \in Tx, NEW refusal \in Results, NEW unchanged,
           NEW from \in OrganizationRoles \cup TeamRoles \cup {"none"},
           Decide(t, refusal, unchanged, from)
    PROVE  TypeOK'
<1>1. CASE Rollback(t, refusal)
  BY <1>1, RollbackTyped
<1>2. CASE End(t, "Ok") /\ UNCHANGED <<tables, blind>>
  BY <1>2, RollbackTyped DEF Rollback, Results
<1>3. CASE loc' = [loc EXCEPT ![t].from = from] /\ Start(t, "write", Update, {})
  <2>1. loc' \in [Tx -> Locals]
    BY <1>3, LocalsFacts DEF TypeOK, ControlTypeOK
  <2> QED
    BY <1>3, <2>1, StartTyped, ModeFacts DEF Points
<1> QED
  BY <1>1, <1>2, <1>3 DEF Decide

\* The row an operation is about has a role, or there is no row.
LEMMA TargetTyped ==
    ASSUME TypeOK, NEW t \in Tx, call[t] \in Calls, call[t].op \in WithTarget
    PROVE  Target(t) \in MemberRows /\ member[call[t].org][call[t].who] \in MemberRows
BY CallFacts DEF Target, MemberSeen, MemberRows, WithTarget, TypeOK, TablesTypeOK

\* Every step of identity.rs and membership.rs keeps the types.
LEMMA MembershipTyped ==
    ASSUME TypeOK, NEW t \in Tx, MembershipStep(t)
    PROVE  TypeOK'
<1>1. CASE CreateOrganization(t)
  <2>1. call[t] \in Calls /\ call[t].name \in Names
    BY <1>1, RunsCall, CallFacts DEF CreateOrganization, At
  <2>2. CASE Rollback(t, CreateOrganizationRefusal(t))
    BY <2>2, RollbackTyped DEF CreateOrganizationRefusal, Results
  <2>3. CASE Start(t, "insert", Update, {SlugKey(call[t].name)}) /\ UNCHANGED loc
    BY <2>1, <2>3, StartTyped, ModeFacts, RowFacts DEF Points, TypeOK, ControlTypeOK
  <2> QED
    BY <1>1, <2>2, <2>3 DEF CreateOrganization
<1>2. CASE InsertOrganization(t)
  <2>1. call[t].by \in Actors /\ call[t].org \in Orgs /\ call[t].name \in Names
    BY <1>2, RunsCall, CallFacts DEF InsertOrganization, At
  <2>2. CASE Rollback(t, "SlugTaken")
    BY <2>2, RollbackTyped DEF Results
  <2>3. CASE /\ slug' = [slug EXCEPT ![call[t].org] = call[t].name]
             /\ member' = [member EXCEPT ![call[t].org][call[t].by] =
                               Member("owner", "active")]
             /\ Commit(t, {organization_created(call[t].org),
                           member_added(call[t].org, call[t].by, "owner")})
             /\ UNCHANGED <<actor, users, team, teamMember, channel, channelMember, blind>>
    <3>1. TablesTypeOK'
      BY <2>1, <2>3 DEF TypeOK, TablesTypeOK, Member, MemberRows, OrganizationRoles,
                        Statuses
    <3> QED
      BY <2>3, <3>1, CommitTyped
  <2> QED
    BY <1>2, <2>2, <2>3 DEF InsertOrganization
<1>3. CASE ChangeMemberRole(t)
  <2>1. Target(t).role \in OrganizationRoles \cup TeamRoles \cup {"none"}
    BY <1>3, RunsCall, TargetTyped DEF ChangeMemberRole, At, WithTarget, MemberRows, NoMember
  <2> QED
    BY <1>3, <2>1, DecideTyped DEF ChangeMemberRole, ChangeMemberRoleRefusal, Results
<1>4. CASE SuspendMember(t)
  BY <1>4, DecideTyped DEF SuspendMember, SuspendMemberRefusal, Results
<1>5. CASE ReactivateMember(t)
  BY <1>5, DecideTyped DEF ReactivateMember, ReactivateMemberRefusal, Results
<1>6. CASE WriteMemberRole(t)
  <2>1. call[t] \in Calls /\ call[t].op \in WithTarget /\ call[t].role \in OrganizationRoles
    BY <1>6, RunsCall, CallFacts DEF WriteMemberRole, At, WithTarget
  <2>2. member[call[t].org][call[t].who] # NoMember
            => member[call[t].org][call[t].who].status \in Statuses
    BY <2>1, TargetTyped DEF MemberRows
  <2> QED
    BY <1>6, <2>1, <2>2, WriteMemberTyped DEF WriteMemberRole
<1>7. CASE WriteSuspension(t)
  <2>1. call[t] \in Calls /\ call[t].op \in WithTarget
    BY <1>7, RunsCall DEF WriteSuspension, At, WithTarget
  <2>2. member[call[t].org][call[t].who] # NoMember
            => member[call[t].org][call[t].who].role \in OrganizationRoles
    BY <2>1, TargetTyped DEF MemberRows
  <2> QED
    BY <1>7, <2>1, <2>2, WriteMemberTyped DEF WriteSuspension, Statuses
<1>8. CASE WriteReactivation(t)
  <2>1. call[t] \in Calls /\ call[t].op \in WithTarget
    BY <1>8, RunsCall DEF WriteReactivation, At, WithTarget
  <2>2. member[call[t].org][call[t].who] # NoMember
            => member[call[t].org][call[t].who].role \in OrganizationRoles
    BY <2>1, TargetTyped DEF MemberRows
  <2> QED
    BY <1>8, <2>1, <2>2, WriteMemberTyped DEF WriteReactivation, Statuses
<1> QED
  BY <1>1, <1>2, <1>3, <1>4, <1>5, <1>6, <1>7, <1>8 DEF MembershipStep

(* leave_service.                                                          *)

\* Every step of leaving.rs keeps the types.
LEMMA LeavingTyped ==
    ASSUME TypeOK, NEW t \in Tx, LeavingStep(t)
    PROVE  TypeOK'
<1>1. call[t] \in Calls /\ call[t].by \in Actors
  BY RunsCall, CallFacts DEF LeavingStep, LeaveActor, LeaveChecks, LeaveTeams, LeaveAudit,
                             LeaveChannels, LeaveCommit, At
<1>2. loc \in [Tx -> Locals] /\ loc[t] \in Locals
  BY DEF TypeOK, ControlTypeOK
<1>3. CASE LeaveActor(t)
  <2> DEFINE active == fukulow_active_organizations(Leaver(t))
  <2>1. CASE Rollback(t, "NotFound")
    BY <2>1, RollbackTyped DEF Results
  <2>2. CASE /\ loc' = [loc EXCEPT ![t].orgs = active]
             /\ Start(t, "leave_orgs", Update, {OrgRow(o) : o \in active})
    <3>1. active \in SUBSET Orgs
      BY DEF fukulow_active_organizations
    <3> HIDE DEF active
    <3>2. loc' \in [Tx -> Locals]
      BY <2>2, <3>1, <1>2, LocalsFacts
    <3>3. {OrgRow(o) : o \in active} \in SUBSET Rows
      BY <3>1, RowFacts
    <3> QED
      BY <2>2, <3>2, <3>3, StartTyped, ModeFacts DEF Points
  <2> QED
    BY <1>3, <2>1, <2>2 DEF LeaveActor
<1>4. CASE LeaveChecks(t)
  <2>1. CASE Rollback(t, "LastOwner")
    BY <2>1, RollbackTyped DEF Results
  <2> DEFINE R == {o \in Orgs : member[o][Leaver(t)] # NoMember}
             C == {o \in R : member[o][Leaver(t)].status # "left"}
             L == {o \in Orgs : \E ch \in Channels :
                       channel[ch].org = o /\ Leaver(t) \in channelMember[ch]}
  <2>2. CASE /\ loc' = [loc EXCEPT ![t].memberships = R, ![t].rest = R,
                                   ![t].current = C, ![t].listed = L]
             /\ Start(t, "leave_next", Update, {})
    <3>1. R \in SUBSET Orgs /\ C \in SUBSET Orgs /\ L \in SUBSET Orgs
      OBVIOUS
    <3> HIDE DEF R, C, L
    <3>2. [loc[t] EXCEPT !.memberships = R, !.rest = R, !.current = C, !.listed = L]
              \in Locals
      BY <1>2, <3>1, LocalsFacts
    <3>3. loc' \in [Tx -> Locals]
      BY <2>2, <1>2, <3>2
    <3> QED
      BY <2>2, <3>3, StartTyped, ModeFacts DEF Points
  <2> QED
    BY <1>4, <2>1, <2>2 DEF LeaveChecks
<1>5. CASE LeaveTeams(t)
  <2>1. PICK R \in SUBSET Teams :
            /\ loc' = [loc EXCEPT ![t].removing = R]
            /\ Start(t, "leave_audit", Update, {TeamMemberRow(tm, Leaver(t)) : tm \in R})
    BY <1>5 DEF LeaveTeams
  <2>2. loc' \in [Tx -> Locals]
    BY <1>2, <2>1, LocalsFacts
  <2>3. {TeamMemberRow(tm, Leaver(t)) : tm \in R} \in SUBSET Rows
    BY <1>1, RowFacts DEF Leaver
  <2> QED
    BY <2>1, <2>2, <2>3, StartTyped, ModeFacts DEF Points
<1>6. CASE LeaveAudit(t)
  <2>1. PICK o \in loc[t].rest :
            LET removed == {tm \in loc[t].removing : teamMember[tm][Leaver(t)] # "none"}
                events == LeaveAudits(t, o, removed)
            IN IF \A e \in events : AuditAdmitted(Leaver(t), e)
               THEN /\ loc' = [loc EXCEPT ![t].rest = @ \ {o}, ![t].removing = {},
                                          ![t].removed = @ \cup removed]
                    /\ Start(t, "leave_next", KeyShare, {OrgRow(e.org) : e \in events})
               ELSE Rollback(t, "Database")
    BY <1>6 DEF LeaveAudit
  <2> DEFINE removed == {tm \in loc[t].removing : teamMember[tm][Leaver(t)] # "none"}
             events == LeaveAudits(t, o, removed)
  <2>2. CASE Rollback(t, "Database")
    BY <2>2, RollbackTyped DEF Results
  <2>3. CASE /\ loc' = [loc EXCEPT ![t].rest = @ \ {o}, ![t].removing = {},
                                   ![t].removed = @ \cup removed]
             /\ Start(t, "leave_next", KeyShare, {OrgRow(e.org) : e \in events})
    <3>1. /\ o \in Orgs /\ removed \in SUBSET Teams
          /\ loc[t].rest \in SUBSET Orgs /\ loc[t].removed \in SUBSET Teams
      BY <1>2, <2>1 DEF Locals
    <3>2. \A e \in events : e.org = o
      BY DEF LeaveAudits, team_member_removed, member_left, NoEvent
    <3> HIDE DEF removed, events
    <3>3. [loc[t] EXCEPT !.rest = loc[t].rest \ {o}, !.removing = {},
                         !.removed = loc[t].removed \cup removed] \in Locals
      BY <1>2, <3>1, LocalsFacts
    <3>4. loc' \in [Tx -> Locals]
      BY <2>3, <1>2, <3>3
    <3>5. {OrgRow(e.org) : e \in events} \in SUBSET Rows
      BY <3>1, <3>2, RowFacts
    <3> QED
      BY <2>3, <3>4, <3>5, StartTyped, ModeFacts DEF Points
  <2> QED
    BY <2>1, <2>2, <2>3
<1>7. CASE LeaveChannels(t)
  <2>1. PICK o \in loc[t].listed :
            LET listings == ListedIn(t, o)
                events == {channel_member_left(o, Leaver(t), ch) : ch \in listings}
                seen == ListingsLeft(t, loc[t].unlisted)
            IN IF \A e \in events : AuditAdmittedIn(member, seen, Leaver(t), e)
               THEN /\ loc' = [loc EXCEPT ![t].listed = @ \ {o},
                                          ![t].unlisted = @ \cup listings]
                    /\ Start(t, "leave_next", KeyShare, {OrgRow(e.org) : e \in events})
               ELSE Rollback(t, "Database")
    BY <1>7 DEF LeaveChannels
  <2> DEFINE listings == ListedIn(t, o)
             events == {channel_member_left(o, Leaver(t), ch) : ch \in listings}
  <2>2. CASE Rollback(t, "Database")
    BY <2>2, RollbackTyped DEF Results
  <2>3. CASE /\ loc' = [loc EXCEPT ![t].listed = @ \ {o}, ![t].unlisted = @ \cup listings]
             /\ Start(t, "leave_next", KeyShare, {OrgRow(e.org) : e \in events})
    <3>1. /\ o \in Orgs /\ listings \in SUBSET Channels
          /\ loc[t].listed \in SUBSET Orgs /\ loc[t].unlisted \in SUBSET Channels
      BY <1>2, <2>1 DEF Locals, ListedIn
    <3>2. \A e \in events : e.org = o
      BY DEF channel_member_left, NoEvent
    <3> HIDE DEF listings, events
    <3>3. [loc[t] EXCEPT !.listed = loc[t].listed \ {o},
                         !.unlisted = loc[t].unlisted \cup listings] \in Locals
      BY <1>2, <3>1, LocalsFacts
    <3>4. loc' \in [Tx -> Locals]
      BY <2>3, <1>2, <3>3
    <3>5. {OrgRow(e.org) : e \in events} \in SUBSET Rows
      BY <3>1, <3>2, RowFacts
    <3> QED
      BY <2>3, <3>4, <3>5, StartTyped, ModeFacts DEF Points
  <2> QED
    BY <2>1, <2>2, <2>3
<1>8. CASE LeaveCommit(t)
  <2>1. member' \in [Orgs -> [Actors -> MemberRows]]
    <3>1. \A o \in Orgs : member[o] \in [Actors -> MemberRows]
      BY DEF TypeOK, TablesTypeOK
    <3>2. \A o \in Orgs :
              SetColumns(member[o][Leaver(t)], member[o][Leaver(t)].role, "left") \in MemberRows
      BY <1>1, <3>1, SetColumnsTyped DEF Leaver, MemberRows, Statuses
    <3>3. \A o \in Orgs : [member[o] EXCEPT ![Leaver(t)] = SetColumns(@, @.role, "left")]
                              \in [Actors -> MemberRows]
      BY <3>1, <3>2
    <3> QED
      BY <1>8, <3>1, <3>3 DEF LeaveCommit
  <2>2. teamMember' \in [Teams -> [Actors -> TeamRoles \cup {"none"}]]
    BY <1>8, <1>1 DEF LeaveCommit, TypeOK, TablesTypeOK
  <2>3. channelMember' \in [Channels -> SUBSET Actors]
    BY <1>8 DEF LeaveCommit, ListingsLeft, TypeOK, TablesTypeOK
  <2>4. users' \in SUBSET Actors
    BY <1>8 DEF LeaveCommit, TypeOK, TablesTypeOK
  <2>5. actor' \in [Actors -> {"absent", "live", "departed"}]
    BY <1>8 DEF LeaveCommit, TypeOK, TablesTypeOK
  <2>6. TablesTypeOK'
    BY <1>8, <2>1, <2>2, <2>3, <2>4, <2>5 DEF LeaveCommit, TypeOK, TablesTypeOK
  <2> QED
    BY <1>8, <2>6, CommitTyped DEF LeaveCommit
<1> QED
  BY <1>3, <1>4, <1>5, <1>6, <1>7, <1>8 DEF LeavingStep

(* Teams and channels.                                                     *)

\* Starting a statement on rows that exist, with the locals as they were.
LEMMA StartSameTyped ==
    ASSUME TypeOK, NEW t \in Tx, NEW p \in Points, NEW m \in Modes,
           NEW rows \in SUBSET Rows, Start(t, p, m, rows), UNCHANGED loc
    PROVE  TypeOK'
BY StartTyped DEF TypeOK, ControlTypeOK

\* Writing a team row keeps the types.
LEMMA WriteTeamMemberTyped ==
    ASSUME TypeOK, NEW t \in Tx, call[t].team \in Teams, call[t].who \in Actors,
           NEW role \in TeamRoles \cup {"none"}, NEW event, WriteTeamMember(t, role, event)
    PROVE  TypeOK'
<1>1. CASE Rollback(t, "Database")
  BY <1>1, RollbackTyped DEF Results
<1>2. CASE /\ teamMember' = [teamMember EXCEPT ![call[t].team][call[t].who] = role]
           /\ Commit(t, {event})
           /\ UNCHANGED <<actor, users, slug, member, team, channel, channelMember, blind>>
  <2>1. TablesTypeOK'
    BY <1>2 DEF TypeOK, TablesTypeOK
  <2> QED
    BY <1>2, <2>1, CommitTyped
<1> QED
  BY <1>1, <1>2 DEF WriteTeamMember

\* Every step of teams.rs keeps the types.
LEMMA TeamsTyped ==
    ASSUME TypeOK, NEW t \in Tx, TeamsStep(t)
    PROVE  TypeOK'
<1>1. /\ call[t] \in Calls /\ call[t].op \in WithTeam
      /\ call[t].org \in Orgs /\ call[t].team \in Teams
  BY RunsCall, CallFacts
     DEF TeamsStep, CreateTeam, AddTeamMember, InsertTeamMember, WriteTeamMembership,
         ChangeTeamMemberRole, WriteTeamRole, RemoveTeamMember, WriteTeamRemoval, At, WithTeam
<1>2. call[t].op # "create_team" => call[t].who \in Actors
  BY <1>1, CallFacts DEF WithTeam, WithTarget
<1>3. call[t].op \in {"add_team_member", "change_team_member_role"}
          => call[t].role \in TeamRoles
  BY <1>1, CallFacts
<1>4. call[t].op # "create_team" =>
          /\ {TeamMemberRow(call[t].team, call[t].who)} \in SUBSET Rows
          /\ {ActorRow(call[t].who)} \in SUBSET Rows
  BY <1>1, <1>2, RowFacts
<1>5. CASE CreateTeam(t)
  <2>1. CASE Rollback(t, "Database")
    BY <2>1, RollbackTyped DEF Results
  <2>2. CASE /\ team' = [team EXCEPT ![call[t].team] = call[t].org]
             /\ Commit(t, {team_created(call[t].org, call[t].team)})
             /\ UNCHANGED <<actor, users, slug, member, teamMember, channel,
                            channelMember, blind>>
    <3>1. TablesTypeOK'
      BY <1>1, <2>2 DEF TypeOK, TablesTypeOK
    <3> QED
      BY <2>2, <3>1, CommitTyped
  <2> QED
    BY <1>5, <2>1, <2>2 DEF CreateTeam
<1>6. CASE AddTeamMember(t)
  <2>1. AddTeamMemberRefusal(t) \in Results
    BY DEF AddTeamMemberRefusal, Results
  <2> QED
    BY <1>6, <1>4, <2>1, RollbackTyped, StartSameTyped, ModeFacts
       DEF AddTeamMember, At, Points
<1>7. CASE InsertTeamMember(t)
  BY <1>7, <1>4, RollbackTyped, StartSameTyped, ModeFacts
     DEF InsertTeamMember, At, Points, Results
<1>8. CASE WriteTeamMembership(t)
  BY <1>8, <1>1, <1>2, <1>3, WriteTeamMemberTyped DEF WriteTeamMembership, At
<1>9. CASE ChangeTeamMemberRole(t)
  <2>1. CASE Rollback(t, "NotFound")
    BY <2>1, RollbackTyped DEF Results
  <2>2. CASE End(t, "Ok") /\ UNCHANGED <<tables, blind>>
    BY <2>2, RollbackTyped DEF Rollback, Results
  <2>3. CASE /\ loc' = [loc EXCEPT ![t].from = Listing(t)]
             /\ Start(t, "write", NoKeyUpdate, {TeamMemberRow(call[t].team, call[t].who)})
    <3>1. Listing(t) \in TeamRoles \cup {"none"}
      BY <1>9, <1>1, <1>2
         DEF ChangeTeamMemberRole, At, Listing, TeamMemberSeen, TypeOK, TablesTypeOK
    <3>2. loc' \in [Tx -> Locals]
      BY <2>3, <3>1, LocalsFacts DEF TypeOK, ControlTypeOK
    <3> QED
      BY <1>9, <1>4, <2>3, <3>2, StartTyped, ModeFacts DEF ChangeTeamMemberRole, At, Points
  <2> QED
    BY <1>9, <2>1, <2>2, <2>3 DEF ChangeTeamMemberRole
<1>10. CASE WriteTeamRole(t)
  BY <1>10, <1>1, <1>2, <1>3, WriteTeamMemberTyped DEF WriteTeamRole, At
<1>11. CASE RemoveTeamMember(t)
  BY <1>11, <1>4, RollbackTyped, StartSameTyped, ModeFacts
     DEF RemoveTeamMember, At, Points, Results
<1>12. CASE WriteTeamRemoval(t)
  BY <1>12, <1>1, <1>2, RollbackTyped, WriteTeamMemberTyped DEF WriteTeamRemoval, At, Results
<1> QED
  BY <1>5, <1>6, <1>7, <1>8, <1>9, <1>10, <1>11, <1>12 DEF TeamsStep

\* Every step of channels.rs keeps the types.
LEMMA ChannelsTyped ==
    ASSUME TypeOK, NEW t \in Tx, ChannelsStep(t)
    PROVE  TypeOK'
<1>1. /\ call[t] \in Calls /\ call[t].org \in Orgs /\ call[t].channel \in Channels
      /\ call[t].op = "create_channel" => call[t].team \in Teams \cup {0}
                                              /\ call[t].name \in Names
      /\ call[t].op = "add_channel_member" => call[t].who \in Actors
  BY RunsCall, CallFacts
     DEF ChannelsStep, CreateChannel, WriteChannel, AddChannelMember, WriteChannelMember, At,
         WithTarget
<1>2. CASE CreateChannel(t)
  <2>1. CreateChannelRefusal(call[t]) \in Results
    BY DEF CreateChannelRefusal, Results
  <2> QED
    BY <1>2, <2>1, RollbackTyped, StartSameTyped, ModeFacts DEF CreateChannel, Points
<1>3. CASE WriteChannel(t)
  <2>1. CASE Rollback(t, WriteChannelRefusal(call[t]))
    BY <2>1, RollbackTyped DEF WriteChannelRefusal, Results
  <2>2. CASE /\ channel' = [channel EXCEPT ![call[t].channel] =
                    [org |-> call[t].org, team |-> call[t].team, name |-> call[t].name]]
             /\ Commit(t, {channel_created(call[t].org, call[t].channel, call[t].team)})
             /\ UNCHANGED <<actor, users, slug, member, team, teamMember,
                            channelMember, blind>>
    <3>1. TablesTypeOK'
      BY <1>1, <1>3, <2>2 DEF TypeOK, TablesTypeOK, WriteChannel, At
    <3> QED
      BY <2>2, <3>1, CommitTyped
  <2> QED
    BY <1>3, <2>1, <2>2 DEF WriteChannel
<1>4. CASE AddChannelMember(t)
  <2>1. AddChannelMemberRefusal(t) \in Results
    BY DEF AddChannelMemberRefusal, Results
  <2> QED
    BY <1>4, <2>1, RollbackTyped, StartSameTyped, ModeFacts DEF AddChannelMember, Points
<1>5. CASE WriteChannelMember(t)
  <2>1. CASE Rollback(t, "AlreadyMember")
    BY <2>1, RollbackTyped DEF Results
  <2>2. CASE /\ channelMember' = [channelMember EXCEPT ![call[t].channel] =
                                      @ \cup {call[t].who}]
             /\ Commit(t, {channel_member_added(call[t].org, call[t].who, call[t].channel)})
             /\ UNCHANGED <<actor, users, slug, member, team, teamMember, channel, blind>>
    <3>1. TablesTypeOK'
      BY <1>1, <1>5, <2>2 DEF TypeOK, TablesTypeOK, WriteChannelMember, At
    <3> QED
      BY <2>2, <3>1, CommitTyped
  <2> QED
    BY <1>5, <2>1, <2>2 DEF WriteChannelMember
<1> QED
  BY <1>2, <1>3, <1>4, <1>5 DEF ChannelsStep

----------------------------------------------------------------------------
\* Every initial state has the types.
LEMMA InitTyped ==
    ASSUME StoreInit
    PROVE  TypeOK
<1>1. PICK db \in Initial :
           /\ actor = db.actor /\ users = db.users /\ slug = db.slug
           /\ member = db.member /\ team = db.team /\ teamMember = db.teamMember
           /\ channel = db.channel /\ channelMember = db.channelMember
  BY DEF StoreInit
<1>2. db \in Databases
  BY InitialAssumption
<1>3. TablesTypeOK
  BY <1>1, <1>2 DEF TablesTypeOK, Databases, StoreInit
<1>4. LocksTypeOK
  BY DEF StoreInit, LocksTypeOK, NoLocks, NoStatement, Modes, KeyShare, Update
<1>5. ControlTypeOK
  BY DEF StoreInit, ControlTypeOK, Points, NoLocals, Locals, Results
<1> QED
  BY <1>3, <1>4, <1>5 DEF TypeOK

----------------------------------------------------------------------------
(* The steps of a transaction, sorted by what they do to its control.      *)

Ends(t) == \E r \in Results : End(t, r)

\* t's statement at point p has returned, and its next one, at q, starts.
Moves(t, p, q) ==
    /\ pc[t] = p /\ Returned(t)
    /\ pc' = [pc EXCEPT ![t] = q]
    /\ UNCHANGED <<tables, blind, held, call, result>>
    /\ \E m, rows : todo' = [todo EXCEPT ![t] = Statement(m, rows)]
    /\ \E l : loc' = [loc EXCEPT ![t] = l]

\* It changes none of the locals that the owner rule rests on.
Steady(t) == loc'[t].departed = loc[t].departed /\ loc'[t].orgs = loc[t].orgs

\* From an organization's lock, or from the primary key, on to the write.
Advances(t) ==
    /\ \/ Moves(t, "lock_organization", "write")
       \/ Moves(t, "lock_organization", "insert")
       \/ Moves(t, "insert", "write") /\ call[t].op = "add_team_member"
    /\ Steady(t)

\* create_organization goes from its actor's lock to the unique key.
ToSlug(t) ==
    /\ Moves(t, "lock_actor", "insert") /\ call[t].op = "create_organization"
    /\ Steady(t) /\ loc[t].departed # "None"

\* The loop of leave_service.
Loops(t) ==
    /\ call[t].op = "leave_service" /\ Steady(t)
    /\ \/ Moves(t, "leave_next", "leave_audit")
       \/ Moves(t, "leave_next", "leave_next")
       \/ Moves(t, "leave_audit", "leave_next")

ToOrganization(t) ==
    /\ Moves(t, "lock_actor", "lock_organization")
    /\ call[t].op # "create_organization"
    /\ OrgRow(call[t].org) \in todo'[t].rows /\ todo'[t].mode = Update
    /\ loc'[t].departed # "None" => loc[t].departed # "None"

ToOrganizations(t) ==
    /\ Moves(t, "leave_actor", "leave_orgs") /\ call[t].op = "leave_service"
    /\ actor[call[t].by] = "live"
    /\ loc'[t].orgs = {o \in Orgs : member[o][call[t].by].status = "active"}
    /\ \A o \in loc'[t].orgs : OrgRow(o) \in todo'[t].rows
    /\ todo'[t].mode = Update

ToLoop(t) ==
    /\ Moves(t, "leave_orgs", "leave_next") /\ call[t].op = "leave_service"
    /\ Steady(t) /\ ~LeaveLastOwner(t)

\* Every step of MembershipStep ends the transaction or moves it on.
LEMMA MembershipKinds ==
    ASSUME TypeOK, CourseOK, NEW t \in Tx, MembershipStep(t)
    PROVE  Ends(t) \/ Advances(t) \/ ToSlug(t)
<1>1. ASSUME NEW refusal \in Results, NEW unchanged, NEW from,
             At(t, "lock_organization", call[t].op), Decide(t, refusal, unchanged, from)
      PROVE  Ends(t) \/ Advances(t)
  <2>1. CASE Rollback(t, refusal)
    BY <2>1 DEF Rollback, Ends
  <2>2. CASE End(t, "Ok")
    BY <2>2 DEF Ends, Results
  <2>3. CASE loc' = [loc EXCEPT ![t].from = from] /\ Start(t, "write", Update, {})
    <3>1. Moves(t, "lock_organization", "write")
      BY <2>3, <1>1 DEF Moves, Start, At
    <3>2. Steady(t)
      BY <2>3 DEF Steady, TypeOK, ControlTypeOK, Locals
    <3> QED
      BY <3>1, <3>2 DEF Advances
  <2> QED
    BY <1>1, <2>1, <2>2, <2>3 DEF Decide
<1>2. ASSUME NEW role, NEW status, NEW event, WriteMember(t, role, status, event)
      PROVE  Ends(t)
  BY <1>2 DEF WriteMember, Rollback, Commit, Ends, Results
<1>3. CASE CreateOrganization(t)
  <2>1. CASE Rollback(t, CreateOrganizationRefusal(t))
    BY <2>1 DEF Rollback, CreateOrganizationRefusal, Ends, Results
  <2>2. CASE /\ CreateOrganizationRefusal(t) = "none"
             /\ Start(t, "insert", Update, {SlugKey(call[t].name)}) /\ UNCHANGED loc
    <3>1. Moves(t, "lock_actor", "insert") /\ call[t].op = "create_organization"
      <4>1. loc' = [loc EXCEPT ![t] = loc[t]]
        BY <2>2 DEF TypeOK, ControlTypeOK
      <4> QED
        BY <4>1, <2>2, <1>3 DEF Moves, Start, At, CreateOrganization
    <3>2. Steady(t) /\ loc[t].departed # "None"
      BY <2>2 DEF Steady, CreateOrganizationRefusal, DepartedNow
    <3> QED
      BY <3>1, <3>2 DEF ToSlug
  <2> QED
    BY <1>3, <2>1, <2>2 DEF CreateOrganization
<1>4. CASE InsertOrganization(t)
  BY <1>4 DEF InsertOrganization, Rollback, Commit, Ends, Results
<1>5. CASE ChangeMemberRole(t)
  BY <1>5, <1>1 DEF ChangeMemberRole, ChangeMemberRoleRefusal, Results, At
<1>6. CASE SuspendMember(t)
  BY <1>6, <1>1 DEF SuspendMember, SuspendMemberRefusal, Results, At
<1>7. CASE ReactivateMember(t)
  BY <1>7, <1>1 DEF ReactivateMember, ReactivateMemberRefusal, Results, At
<1>8. CASE WriteMemberRole(t)
  BY <1>8, <1>2 DEF WriteMemberRole
<1>9. CASE WriteSuspension(t)
  BY <1>9, <1>2 DEF WriteSuspension
<1>10. CASE WriteReactivation(t)
  BY <1>10, <1>2 DEF WriteReactivation
<1> QED
  BY <1>3, <1>4, <1>5, <1>6, <1>7, <1>8, <1>9, <1>10 DEF MembershipStep

\* The steps of teams.rs are of the kinds above.
LEMMA TeamsKinds ==
    ASSUME TypeOK, CourseOK, NEW t \in Tx, TeamsStep(t)
    PROVE  Ends(t) \/ Advances(t)
<1>1. ASSUME NEW role, NEW event, WriteTeamMember(t, role, event)
      PROVE  Ends(t)
  BY <1>1 DEF WriteTeamMember, Rollback, Commit, Ends, Results
<1>2. loc' = loc => loc' = [loc EXCEPT ![t] = loc[t]] /\ Steady(t)
  BY DEF TypeOK, ControlTypeOK, Steady
<1>3. CASE CreateTeam(t)
  BY <1>3 DEF CreateTeam, Rollback, Commit, Ends, Results
<1>4. CASE AddTeamMember(t)
  <2>1. CASE Rollback(t, AddTeamMemberRefusal(t))
    BY <2>1 DEF Rollback, AddTeamMemberRefusal, Ends, Results
  <2>2. CASE /\ Start(t, "insert", Update, {TeamMemberRow(call[t].team, call[t].who)})
             /\ UNCHANGED loc
    BY <2>2, <1>2, <1>4 DEF Advances, Moves, Start, At, AddTeamMember
  <2> QED
    BY <1>4, <2>1, <2>2 DEF AddTeamMember
<1>5. CASE InsertTeamMember(t)
  <2>1. CASE Rollback(t, "AlreadyMember")
    BY <2>1 DEF Rollback, Ends, Results
  <2>2. CASE Start(t, "write", KeyShare, {ActorRow(call[t].who)}) /\ UNCHANGED loc
    BY <2>2, <1>2, <1>5 DEF Advances, Moves, Start, At, InsertTeamMember
  <2> QED
    BY <1>5, <2>1, <2>2 DEF InsertTeamMember
<1>6. CASE WriteTeamMembership(t)
  BY <1>6, <1>1 DEF WriteTeamMembership
<1>7. CASE ChangeTeamMemberRole(t)
  <2>1. CASE Rollback(t, "NotFound") \/ End(t, "Ok")
    BY <2>1 DEF Rollback, Ends, Results
  <2>2. CASE /\ loc' = [loc EXCEPT ![t].from = Listing(t)]
             /\ Start(t, "write", NoKeyUpdate, {TeamMemberRow(call[t].team, call[t].who)})
    <3>1. Moves(t, "lock_organization", "write")
      BY <2>2, <1>7 DEF Moves, Start, At, ChangeTeamMemberRole
    <3>2. Steady(t)
      BY <2>2 DEF Steady, TypeOK, ControlTypeOK, Locals
    <3> QED
      BY <3>1, <3>2 DEF Advances
  <2> QED
    BY <1>7, <2>1, <2>2 DEF ChangeTeamMemberRole
<1>8. CASE WriteTeamRole(t)
  BY <1>8, <1>1 DEF WriteTeamRole
<1>9. CASE RemoveTeamMember(t)
  <2>1. CASE Rollback(t, "NotFound")
    BY <2>1 DEF Rollback, Ends, Results
  <2>2. CASE /\ Start(t, "write", Update, {TeamMemberRow(call[t].team, call[t].who)})
             /\ UNCHANGED loc
    BY <2>2, <1>2, <1>9 DEF Advances, Moves, Start, At, RemoveTeamMember
  <2> QED
    BY <1>9, <2>1, <2>2 DEF RemoveTeamMember
<1>10. CASE WriteTeamRemoval(t)
  BY <1>10, <1>1 DEF WriteTeamRemoval, Rollback, Ends, Results
<1> QED
  BY <1>3, <1>4, <1>5, <1>6, <1>7, <1>8, <1>9, <1>10 DEF TeamsStep

\* The steps of channels.rs are of the kinds above.
LEMMA ChannelsKinds ==
    ASSUME TypeOK, CourseOK, NEW t \in Tx, ChannelsStep(t)
    PROVE  Ends(t) \/ Advances(t)
<1>1. loc' = loc => loc' = [loc EXCEPT ![t] = loc[t]] /\ Steady(t)
  BY DEF TypeOK, ControlTypeOK, Steady
<1>2. CASE CreateChannel(t)
  <2>1. CASE Rollback(t, CreateChannelRefusal(call[t]))
    BY <2>1 DEF Rollback, CreateChannelRefusal, Ends, Results
  <2>2. CASE Start(t, "write", Update, {}) /\ UNCHANGED loc
    BY <2>2, <1>1, <1>2 DEF Advances, Moves, Start, At, CreateChannel
  <2> QED
    BY <1>2, <2>1, <2>2 DEF CreateChannel
<1>3. CASE WriteChannel(t)
  BY <1>3 DEF WriteChannel, WriteChannelRefusal, Rollback, Commit, Ends, Results
<1>4. CASE AddChannelMember(t)
  <2>1. CASE Rollback(t, AddChannelMemberRefusal(t))
    BY <2>1 DEF Rollback, AddChannelMemberRefusal, Ends, Results
  <2>2. CASE Start(t, "write", Update, {}) /\ UNCHANGED loc
    BY <2>2, <1>1, <1>4 DEF Advances, Moves, Start, At, AddChannelMember
  <2> QED
    BY <1>4, <2>1, <2>2 DEF AddChannelMember
<1>5. CASE WriteChannelMember(t)
  BY <1>5 DEF WriteChannelMember, Rollback, Commit, Ends, Results
<1> QED
  BY <1>2, <1>3, <1>4, <1>5 DEF ChannelsStep

\* The steps of leaving.rs are of the kinds above.
LEMMA LeavingKinds ==
    ASSUME TypeOK, CourseOK, NEW t \in Tx, LeavingStep(t)
    PROVE  Ends(t) \/ ToOrganizations(t) \/ ToLoop(t) \/ Loops(t)
<1>2. loc \in [Tx -> Locals] /\ loc[t] \in Locals
  BY DEF TypeOK, ControlTypeOK
<1>3. CASE LeaveActor(t)
  <2> DEFINE active == fukulow_active_organizations(Leaver(t))
  <2>1. CASE Rollback(t, "NotFound")
    BY <2>1 DEF Rollback, Ends, Results
  <2>2. CASE /\ actor[Leaver(t)] = "live"
             /\ loc' = [loc EXCEPT ![t].orgs = active]
             /\ Start(t, "leave_orgs", Update, {OrgRow(o) : o \in active})
    <3>1. Moves(t, "leave_actor", "leave_orgs")
      BY <2>2, <1>3 DEF Moves, Start, At, LeaveActor
    <3>2. loc'[t].orgs = active
      BY <2>2, <1>2 DEF Locals
    <3>3. todo'[t] = Statement(Update, {OrgRow(o) : o \in active})
      BY <2>2 DEF Start, TypeOK, LocksTypeOK
    <3>4. call[t].op = "leave_service" /\ actor[call[t].by] = "live"
      BY <2>2, <1>3 DEF LeaveActor, At, Leaver
    <3>5. todo'[t].rows = {OrgRow(o) : o \in active} /\ todo'[t].mode = Update
      BY <3>3 DEF Statement
    <3>6. active = {o \in Orgs : member[o][call[t].by].status = "active"}
      BY DEF Leaver, fukulow_active_organizations
    <3> HIDE DEF active
    <3> QED
      BY <3>1, <3>2, <3>4, <3>5, <3>6 DEF ToOrganizations
  <2> QED
    BY <1>3, <2>1, <2>2 DEF LeaveActor
<1>4. CASE LeaveChecks(t)
  <2>1. CASE Rollback(t, "LastOwner")
    BY <2>1 DEF Rollback, Ends, Results
  <2> DEFINE R == {o \in Orgs : member[o][Leaver(t)] # NoMember}
             C == {o \in R : member[o][Leaver(t)].status # "left"}
             L == {o \in Orgs : \E ch \in Channels :
                       channel[ch].org = o /\ Leaver(t) \in channelMember[ch]}
  <2>2. CASE /\ ~LeaveLastOwner(t)
             /\ loc' = [loc EXCEPT ![t].memberships = R, ![t].rest = R,
                                   ![t].current = C, ![t].listed = L]
             /\ Start(t, "leave_next", Update, {})
    <3> HIDE DEF R, C, L
    <3>0. loc' = [loc EXCEPT ![t] = [loc[t] EXCEPT !.memberships = R, !.rest = R,
                                                   !.current = C, !.listed = L]]
      BY <2>2, <1>2
    <3>1. Moves(t, "leave_orgs", "leave_next")
      <4>1. At(t, "leave_orgs", "leave_service")
        BY <1>4 DEF LeaveChecks
      <4> QED
        BY <2>2, <3>0, <4>1 DEF Moves, Start, At
    <3>2. Steady(t)
      BY <2>2, <1>2 DEF Steady, Locals
    <3> QED
      BY <3>1, <3>2, <2>2, <1>4 DEF ToLoop, LeaveChecks, At
  <2> QED
    BY <1>4, <2>1, <2>2 DEF LeaveChecks
<1>5. CASE LeaveTeams(t)
  <2>1. PICK R : /\ loc' = [loc EXCEPT ![t].removing = R]
                 /\ Start(t, "leave_audit", Update, {TeamMemberRow(tm, Leaver(t)) : tm \in R})
    BY <1>5 DEF LeaveTeams
  <2>2. Moves(t, "leave_next", "leave_audit") /\ call[t].op = "leave_service"
    BY <2>1, <1>5 DEF Moves, Start, At, LeaveTeams
  <2>3. Steady(t)
    BY <2>1, <1>2 DEF Steady, Locals
  <2> QED
    BY <2>2, <2>3 DEF Loops
<1>6. CASE LeaveAudit(t)
  <2>1. CASE Rollback(t, "Database")
    BY <2>1 DEF Rollback, Ends, Results
  <2>2. CASE \E S, R, rows :
                /\ loc' = [loc EXCEPT ![t].rest = S, ![t].removing = {}, ![t].removed = R]
                /\ Start(t, "leave_next", KeyShare, rows)
    <3>1. Moves(t, "leave_audit", "leave_next") /\ call[t].op = "leave_service"
      BY <2>2, <1>6 DEF Moves, Start, At, LeaveAudit
    <3>2. Steady(t)
      BY <2>2, <1>2 DEF Steady, Locals
    <3> QED
      BY <3>1, <3>2 DEF Loops
  <2> QED
    BY <1>6, <2>1, <2>2 DEF LeaveAudit
<1>7. CASE LeaveChannels(t)
  <2>1. CASE Rollback(t, "Database")
    BY <2>1 DEF Rollback, Ends, Results
  <2>2. CASE \E S, U, rows :
                /\ loc' = [loc EXCEPT ![t].listed = S, ![t].unlisted = U]
                /\ Start(t, "leave_next", KeyShare, rows)
    <3>1. Moves(t, "leave_next", "leave_next") /\ call[t].op = "leave_service"
      BY <2>2, <1>7 DEF Moves, Start, At, LeaveChannels
    <3>2. Steady(t)
      BY <2>2, <1>2 DEF Steady, Locals
    <3> QED
      BY <3>1, <3>2 DEF Loops
  <2> QED
    BY <1>7, <2>1, <2>2 DEF LeaveChannels
<1>8. CASE LeaveCommit(t)
  BY <1>8 DEF LeaveCommit, Commit, Ends, Results
<1> QED
  BY <1>3, <1>4, <1>5, <1>6, <1>7, <1>8 DEF LeavingStep

\* lock_organization is of the kinds above.
LEMMA LockOrganizationKinds ==
    ASSUME TypeOK, CourseOK, NEW t \in Tx, LockOrganization(t)
    PROVE  Ends(t) \/ ToOrganization(t)
<1>1. CASE Rollback(t, "NotFound")
  BY <1>1 DEF Rollback, Ends, Results
<1>2. CASE /\ loc' = [loc EXCEPT ![t].departed = DepartedNow(t)]
           /\ Start(t, "lock_organization", Update, {OrgRow(call[t].org)})
  <2>1. Moves(t, "lock_actor", "lock_organization")
    BY <1>2 DEF Moves, Start, LockOrganization
  <2>2. todo'[t] = Statement(Update, {OrgRow(call[t].org)})
    BY <1>2 DEF Start, TypeOK, LocksTypeOK
  <2>3. loc'[t].departed = DepartedNow(t)
    BY <1>2 DEF TypeOK, ControlTypeOK, Locals
  <2> QED
    BY <2>1, <2>2, <2>3 DEF ToOrganization, LockOrganization, DepartedNow, Statement
<1> QED
  BY <1>1, <1>2 DEF LockOrganization

MovesOn(t) ==
    \/ Advances(t) \/ ToSlug(t) \/ ToOrganization(t)
    \/ ToOrganizations(t) \/ ToLoop(t) \/ Loops(t)

\* Every step begins a transaction, takes a lock, ends it or moves it on.
LEMMA StepKinds ==
    ASSUME TypeOK, CourseOK, NEW t \in Tx, Step(t) \/ Cancel(t)
    PROVE  TakeLock(t) \/ Ends(t) \/ MovesOn(t)
<1>1. CASE DeadlockAbort(t) \/ Cancel(t)
  BY <1>1 DEF DeadlockAbort, Cancel, Rollback, Ends, Results
<1> QED
  BY <1>1, MembershipKinds, LeavingKinds, TeamsKinds, ChannelsKinds, LockOrganizationKinds
     DEF Step, MovesOn

\* A step of one transaction leaves the control of the others alone.
LEMMA OthersUnchanged ==
    ASSUME TypeOK, NEW t \in Tx, NEW u \in Tx, t # u,
           Begin(t) \/ TakeLock(t) \/ Ends(t) \/ MovesOn(t)
    PROVE  /\ pc'[u] = pc[u] /\ call'[u] = call[u] /\ loc'[u] = loc[u]
           /\ held'[u] = held[u] /\ todo'[u] = todo[u]
<1>1. CASE Begin(t)
  BY <1>1 DEF Begin, TypeOK, LocksTypeOK, ControlTypeOK
<1>2. CASE TakeLock(t)
  BY <1>2 DEF TakeLock, Acquire, TypeOK, LocksTypeOK, ControlTypeOK
<1>3. CASE Ends(t)
  BY <1>3 DEF Ends, End, TypeOK, LocksTypeOK, ControlTypeOK
<1>4. CASE MovesOn(t)
  <2>1. PICK p, q : Moves(t, p, q)
    BY <1>4 DEF MovesOn, Advances, ToSlug, ToOrganization, ToOrganizations, ToLoop, Loops
  <2> QED
    BY <2>1 DEF Moves, TypeOK, LocksTypeOK, ControlTypeOK
<1> QED
  BY <1>1, <1>2, <1>3, <1>4

----------------------------------------------------------------------------
(* Types and courses.                                                      *)

\* Every step keeps the types.
LEMMA TypeStep ==
    ASSUME TypeOK, CourseOK, NEW t \in Tx, Begin(t) \/ Step(t) \/ Cancel(t)
    PROVE  TypeOK'
<1>1. CASE LockOrganization(t)
  <2>1. call[t] \in Calls /\ call[t].op # "leave_service"
    BY <1>1 DEF LockOrganization, CourseOK
  <2> QED
    BY <1>1, <2>1, LockOrganizationTyped
<1>2. CASE DeadlockAbort(t) \/ Cancel(t)
  BY <1>2, RollbackTyped DEF DeadlockAbort, Cancel, Results
<1> QED
  BY <1>1, <1>2, BeginTyped, TakeLockTyped, MembershipTyped, LeavingTyped, TeamsTyped,
     ChannelsTyped DEF Step

\* Only Begin and a lock being taken are steps at idle.
LEMMA StepStarted ==
    ASSUME NEW t \in Tx, Step(t) \/ Cancel(t), ~TakeLock(t)
    PROVE  pc[t] # "idle"
<1>1. CASE LockOrganization(t) \/ DeadlockAbort(t) \/ Cancel(t)
  BY <1>1 DEF LockOrganization, DeadlockAbort, Cancel
<1>2. CASE MembershipStep(t)
  BY <1>2 DEF MembershipStep, CreateOrganization, InsertOrganization, ChangeMemberRole,
              WriteMemberRole, SuspendMember, WriteSuspension, ReactivateMember,
              WriteReactivation, Decide, WriteMember, At
<1>3. CASE LeavingStep(t)
  BY <1>3 DEF LeavingStep, LeaveActor, LeaveChecks, LeaveTeams, LeaveAudit, LeaveChannels,
              LeaveCommit, At
<1>4. CASE TeamsStep(t)
  BY <1>4 DEF TeamsStep, CreateTeam, AddTeamMember, InsertTeamMember, WriteTeamMembership,
              ChangeTeamMemberRole, WriteTeamRole, RemoveTeamMember, WriteTeamRemoval, At
<1>5. CASE ChannelsStep(t)
  BY <1>5 DEF ChannelsStep, CreateChannel, WriteChannel, AddChannelMember,
              WriteChannelMember, At
<1> QED
  BY <1>1, <1>2, <1>3, <1>4, <1>5 DEF Step

\* Every step keeps operations and points of their course together.
LEMMA CourseStep ==
    ASSUME TypeOK, CourseOK, NEW t \in Tx, Begin(t) \/ Step(t) \/ Cancel(t)
    PROVE  CourseOK'
<1>1. SUFFICES ASSUME NEW u \in Tx
               PROVE  (/\ pc[u] \in {"leave_actor", "leave_orgs", "leave_next", "leave_audit"}
                              => call[u].op = "leave_service"
                       /\ pc[u] \in {"lock_actor", "lock_organization", "insert", "write"}
                              => call[u].op # "leave_service"
                       /\ pc[u] \in {"lock_organization", "write"}
                              => call[u].op # "create_organization"
                       /\ pc[u] # "idle" => call[u] \in Calls)'
  BY DEF CourseOK
<1>2. CASE u # t
  <2>1. Begin(t) \/ TakeLock(t) \/ Ends(t) \/ MovesOn(t)
    BY StepKinds
  <2>2. pc'[u] = pc[u] /\ call'[u] = call[u]
    BY <1>2, <2>1, OthersUnchanged
  <2> QED
    BY <2>2 DEF CourseOK
<1>3. CASE u = t /\ Begin(t)
  <2>1. PICK c \in Requests :
            /\ call' = [call EXCEPT ![t] = c]
            /\ IF c.op = "leave_service" THEN pc' = [pc EXCEPT ![t] = "leave_actor"]
               ELSE pc' = [pc EXCEPT ![t] = "lock_actor"]
    BY <1>3 DEF Begin
  <2> QED
    BY <1>3, <2>1, RequestsAssumption DEF TypeOK, ControlTypeOK
<1>4. CASE u = t /\ (Step(t) \/ Cancel(t))
  <2>1. CASE TakeLock(t)
    BY <1>4, <2>1 DEF TakeLock, CourseOK
  <2>2. CASE Ends(t)
    <3>1. pc[t] # "idle"
      <4>1. CASE TakeLock(t)
        BY <2>2, <4>1 DEF TakeLock, Ends, End, TypeOK, ControlTypeOK
      <4> QED
        BY <1>4, <4>1, StepStarted
    <3> QED
      BY <1>4, <2>2, <3>1 DEF Ends, End, CourseOK, TypeOK, ControlTypeOK
  <2>3. CASE MovesOn(t)
    BY <1>4, <2>3 DEF MovesOn, Advances, ToSlug, ToOrganization, ToOrganizations, ToLoop,
                      Loops, Moves, CourseOK, TypeOK, ControlTypeOK
  <2> QED
    BY <1>4, <2>1, <2>2, <2>3, StepKinds
<1> QED
  BY <1>2, <1>3, <1>4

\* Whoever takes a row waited for those who hold it in conflict.
LEMMA ExclusionStep ==
    ASSUME TypeOK, CourseOK, LocksExclude, NEW t \in Tx, Begin(t) \/ Step(t) \/ Cancel(t)
    PROVE  LocksExclude'
<1>1. Begin(t) \/ TakeLock(t) \/ Ends(t) \/ MovesOn(t)
  BY StepKinds
<1>2. CASE held' = held
  BY <1>2 DEF LocksExclude
<1>3. CASE Ends(t)
  <2>1. held' = [held EXCEPT ![t] = NoLocks]
    BY <1>3 DEF Ends, End
  <2>2. ASSUME NEW u \in Tx, NEW v \in Tx, NEW r \in Rows, u # v
        PROVE  ~Conflict(held'[u][r], held'[v][r])
    <3>1. /\ held'[u][r] = held[u][r] \/ held'[u][r] = 0
          /\ held'[v][r] = held[v][r] \/ held'[v][r] = 0
      BY <2>1 DEF NoLocks, TypeOK, LocksTypeOK
    <3>2. ~Conflict(held[u][r], held[v][r])
      BY <2>2 DEF LocksExclude
    <3>3. held[u][r] \in 0 .. Update /\ held[v][r] \in 0 .. Update
      BY DEF TypeOK, LocksTypeOK
    <3> QED
      BY <3>1, <3>2, <3>3 DEF Conflict, Update
  <2> QED
    BY <2>2 DEF LocksExclude
<1>4. CASE TakeLock(t)
  <2>1. PICK q \in todo[t].rows :
            /\ \A u \in Tx \ {t} : ~Conflict(held[u][q], todo[t].mode)
            /\ held' = [held EXCEPT ![t][q] = Strongest(@, todo[t].mode)]
    BY <1>4 DEF TakeLock, Acquire
  <2>2. /\ q \in Rows /\ todo[t].mode \in Modes
        /\ \A u \in Tx, r \in Rows : held[u][r] \in 0 .. Update
    BY DEF TypeOK, LocksTypeOK
  <2>3. Strongest(held[t][q], todo[t].mode) \in {held[t][q], todo[t].mode}
    BY DEF Strongest
  <2>4. ASSUME NEW u \in Tx, u # t, NEW r \in Rows
        PROVE  /\ held'[u][r] = held[u][r]
               /\ ~Conflict(held'[t][r], held'[u][r])
    <3>1. held'[u][r] = held[u][r]
      BY <2>1, <2>4 DEF TypeOK, LocksTypeOK
    <3>2. CASE r = q
      <4>1. held'[t][r] \in {held[t][q], todo[t].mode}
        BY <2>1, <2>2, <2>3, <3>2 DEF TypeOK, LocksTypeOK
      <4>2. ~Conflict(held[t][q], held[u][q]) /\ ~Conflict(held[u][q], todo[t].mode)
        BY <2>1, <2>2, <2>4 DEF LocksExclude
      <4> QED
        BY <3>1, <3>2, <4>1, <4>2, <2>2 DEF Conflict, Modes, KeyShare, Update
    <3>3. CASE r # q
      <4>1. held'[t][r] = held[t][r]
        BY <2>1, <3>3 DEF TypeOK, LocksTypeOK
      <4> QED
        BY <3>1, <4>1, <2>4 DEF LocksExclude
    <3> QED
      BY <3>1, <3>2, <3>3
  <2>5. ASSUME NEW u \in Tx, NEW v \in Tx, NEW r \in Rows, u # v
        PROVE  ~Conflict(held'[u][r], held'[v][r])
    <3>1. CASE u # t /\ v # t
      BY <2>4, <2>5, <3>1 DEF LocksExclude
    <3>2. CASE u = t
      BY <2>4, <2>5, <3>2
    <3>3. CASE v = t
      <4>1. ~Conflict(held'[t][r], held'[u][r])
        BY <2>4, <2>5, <3>3
      <4>2. TypeOK'
        BY <1>4, TakeLockTyped
      <4>3. held'[t][r] \in 0 .. Update /\ held'[u][r] \in 0 .. Update
        BY <4>2 DEF TypeOK, LocksTypeOK
      <4> QED
        BY <3>3, <4>1, <4>3 DEF Conflict, Update
    <3> QED
      BY <3>1, <3>2, <3>3
  <2> QED
    BY <2>5 DEF LocksExclude
<1> QED
  BY <1>1, <1>2, <1>3, <1>4
     DEF Begin, MovesOn, Advances, ToSlug, ToOrganization, ToOrganizations, ToLoop, Loops, Moves

(***************************************************************************)
(* Every variable of Tenancy stays in its domain, in every behaviour of    *)
(* any number of transactions, and no two transactions ever hold           *)
(* conflicting row locks.                                                  *)
(***************************************************************************)
THEOREM TypeCorrect == Spec => [](TypeOK /\ CourseOK /\ LocksExclude)
<1> DEFINE Inv == TypeOK /\ CourseOK /\ LocksExclude
<1>1. StoreInit => Inv
  <2> SUFFICES ASSUME StoreInit PROVE Inv
    OBVIOUS
  <2>1. TypeOK
    BY InitTyped
  <2>2. CourseOK
    BY DEF StoreInit, CourseOK
  <2>3. LocksExclude
    BY DEF StoreInit, LocksExclude, NoLocks, Conflict
  <2> QED
    BY <2>1, <2>2, <2>3
<1>2. Inv /\ [Next]_vars => Inv'
  <2> SUFFICES ASSUME Inv, [Next]_vars PROVE Inv'
    OBVIOUS
  <2>1. CASE UNCHANGED vars
    <3>1. TypeOK'
      BY <2>1 DEF vars, tables, locks, TypeOK, LocksTypeOK, TablesTypeOK, ControlTypeOK
    <3>2. CourseOK'
      BY <2>1 DEF vars, CourseOK
    <3>3. LocksExclude'
      BY <2>1 DEF vars, locks, LocksExclude
    <3> QED
      BY <3>1, <3>2, <3>3
  <2>2. CASE Next
    BY <2>2, TypeStep, CourseStep, ExclusionStep DEF Next
  <2> QED
    BY <2>1, <2>2
<1> QED
  BY <1>1, <1>2, PTL DEF Spec
----------------------------------------------------------------------------
(* The kinds of step, whatever a transaction runs.                         *)

\* Control and locks of the other transactions stay.
Only(t) ==
    \A u \in Tx \ {t} :
        /\ pc'[u] = pc[u] /\ call'[u] = call[u] /\ loc'[u] = loc[u]
        /\ result'[u] = result[u] /\ held'[u] = held[u] /\ todo'[u] = todo[u]

\* t ends, with some result.
Over(t) == \E r : End(t, r)

\* The next statement of t starts.
Proceeds(t) ==
    /\ pc[t] # "done" /\ UNCHANGED <<tables, blind, held, call, result>>
    /\ DOMAIN pc' = Tx /\ DOMAIN todo' = Tx /\ DOMAIN loc' = Tx
    /\ \A u \in Tx \ {t} : pc'[u] = pc[u] /\ todo'[u] = todo[u] /\ loc'[u] = loc[u]
    /\ todo'[t].mode \in Modes

Kinds(t) == TakeLock(t) \/ Over(t) \/ Proceeds(t)

\* What Start says of a step.
LEMMA StartProceeds ==
    ASSUME Shaped, NEW t \in Tx, NEW p, NEW m \in Modes, NEW rows, Start(t, p, m, rows),
           pc[t] # "done", DOMAIN loc' = Tx, \A u \in Tx \ {t} : loc'[u] = loc[u]
    PROVE  Proceeds(t)
<1>1. todo' = [todo EXCEPT ![t] = Statement(m, rows)] /\ pc' = [pc EXCEPT ![t] = p]
    BY DEF Start
<1>2. DOMAIN pc = Tx /\ DOMAIN todo = Tx
    BY DEF Shaped
<1>3. todo'[t] = Statement(m, rows)
    BY <1>1, <1>2
<1>4. todo'[t].mode \in Modes
    BY <1>3 DEF Statement
<1>5. \A u \in Tx \ {t} : pc'[u] = pc[u] /\ todo'[u] = todo[u]
    BY <1>1, <1>2
<1>6. DOMAIN pc' = Tx /\ DOMAIN todo' = Tx
    BY <1>1, <1>2
<1>7. UNCHANGED <<tables, blind, held, call, result>>
    BY DEF Start
<1> QED
    BY <1>4, <1>5, <1>6, <1>7 DEF Proceeds

\* Local variables of t alone are assigned.
LEMMA LocalsAlone ==
    ASSUME Shaped, NEW t \in Tx, NEW l, loc' = [loc EXCEPT ![t] = l] \/ UNCHANGED loc
    PROVE  DOMAIN loc' = Tx /\ \A u \in Tx \ {t} : loc'[u] = loc[u]
BY DEF Shaped

\* A decision on a membership ends the transaction or proceeds.
LEMMA DecideKinds ==
    ASSUME Shaped, NEW t \in Tx, NEW refusal, NEW unchanged, NEW from,
           Decide(t, refusal, unchanged, from), pc[t] # "done"
    PROVE  Kinds(t)
<1>1. CASE Rollback(t, refusal)
    BY <1>1 DEF Rollback, Over, Kinds
<1>2. CASE End(t, "Ok")
    BY <1>2 DEF Over, Kinds
<1>3. CASE loc' = [loc EXCEPT ![t].from = from] /\ Start(t, "write", Update, {})
    <2>1. DOMAIN loc' = Tx /\ \A u \in Tx \ {t} : loc'[u] = loc[u]
        BY <1>3 DEF Shaped
    <2> QED
        BY <1>3, <2>1, StartProceeds, ModeFacts DEF Kinds
<1> QED
    BY <1>1, <1>2, <1>3 DEF Decide

\* Writing a membership or a team row ends the transaction.
LEMMA WritesEnd ==
    ASSUME NEW t \in Tx, NEW role, NEW status, NEW event,
           WriteMember(t, role, status, event) \/ WriteTeamMember(t, role, event)
    PROVE  Over(t)
BY DEF WriteMember, WriteTeamMember, Rollback, Commit, Over

\* The steps of identity.rs and membership.rs.
LEMMA MembershipShape ==
    ASSUME Shaped, NEW t \in Tx, MembershipStep(t)
    PROVE  Kinds(t)
<1>1. CASE CreateOrganization(t)
    <2>1. CASE Rollback(t, CreateOrganizationRefusal(t))
        BY <2>1 DEF Rollback, Over, Kinds
    <2>2. CASE Start(t, "insert", Update, {SlugKey(call[t].name)}) /\ UNCHANGED loc
        BY <1>1, <2>2, StartProceeds, ModeFacts DEF Kinds, CreateOrganization, At, Shaped
    <2> QED
        BY <1>1, <2>1, <2>2 DEF CreateOrganization
<1>2. CASE InsertOrganization(t)
    BY <1>2 DEF InsertOrganization, Rollback, Commit, Over, Kinds
<1>3. CASE ChangeMemberRole(t)
    BY <1>3, DecideKinds DEF ChangeMemberRole, At
<1>4. CASE SuspendMember(t)
    BY <1>4, DecideKinds DEF SuspendMember, At
<1>5. CASE ReactivateMember(t)
    BY <1>5, DecideKinds DEF ReactivateMember, At
<1>6. CASE WriteMemberRole(t)
    BY <1>6, WritesEnd DEF WriteMemberRole, Kinds
<1>7. CASE WriteSuspension(t)
    BY <1>7, WritesEnd DEF WriteSuspension, Kinds
<1>8. CASE WriteReactivation(t)
    BY <1>8, WritesEnd DEF WriteReactivation, Kinds
<1> QED
    BY <1>1, <1>2, <1>3, <1>4, <1>5, <1>6, <1>7, <1>8 DEF MembershipStep

\* The steps of teams.rs.
LEMMA TeamsShape ==
    ASSUME Shaped, NEW t \in Tx, TeamsStep(t)
    PROVE  Kinds(t)
<1>1. CASE CreateTeam(t)
    BY <1>1 DEF CreateTeam, Rollback, Commit, Over, Kinds
<1>2. CASE AddTeamMember(t)
    <2>1. CASE Rollback(t, AddTeamMemberRefusal(t))
        BY <2>1 DEF Rollback, Over, Kinds
    <2>2. CASE /\ Start(t, "insert", Update, {TeamMemberRow(call[t].team, call[t].who)})
               /\ UNCHANGED loc
        BY <1>2, <2>2, StartProceeds, ModeFacts DEF Kinds, AddTeamMember, At, Shaped
    <2> QED
        BY <1>2, <2>1, <2>2 DEF AddTeamMember
<1>3. CASE InsertTeamMember(t)
    <2>1. CASE Rollback(t, "AlreadyMember")
        BY <2>1 DEF Rollback, Over, Kinds
    <2>2. CASE Start(t, "write", KeyShare, {ActorRow(call[t].who)}) /\ UNCHANGED loc
        BY <1>3, <2>2, StartProceeds, ModeFacts DEF Kinds, InsertTeamMember, At, Shaped
    <2> QED
        BY <1>3, <2>1, <2>2 DEF InsertTeamMember
<1>4. CASE WriteTeamMembership(t)
    BY <1>4, WritesEnd DEF WriteTeamMembership, Kinds
<1>5. CASE ChangeTeamMemberRole(t)
    <2>1. CASE Rollback(t, "NotFound") \/ End(t, "Ok")
        BY <2>1 DEF Rollback, Over, Kinds
    <2>2. CASE /\ loc' = [loc EXCEPT ![t].from = Listing(t)]
               /\ Start(t, "write", NoKeyUpdate, {TeamMemberRow(call[t].team, call[t].who)})
        <3>1. DOMAIN loc' = Tx /\ \A u \in Tx \ {t} : loc'[u] = loc[u]
            BY <2>2 DEF Shaped
        <3> QED
            BY <1>5, <2>2, <3>1, StartProceeds, ModeFacts DEF Kinds, ChangeTeamMemberRole, At
    <2> QED
        BY <1>5, <2>1, <2>2 DEF ChangeTeamMemberRole
<1>6. CASE WriteTeamRole(t)
    BY <1>6, WritesEnd DEF WriteTeamRole, Kinds
<1>7. CASE RemoveTeamMember(t)
    <2>1. CASE Rollback(t, "NotFound")
        BY <2>1 DEF Rollback, Over, Kinds
    <2>2. CASE /\ Start(t, "write", Update, {TeamMemberRow(call[t].team, call[t].who)})
               /\ UNCHANGED loc
        BY <1>7, <2>2, StartProceeds, ModeFacts DEF Kinds, RemoveTeamMember, At, Shaped
    <2> QED
        BY <1>7, <2>1, <2>2 DEF RemoveTeamMember
<1>8. CASE WriteTeamRemoval(t)
    BY <1>8, WritesEnd DEF WriteTeamRemoval, Rollback, Over, Kinds
<1> QED
    BY <1>1, <1>2, <1>3, <1>4, <1>5, <1>6, <1>7, <1>8 DEF TeamsStep

\* The steps of channels.rs.
LEMMA ChannelsShape ==
    ASSUME Shaped, NEW t \in Tx, ChannelsStep(t)
    PROVE  Kinds(t)
<1>1. CASE CreateChannel(t)
    <2>1. CASE Rollback(t, CreateChannelRefusal(call[t]))
        BY <2>1 DEF Rollback, Over, Kinds
    <2>2. CASE Start(t, "write", Update, {}) /\ UNCHANGED loc
        BY <1>1, <2>2, StartProceeds, ModeFacts DEF Kinds, CreateChannel, At, Shaped
    <2> QED
        BY <1>1, <2>1, <2>2 DEF CreateChannel
<1>2. CASE WriteChannel(t)
    BY <1>2 DEF WriteChannel, Rollback, Commit, Over, Kinds
<1>3. CASE AddChannelMember(t)
    <2>1. CASE Rollback(t, AddChannelMemberRefusal(t))
        BY <2>1 DEF Rollback, Over, Kinds
    <2>2. CASE Start(t, "write", Update, {}) /\ UNCHANGED loc
        BY <1>3, <2>2, StartProceeds, ModeFacts DEF Kinds, AddChannelMember, At, Shaped
    <2> QED
        BY <1>3, <2>1, <2>2 DEF AddChannelMember
<1>4. CASE WriteChannelMember(t)
    BY <1>4 DEF WriteChannelMember, Rollback, Commit, Over, Kinds
<1> QED
    BY <1>1, <1>2, <1>3, <1>4 DEF ChannelsStep

\* The steps of leaving.rs.
LEMMA LeavingShape ==
    ASSUME Shaped, NEW t \in Tx, LeavingStep(t)
    PROVE  Kinds(t)
<1>1. ASSUME pc[t] # "done", NEW p, NEW m \in Modes, NEW rows, Start(t, p, m, rows),
             NEW l, loc' = [loc EXCEPT ![t] = l]
      PROVE  Kinds(t)
    BY <1>1, LocalsAlone, StartProceeds DEF Kinds
<1>2. CASE LeaveActor(t)
    <2>1. CASE Rollback(t, "NotFound")
        BY <2>1 DEF Rollback, Over, Kinds
    <2>2. CASE \E S, rows : /\ loc' = [loc EXCEPT ![t].orgs = S]
                            /\ Start(t, "leave_orgs", Update, rows)
        <3>1. PICK S, rows : /\ loc' = [loc EXCEPT ![t] = [loc[t] EXCEPT !.orgs = S]]
                             /\ Start(t, "leave_orgs", Update, rows)
            BY <2>2
        <3> QED
            BY <1>1, <1>2, <3>1, ModeFacts DEF LeaveActor, At
    <2> QED
        BY <1>2, <2>1, <2>2 DEF LeaveActor
<1>3. CASE LeaveChecks(t)
    <2>1. CASE Rollback(t, "LastOwner")
        BY <2>1 DEF Rollback, Over, Kinds
    <2>2. CASE \E R, C, L : /\ loc' = [loc EXCEPT ![t].memberships = R, ![t].rest = R,
                                                  ![t].current = C, ![t].listed = L]
                            /\ Start(t, "leave_next", Update, {})
        <3>1. PICK R, C, L : /\ loc' = [loc EXCEPT ![t].memberships = R, ![t].rest = R,
                                                   ![t].current = C, ![t].listed = L]
                             /\ Start(t, "leave_next", Update, {})
            BY <2>2
        <3>2. DOMAIN loc' = Tx /\ \A u \in Tx \ {t} : loc'[u] = loc[u]
            BY <3>1 DEF Shaped
        <3> QED
            BY <1>3, <3>1, <3>2, StartProceeds, ModeFacts DEF Kinds, LeaveChecks, At
    <2> QED
        BY <1>3, <2>1, <2>2 DEF LeaveChecks
<1>4. CASE LeaveTeams(t)
    <2>1. PICK R, rows : /\ loc' = [loc EXCEPT ![t].removing = R]
                         /\ Start(t, "leave_audit", Update, rows)
        BY <1>4 DEF LeaveTeams
    <2>2. DOMAIN loc' = Tx /\ \A u \in Tx \ {t} : loc'[u] = loc[u]
        BY <2>1 DEF Shaped
    <2> QED
        BY <1>4, <2>1, <2>2, StartProceeds, ModeFacts DEF Kinds, LeaveTeams, At
<1>5. CASE LeaveAudit(t)
    <2>1. CASE Rollback(t, "Database")
        BY <2>1 DEF Rollback, Over, Kinds
    <2>2. CASE \E S, R, rows :
                  /\ loc' = [loc EXCEPT ![t].rest = S, ![t].removing = {}, ![t].removed = R]
                  /\ Start(t, "leave_next", KeyShare, rows)
        <3>1. PICK S, R, rows :
                  /\ loc' = [loc EXCEPT ![t].rest = S, ![t].removing = {}, ![t].removed = R]
                  /\ Start(t, "leave_next", KeyShare, rows)
            BY <2>2
        <3>2. DOMAIN loc' = Tx /\ \A u \in Tx \ {t} : loc'[u] = loc[u]
            BY <3>1 DEF Shaped
        <3> QED
            BY <1>5, <3>1, <3>2, StartProceeds, ModeFacts DEF Kinds, LeaveAudit, At
    <2> QED
        BY <1>5, <2>1, <2>2 DEF LeaveAudit
<1>6. CASE LeaveChannels(t)
    <2>1. CASE Rollback(t, "Database")
        BY <2>1 DEF Rollback, Over, Kinds
    <2>2. CASE \E S, U, rows :
                  /\ loc' = [loc EXCEPT ![t].listed = S, ![t].unlisted = U]
                  /\ Start(t, "leave_next", KeyShare, rows)
        <3>1. PICK S, U, rows :
                  /\ loc' = [loc EXCEPT ![t].listed = S, ![t].unlisted = U]
                  /\ Start(t, "leave_next", KeyShare, rows)
            BY <2>2
        <3>2. DOMAIN loc' = Tx /\ \A u \in Tx \ {t} : loc'[u] = loc[u]
            BY <3>1 DEF Shaped
        <3> QED
            BY <1>6, <3>1, <3>2, StartProceeds, ModeFacts DEF Kinds, LeaveChannels, At
    <2> QED
        BY <1>6, <2>1, <2>2 DEF LeaveChannels
<1>7. CASE LeaveCommit(t)
    BY <1>7 DEF LeaveCommit, Commit, Over, Kinds
<1> QED
    BY <1>2, <1>3, <1>4, <1>5, <1>6, <1>7 DEF LeavingStep

\* Every step of a tenant operation takes a lock, ends its transaction or proceeds.
LEMMA TenantKinds ==
    ASSUME Shaped, NEW t \in Tx, Step(t) \/ Cancel(t)
    PROVE  Kinds(t)
<1>1. CASE DeadlockAbort(t) \/ Cancel(t)
    BY <1>1 DEF DeadlockAbort, Cancel, Rollback, Over, Kinds
<1>2. CASE LockOrganization(t)
    <2>1. CASE Rollback(t, "NotFound")
        BY <2>1 DEF Rollback, Over, Kinds
    <2>2. CASE /\ loc' = [loc EXCEPT ![t].departed = DepartedNow(t)]
               /\ Start(t, "lock_organization", Update, {OrgRow(call[t].org)})
        <3>1. DOMAIN loc' = Tx /\ \A u \in Tx \ {t} : loc'[u] = loc[u]
            BY <2>2 DEF Shaped
        <3> QED
            BY <1>2, <2>2, <3>1, StartProceeds, ModeFacts DEF Kinds, LockOrganization
    <2> QED
        BY <1>2, <2>1, <2>2 DEF LockOrganization
<1>3. CASE TakeLock(t)
    BY <1>3 DEF Kinds
<1> QED
    BY <1>1, <1>2, <1>3, MembershipShape, TeamsShape, ChannelsShape, LeavingShape DEF Step

\* What a step may do to the locks: nothing, give t's up, or take one for t.
LockStep(t) ==
    held' = held \/ held' = [held EXCEPT ![t] = NoLocks] \/ Acquire(t)

\* t drops its transaction and begins another, with nothing held.
Drops(t) ==
    /\ \E p : pc' = [pc EXCEPT ![t] = p]
    /\ held' = [held EXCEPT ![t] = NoLocks] /\ todo' = [todo EXCEPT ![t] = NoStatement]
    /\ loc' = [loc EXCEPT ![t] = NoLocals]
    /\ UNCHANGED <<call, result>>

\* t is given its call, or a handler begins the operation.
Called(t) ==
    /\ \E c, p : call' = [call EXCEPT ![t] = c] /\ pc' = [pc EXCEPT ![t] = p]
    /\ UNCHANGED result \/ \E r : result' = [result EXCEPT ![t] = r]
    /\ UNCHANGED <<held, todo, loc>>

\* A step of t leaves the others alone and keeps every transaction's shape.
LEMMA StepFrame ==
    ASSUME Shaped, NEW t \in Tx,
           Kinds(t) \/ Drops(t) \/ Begin(t) \/ Called(t)
    PROVE  Only(t) /\ Shaped' /\ LockStep(t)
<1>0. /\ DOMAIN pc = Tx /\ DOMAIN call = Tx /\ DOMAIN loc = Tx /\ DOMAIN result = Tx
      /\ DOMAIN todo = Tx /\ held \in [Tx -> [Rows -> 0 .. Update]]
      /\ \A u \in Tx : todo[u].mode \in Modes
    BY DEF Shaped
<1>1. NoLocks \in [Rows -> 0 .. Update] /\ NoStatement.mode \in Modes
    BY ModeFacts DEF NoLocks, NoStatement, Update
<1>2. CASE TakeLock(t)
    <2>1. PICK r \in todo[t].rows :
              /\ held' = [held EXCEPT ![t][r] = Strongest(@, todo[t].mode)]
              /\ todo' = [todo EXCEPT ![t] = Statement(@.mode, @.rows \ {r})]
        BY <1>2 DEF TakeLock, Acquire
    <2>2. held' \in [Tx -> [Rows -> 0 .. Update]]
        <3>1. CASE r \in Rows
            <4>1. Strongest(held[t][r], todo[t].mode) \in 0 .. Update
                BY <1>0, <3>1, StrongestFacts
            <4> QED
                BY <1>0, <2>1, <4>1
        <3>2. CASE r \notin Rows
            BY <1>0, <2>1, <3>2
        <3> QED
            BY <3>1, <3>2
    <2>3. todo'[t] = Statement(todo[t].mode, todo[t].rows \ {r})
        BY <1>0, <2>1
    <2>4. todo'[t].mode \in Modes
        BY <1>0, <2>3 DEF Statement
    <2>5. DOMAIN todo' = Tx /\ \A u \in Tx \ {t} : todo'[u] = todo[u] /\ held'[u] = held[u]
        BY <1>0, <2>1
    <2>6. UNCHANGED <<pc, call, loc, result>>
        BY <1>2 DEF TakeLock
    <2> QED
        BY <1>0, <1>2, <2>2, <2>4, <2>5, <2>6 DEF Only, Shaped, LockStep, TakeLock
<1>3. ASSUME held' = [held EXCEPT ![t] = NoLocks], todo' = [todo EXCEPT ![t] = NoStatement]
      PROVE  /\ held' \in [Tx -> [Rows -> 0 .. Update]] /\ DOMAIN todo' = Tx
             /\ \A u \in Tx : todo'[u].mode \in Modes
             /\ \A u \in Tx \ {t} : todo'[u] = todo[u] /\ held'[u] = held[u]
    BY <1>0, <1>1, <1>3
<1>4. CASE Over(t)
    <2>1. PICK r : End(t, r)
        BY <1>4 DEF Over
    <2> QED
        BY <1>0, <1>3, <2>1 DEF End, Only, Shaped, LockStep
<1>5. CASE Drops(t)
    BY <1>0, <1>3, <1>5 DEF Drops, Only, Shaped, LockStep
<1>6. CASE Proceeds(t)
    BY <1>0, <1>6 DEF Proceeds, Only, Shaped, LockStep
<1>7. CASE Begin(t)
    <2>1. \E c, m, rows, p :
              /\ m \in Modes
              /\ call' = [call EXCEPT ![t] = c] /\ pc' = [pc EXCEPT ![t] = p]
              /\ todo' = [todo EXCEPT ![t] = Statement(m, rows)]
              /\ UNCHANGED <<held, result>>
        <3>1. PICK c \in Requests :
                  /\ call' = [call EXCEPT ![t] = c] /\ UNCHANGED <<held, result>>
                  /\ \/ /\ todo' = [todo EXCEPT ![t] = Statement(Update,
                                {ActorRow(a) : a \in {b \in {c.by} : SeesActor(b, b)}})]
                        /\ pc' = [pc EXCEPT ![t] = "leave_actor"]
                     \/ /\ todo' = [todo EXCEPT ![t] = Statement(Share,
                                {ActorRow(a) : a \in LockActorRows(c)})]
                        /\ pc' = [pc EXCEPT ![t] = "lock_actor"]
            BY <1>7 DEF Begin
        <3> DEFINE own == {ActorRow(a) : a \in {b \in {c.by} : SeesActor(b, b)}}
                   seen == {ActorRow(a) : a \in LockActorRows(c)}
        <3> HIDE DEF own, seen
        <3>2. \/ /\ todo' = [todo EXCEPT ![t] = Statement(Update, own)]
                 /\ pc' = [pc EXCEPT ![t] = "leave_actor"]
              \/ /\ todo' = [todo EXCEPT ![t] = Statement(Share, seen)]
                 /\ pc' = [pc EXCEPT ![t] = "lock_actor"]
            BY <3>1 DEF own, seen
        <3> QED
            BY <3>1, <3>2, ModeFacts
    <2>2. PICK c, m, rows, p :
              /\ m \in Modes
              /\ call' = [call EXCEPT ![t] = c] /\ pc' = [pc EXCEPT ![t] = p]
              /\ todo' = [todo EXCEPT ![t] = Statement(m, rows)]
              /\ UNCHANGED <<held, result>>
        BY <2>1
    <2>3. DOMAIN loc' = Tx /\ \A u \in Tx \ {t} : loc'[u] = loc[u]
        BY <1>0, <1>7 DEF Begin
    <2>4. todo'[t] = Statement(m, rows) /\ DOMAIN todo' = Tx
        BY <1>0, <2>2
    <2>5. todo'[t].mode \in Modes
        BY <2>2, <2>4 DEF Statement
    <2>6. \A u \in Tx \ {t} : todo'[u] = todo[u] /\ pc'[u] = pc[u] /\ call'[u] = call[u]
        BY <1>0, <2>2
    <2> QED
        BY <1>0, <2>2, <2>3, <2>4, <2>5, <2>6 DEF Only, Shaped, LockStep
<1>8. CASE Called(t)
    BY <1>0, <1>8 DEF Called, Only, Shaped, LockStep
<1> QED
    BY <1>2, <1>4, <1>5, <1>6, <1>7, <1>8 DEF Kinds

\* Whoever takes a row waited for those who hold it in conflict.
LEMMA LocksExcludeStep ==
    ASSUME Shaped, Shaped', LocksExclude, NEW t \in Tx, Only(t), LockStep(t)
    PROVE  LocksExclude'
<1> SUFFICES ASSUME NEW u \in Tx, NEW v \in Tx, NEW r \in Rows, u # v
             PROVE  ~Conflict(held'[u][r], held'[v][r])
    BY DEF LocksExclude
<1>1. /\ \A w \in Tx : held[w][r] \in 0 .. Update /\ held'[w][r] \in 0 .. Update
      /\ \A w \in Tx \ {t} : held'[w][r] = held[w][r]
      /\ \A w, x \in Tx : w # x => ~Conflict(held[w][r], held[x][r])
    BY DEF Shaped, Only, LocksExclude
<1>2. CASE held'[t][r] = held[t][r] \/ held'[t][r] = 0
    BY <1>1, <1>2 DEF Conflict, Update
<1>3. CASE /\ held'[t][r] = todo[t].mode
           /\ \A w \in Tx \ {t} : ~Conflict(held[w][r], todo[t].mode)
    BY <1>1, <1>3 DEF Conflict, Update
<1>4. CASE Acquire(t)
    <2>1. PICK q \in todo[t].rows :
              /\ \A w \in Tx \ {t} : ~Conflict(held[w][q], todo[t].mode)
              /\ held' = [held EXCEPT ![t][q] = Strongest(@, todo[t].mode)]
        BY <1>4 DEF Acquire
    <2>2. r # q => held'[t][r] = held[t][r]
        BY <2>1 DEF Shaped
    <2>3. r = q => held'[t][r] \in {held[t][r], todo[t].mode}
        BY <2>1 DEF Shaped, Strongest
    <2> QED
        BY <1>2, <1>3, <2>1, <2>2, <2>3
<1>5. held' = [held EXCEPT ![t] = NoLocks] => held'[t][r] = 0
    BY DEF Shaped, NoLocks
<1> QED
    BY <1>2, <1>4, <1>5 DEF LockStep

\* Taking a lock gives up nothing, and what is claimed stays so.
LEMMA ClaimsGrow ==
    ASSUME Shaped, NEW t \in Tx, TakeLock(t), NEW r \in Rows, NEW m \in Modes
    PROVE  /\ held[t][r] >= m => held'[t][r] >= m
           /\ Claims(t, r, m) => Claims(t, r, m)'
<1>1. PICK q \in todo[t].rows :
          /\ held' = [held EXCEPT ![t][q] = Strongest(@, todo[t].mode)]
          /\ todo' = [todo EXCEPT ![t] = Statement(@.mode, @.rows \ {q})]
    BY DEF TakeLock, Acquire
<1>2. todo[t].mode \in Modes /\ held[t][r] \in 0 .. Update
    BY DEF Shaped
<1>3. /\ r = q => held'[t][r] = Strongest(held[t][r], todo[t].mode)
      /\ r # q => held'[t][r] = held[t][r]
    BY <1>1 DEF Shaped
<1>4. todo'[t] = Statement(todo[t].mode, todo[t].rows \ {q})
    BY <1>1 DEF Shaped
<1>5. todo'[t].mode = todo[t].mode /\ todo'[t].rows = todo[t].rows \ {q}
    BY <1>4 DEF Statement
<1>6. held'[t][r] >= held[t][r] /\ (r = q => held'[t][r] >= todo[t].mode) /\ held'[t][r] \in Nat
    BY <1>2, <1>3 DEF Strongest, Modes, KeyShare, Update
<1>7. held[t][r] >= m => held'[t][r] >= m
    BY <1>2, <1>6 DEF Modes, KeyShare, Update
<1> QED
    BY <1>5, <1>6, <1>7 DEF Claims

\* Start names the rows that the statement claims.
LEMMA StartClaims ==
    ASSUME Shaped, NEW t \in Tx, NEW p, NEW m \in Modes, NEW r, Start(t, p, m, {r})
    PROVE  /\ Claims(t, r, m)' /\ pc'[t] = p /\ call'[t] = call[t] /\ held'[t] = held[t]
<1>1. todo'[t] = Statement(m, {r}) /\ pc'[t] = p /\ UNCHANGED <<call, held>>
    BY DEF Start, Shaped
<1>2. todo'[t].mode = m /\ todo'[t].rows = {r}
    BY <1>1 DEF Statement
<1> QED
    BY <1>1, <1>2 DEF Claims

\* A statement that has returned has what it claimed.
LEMMA ClaimReturned ==
    ASSUME NEW t, NEW r, NEW m, Claims(t, r, m), Returned(t)
    PROVE  held[t][r] >= m
BY DEF Claims, Returned

\* Two transactions never hold a row for an update both.
LEMMA OneWriter ==
    ASSUME Shaped, LocksExclude, NEW t \in Tx, NEW u \in Tx, t # u, NEW r \in Rows,
           held[t][r] >= NoKeyUpdate, held[u][r] >= NoKeyUpdate
    PROVE  FALSE
<1>1. held[t][r] \in 0 .. Update /\ held[u][r] \in 0 .. Update
    BY DEF Shaped
<1>2. ~Conflict(held[t][r], held[u][r])
    BY DEF LocksExclude
<1> QED
    BY <1>1, <1>2 DEF Conflict, NoKeyUpdate, Update

TenantOperations ==
    {"create_organization", "change_member_role", "suspend_member", "reactivate_member",
     "leave_service", "create_team", "add_team_member", "change_team_member_role",
     "remove_team_member", "create_channel", "add_channel_member"}

\* The tenant calls run these operations.
LEMMA TenantCalls ==
    ASSUME NEW c \in Calls
    PROVE  c.op \in TenantOperations
<1> USE DEF NoCall, TenantOperations
<1>1. CASE \E by \in Actors, o \in Orgs, n \in Names : c = create_organization(by, o, n)
    BY <1>1 DEF create_organization
<1>2. CASE \E by \in Actors, o \in Orgs, a \in Actors, role \in OrganizationRoles :
               c = change_member_role(by, o, a, role)
    BY <1>2 DEF change_member_role
<1>3. CASE \E by \in Actors, o \in Orgs, a \in Actors :
               c = suspend_member(by, o, a) \/ c = reactivate_member(by, o, a)
    BY <1>3 DEF suspend_member, reactivate_member
<1>4. CASE \E a \in Actors : c = leave_service(a)
    BY <1>4 DEF leave_service
<1>5. CASE \E by \in Actors, o \in Orgs, tm \in Teams : c = create_team(by, o, tm)
    BY <1>5 DEF create_team
<1>6. CASE \E by \in Actors, o \in Orgs, tm \in Teams, a \in Actors, role \in TeamRoles :
               \/ c = add_team_member(by, o, tm, a, role)
               \/ c = change_team_member_role(by, o, tm, a, role)
    BY <1>6 DEF add_team_member, change_team_member_role
<1>7. CASE \E by \in Actors, o \in Orgs, tm \in Teams, a \in Actors :
               c = remove_team_member(by, o, tm, a)
    BY <1>7 DEF remove_team_member
<1>8. CASE \E by \in Actors, o \in Orgs, ch \in Channels, tm \in Teams \cup {0}, n \in Names :
               c = create_channel(by, o, ch, tm, n)
    BY <1>8 DEF create_channel
<1>9. CASE \E by \in Actors, o \in Orgs, ch \in Channels, a \in Actors :
               c = add_channel_member(by, o, ch, a)
    BY <1>9 DEF add_channel_member
<1> QED
    BY <1>1, <1>2, <1>3, <1>4, <1>5, <1>6, <1>7, <1>8, <1>9 DEF Calls

\* Another operation meets of the tenant's steps only a lock, a circle and a lost connection.
LEMMA TenantMeets ==
    ASSUME NEW t \in Tx, Step(t) \/ Cancel(t), call[t].op \notin TenantOperations, pc[t] # "lock_actor"
    PROVE  TakeLock(t) \/ DeadlockAbort(t) \/ Cancel(t)
<1>1. ~MembershipStep(t)
    BY DEF TenantOperations, MembershipStep, CreateOrganization, InsertOrganization,
           ChangeMemberRole, WriteMemberRole, SuspendMember, WriteSuspension,
           ReactivateMember, WriteReactivation, At
<1>2. ~LeavingStep(t)
    BY DEF TenantOperations, LeavingStep, LeaveActor, LeaveChecks, LeaveTeams, LeaveAudit,
           LeaveChannels, LeaveCommit, At
<1>3. ~TeamsStep(t)
    BY DEF TenantOperations, TeamsStep, CreateTeam, AddTeamMember, InsertTeamMember,
           WriteTeamMembership, ChangeTeamMemberRole, WriteTeamRole, RemoveTeamMember,
           WriteTeamRemoval, At
<1>4. ~ChannelsStep(t)
    BY DEF TenantOperations, ChannelsStep, CreateChannel, WriteChannel, AddChannelMember,
           WriteChannelMember, At
<1>5. ~LockOrganization(t)
    BY DEF LockOrganization
<1> QED
    BY <1>1, <1>2, <1>3, <1>4, <1>5 DEF Step
===============================================================================
