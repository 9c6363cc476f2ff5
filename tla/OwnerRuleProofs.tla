--------------------------- MODULE OwnerRuleProofs ----------------------------
(***************************************************************************)
(* Machine-checked proof of the owner rule: OwnerInvariant is inductive,   *)
(* for any number of concurrent transactions, actors and organizations.    *)
(***************************************************************************)
EXTENDS TenancyProofs

----------------------------------------------------------------------------
(* What the parts of the invariant that speak of locks rest on.            *)

\* Taking a lock gives up nothing.
LEMMA HeldGrows ==
    ASSUME TypeOK, NEW t \in Tx, TakeLock(t), NEW r \in Rows, NEW m \in Modes
    PROVE  /\ held[t][r] >= m => held'[t][r] >= m
           /\ Claims(t, r, m) => Claims(t, r, m)'
<1>1. PICK q \in todo[t].rows :
          /\ held' = [held EXCEPT ![t][q] = Strongest(@, todo[t].mode)]
          /\ todo' = [todo EXCEPT ![t] = Statement(@.mode, @.rows \ {q})]
  BY DEF TakeLock, Acquire
<1>2. /\ q \in Rows /\ todo[t].mode \in Modes
      /\ held[t][q] \in 0 .. Update /\ held[t][r] \in 0 .. Update
  BY DEF TypeOK, LocksTypeOK
<1>3. /\ held'[t][q] = Strongest(held[t][q], todo[t].mode)
      /\ r # q => held'[t][r] = held[t][r]
  BY <1>1, <1>2 DEF TypeOK, LocksTypeOK
<1>4. held'[t][q] >= held[t][q] /\ held'[t][q] >= todo[t].mode /\ held'[t][q] \in Nat
  BY <1>2, <1>3 DEF Strongest, Modes, KeyShare, Update
<1>5. todo'[t].mode = todo[t].mode /\ todo'[t].rows = todo[t].rows \ {q}
  BY <1>1 DEF TypeOK, LocksTypeOK, Statement
<1>6. held[t][r] >= m => held'[t][r] >= m
  BY <1>2, <1>3, <1>4 DEF Modes, KeyShare, Update
<1>7. CASE r \in todo[t].rows /\ todo[t].mode = m /\ r # q
  BY <1>5, <1>6, <1>7 DEF Claims
<1>8. CASE r \in todo[t].rows /\ todo[t].mode = m /\ r = q
  BY <1>4, <1>6, <1>8 DEF Claims
<1> QED
  BY <1>6, <1>7, <1>8 DEF Claims

\* A statement that has returned holds what it claimed.
LEMMA ReturnedHolds ==
    ASSUME NEW t, NEW r, NEW m, Claims(t, r, m), Returned(t)
    PROVE  held[t][r] >= m
BY DEF Claims, Returned

\* Two transactions cannot both hold a row, one of them for an update.
LEMMA OneUpdater ==
    ASSUME TypeOK, LocksExclude, NEW t \in Tx, NEW u \in Tx, t # u, NEW r \in Rows,
           held[t][r] >= Update, held[u][r] >= KeyShare
    PROVE  FALSE
<1>1. held[t][r] \in 0 .. Update /\ held[u][r] \in 0 .. Update
  BY DEF TypeOK, LocksTypeOK
<1>2. ~Conflict(held[t][r], held[u][r])
  BY DEF LocksExclude
<1> QED
  BY <1>1, <1>2 DEF Conflict, Update, KeyShare

\* The actors and organizations a transaction in progress is about.
LEMMA CallRows ==
    ASSUME CourseOK, NEW t \in Tx, pc[t] # "idle"
    PROVE  /\ call[t] \in Calls
           /\ call[t].by \in Actors /\ ActorRow(call[t].by) \in Rows
           /\ Subject(call[t]) \in Actors /\ ActorRow(Subject(call[t])) \in Rows
           /\ call[t].op # "leave_service" =>
                  call[t].org \in Orgs /\ OrgRow(call[t].org) \in Rows
<1>1. call[t] \in Calls
  BY DEF CourseOK
<1> QED
  BY <1>1, CallFacts, SubjectIsActor, RowFacts

----------------------------------------------------------------------------
(* The locks a transaction holds along its course.                         *)

\* From lock_organization to the commit the organization stays locked.
LEMMA OrganizationLockedStep ==
    ASSUME OwnerInvariant, NEW t \in Tx, Begin(t) \/ Step(t) \/ Cancel(t)
    PROVE  OrganizationLocked'
<1>1. TypeOK /\ CourseOK /\ OrganizationLocked
  BY DEF OwnerInvariant
<1>2. Begin(t) \/ TakeLock(t) \/ Ends(t) \/ MovesOn(t)
  BY <1>1, StepKinds
<1>3. SUFFICES ASSUME NEW u \in Tx
               PROVE  (/\ pc[u] = "lock_organization" => Claims(u, OrgRow(call[u].org), Update)
                       /\ pc[u] = "write" => held[u][OrgRow(call[u].org)] >= Update
                       /\ pc[u] = "insert" /\ call[u].op # "create_organization"
                              => held[u][OrgRow(call[u].org)] >= Update)'
  BY DEF OrganizationLocked
<1>4. CASE u # t
  BY <1>1, <1>2, <1>4, OthersUnchanged DEF OrganizationLocked, Claims
<1>5. CASE u = t /\ Begin(t)
  BY <1>1, <1>5 DEF Begin, TypeOK, ControlTypeOK
<1>6. CASE u = t /\ Ends(t)
  BY <1>1, <1>6 DEF Ends, End, TypeOK, ControlTypeOK
<1>7. CASE u = t /\ TakeLock(t)
  <2>1. pc' = pc /\ call' = call
    BY <1>7 DEF TakeLock
  <2>2. CASE pc[t] \in {"lock_organization", "write", "insert"}
    <3>1. PICK r \in Rows : r = OrgRow(call[t].org)
      BY <1>1, <2>2, CallRows DEF CourseOK
    <3>2. /\ held[t][r] >= Update => held'[t][r] >= Update
          /\ Claims(t, r, Update) => Claims(t, r, Update)'
      BY <1>1, <1>7, HeldGrows, ModeFacts
    <3> QED
      BY <1>1, <1>7, <2>1, <3>1, <3>2 DEF OrganizationLocked, Claims
  <2> QED
    BY <1>7, <2>1, <2>2
<1>8. CASE u = t /\ MovesOn(t)
  <2>1. CASE Advances(t)
    <3>1. PICK p, q : Moves(t, p, q) /\ q \in {"write", "insert"}
      BY <2>1 DEF Advances
    <3>2. Returned(t) /\ held' = held /\ call' = call /\ pc'[t] \in {"write", "insert"}
      BY <1>1, <3>1 DEF Moves, TypeOK, ControlTypeOK
    <3>3. CASE pc[t] = "lock_organization"
      BY <1>1, <1>8, <3>2, <3>3, ReturnedHolds DEF OrganizationLocked
    <3>4. CASE pc[t] = "insert" /\ call[t].op = "add_team_member"
      BY <1>1, <1>8, <3>2, <3>4 DEF OrganizationLocked
    <3> QED
      BY <2>1, <3>3, <3>4 DEF Advances, Moves
  <2>2. CASE ToOrganization(t)
    <3>1. call' = call /\ pc'[t] = "lock_organization"
      BY <1>1, <2>2 DEF ToOrganization, Moves, TypeOK, ControlTypeOK
    <3> QED
      BY <1>8, <2>2, <3>1 DEF ToOrganization, Claims
  <2>3. CASE ToSlug(t)
    BY <1>1, <1>8, <2>3 DEF ToSlug, Moves, TypeOK, ControlTypeOK
  <2>4. CASE ToOrganizations(t) \/ ToLoop(t) \/ Loops(t)
    BY <1>1, <1>8, <2>4 DEF ToOrganizations, ToLoop, Loops, Moves, TypeOK, ControlTypeOK
  <2> QED
    BY <1>8, <2>1, <2>2, <2>3, <2>4 DEF MovesOn
<1> QED
  BY <1>2, <1>4, <1>5, <1>6, <1>7, <1>8

\* lock_actor's statement names the subject if it sees it.
LEMMA SubjectLockedStep ==
    ASSUME OwnerInvariant, NEW t \in Tx, Begin(t) \/ Step(t) \/ Cancel(t)
    PROVE  SubjectLocked'
<1>1. TypeOK /\ CourseOK /\ SubjectLocked
  BY DEF OwnerInvariant
<1>2. Begin(t) \/ TakeLock(t) \/ Ends(t) \/ MovesOn(t)
  BY <1>1, StepKinds
<1>3. SUFFICES ASSUME NEW u \in Tx
               PROVE  (/\ pc[u] = "lock_actor" /\ loc[u].departed # "None"
                              => Claims(u, ActorRow(Subject(call[u])), Share)
                       /\ pc[u] \in {"lock_organization", "insert", "write"}
                              /\ loc[u].departed # "None"
                              => held[u][ActorRow(Subject(call[u]))] >= Share
                       /\ pc[u] = "insert" /\ call[u].op = "create_organization"
                              => loc[u].departed # "None")'
  BY DEF SubjectLocked
<1>4. CASE u # t
  BY <1>1, <1>2, <1>4, OthersUnchanged DEF SubjectLocked, Claims
<1>5. CASE u = t /\ Begin(t)
  <2>1. PICK c \in Requests :
            /\ call' = [call EXCEPT ![t] = c]
            /\ IF c.op = "leave_service"
               THEN pc' = [pc EXCEPT ![t] = "leave_actor"]
               ELSE /\ todo' = [todo EXCEPT ![t] = Statement(Share,
                                    {ActorRow(a) : a \in LockActorRows(c)})]
                    /\ pc' = [pc EXCEPT ![t] = "lock_actor"]
                    /\ loc' = [loc EXCEPT ![t].departed =
                                   IF Subject(c) \in LockActorRows(c) THEN "Some" ELSE "None"]
    BY <1>5 DEF Begin
  <2>2. call'[t] = c
    BY <1>1, <2>1 DEF TypeOK, ControlTypeOK
  <2>3. CASE c.op = "leave_service"
    BY <1>1, <1>5, <2>1, <2>3 DEF TypeOK, ControlTypeOK
  <2>4. CASE c.op # "leave_service"
    <3>1. pc'[t] = "lock_actor"
      BY <1>1, <2>1, <2>4 DEF TypeOK, ControlTypeOK
    <3>2. todo'[t].mode = Share /\ todo'[t].rows = {ActorRow(a) : a \in LockActorRows(c)}
      BY <1>1, <2>1, <2>4 DEF TypeOK, LocksTypeOK, Statement
    <3>3. loc'[t].departed # "None" => Subject(c) \in LockActorRows(c)
      BY <1>1, <2>1, <2>4 DEF TypeOK, ControlTypeOK, Locals
    <3> QED
      BY <1>5, <2>2, <3>1, <3>2, <3>3 DEF Claims
  <2> QED
    BY <2>3, <2>4
<1>6. CASE u = t /\ Ends(t)
  BY <1>1, <1>6 DEF Ends, End, TypeOK, ControlTypeOK
<1>7. CASE u = t /\ TakeLock(t)
  <2>1. pc' = pc /\ call' = call /\ loc' = loc
    BY <1>7 DEF TakeLock
  <2>2. CASE pc[t] \in {"lock_actor", "lock_organization", "write", "insert"}
    <3>1. PICK r \in Rows : r = ActorRow(Subject(call[t]))
      BY <1>1, <2>2, CallRows
    <3>2. /\ held[t][r] >= Share => held'[t][r] >= Share
          /\ Claims(t, r, Share) => Claims(t, r, Share)'
      BY <1>1, <1>7, HeldGrows, ModeFacts
    <3> QED
      BY <1>1, <1>7, <2>1, <3>1, <3>2 DEF SubjectLocked, Claims
  <2> QED
    BY <1>7, <2>1, <2>2
<1>8. CASE u = t /\ MovesOn(t)
  <2>1. CASE Advances(t)
    <3>1. PICK p, q : Moves(t, p, q) /\ q \in {"write", "insert"}
                        /\ p \in {"lock_organization", "insert"}
      BY <2>1 DEF Advances
    <3>2. /\ held' = held /\ call' = call /\ pc'[t] \in {"write", "insert"}
          /\ pc[t] \in {"lock_organization", "insert"}
          /\ loc'[t].departed = loc[t].departed
      BY <1>1, <2>1, <3>1 DEF Moves, TypeOK, ControlTypeOK, Advances, Steady
    <3>3. pc'[t] = "insert" => call[t].op # "create_organization"
      BY <1>1, <2>1, <3>2 DEF Advances, Moves, CourseOK, TypeOK, ControlTypeOK
    <3> QED
      BY <1>1, <1>8, <3>2, <3>3 DEF SubjectLocked
  <2>2. CASE ToOrganization(t) \/ ToSlug(t)
    <3>1. /\ held' = held /\ call' = call /\ Returned(t) /\ pc[t] = "lock_actor"
          /\ pc'[t] \in {"lock_organization", "insert"}
          /\ loc'[t].departed # "None" => loc[t].departed # "None"
          /\ pc'[t] = "insert" => loc'[t].departed # "None"
      BY <1>1, <2>2 DEF ToOrganization, ToSlug, Steady, Moves, TypeOK, ControlTypeOK
    <3> QED
      BY <1>1, <1>8, <3>1, ReturnedHolds DEF SubjectLocked
  <2>3. CASE ToOrganizations(t) \/ ToLoop(t) \/ Loops(t)
    BY <1>1, <1>8, <2>3 DEF ToOrganizations, ToLoop, Loops, Moves, TypeOK, ControlTypeOK
  <2> QED
    BY <1>8, <2>1, <2>2, <2>3 DEF MovesOn
<1> QED
  BY <1>2, <1>4, <1>5, <1>6, <1>7, <1>8

----------------------------------------------------------------------------
(* The three commits that change actors, organizations or memberships.     *)

ownerTables == <<actor, slug, member, blind>>

Founds(t) ==
    /\ pc[t] = "insert" /\ call[t].op = "create_organization" /\ Ends(t)
    /\ slug' = [slug EXCEPT ![call[t].org] = call[t].name]
    /\ member' = [member EXCEPT ![call[t].org][call[t].by] = Member("owner", "active")]
    /\ UNCHANGED <<actor, blind>>

NewRole(c) == IF c.op = "change_member_role" THEN c.role ELSE member[c.org][c.who].role
NewStatus(c) ==
    IF c.op = "change_member_role" THEN member[c.org][c.who].status
    ELSE IF c.op = "suspend_member" THEN "suspended" ELSE "active"

WritesMember(t) ==
    /\ pc[t] = "write" /\ Ends(t)
    /\ call[t].op \in {"change_member_role", "suspend_member", "reactivate_member"}
    /\ member' = [member EXCEPT ![call[t].org][call[t].who] =
                     SetColumns(member[call[t].org][call[t].who],
                                NewRole(call[t]), NewStatus(call[t]))]
    /\ blind' = IF call[t].op = "reactivate_member" /\ loc[t].departed = "None"
                THEN blind \cup {<<call[t].org, call[t].who>>} ELSE blind
    /\ UNCHANGED <<actor, slug>>

Departs(t) ==
    /\ pc[t] = "leave_next" /\ call[t].op = "leave_service" /\ Ends(t)
    /\ member' = [o \in Orgs |-> IF o \in loc[t].memberships
                     THEN [member[o] EXCEPT ![call[t].by] = SetColumns(@, @.role, "left")]
                     ELSE member[o]]
    /\ actor' = [actor EXCEPT ![call[t].by] = "departed"]
    /\ UNCHANGED <<slug, blind>>

\* A commit of WriteMember, whatever it writes.
LEMMA WriteMemberWrites ==
    ASSUME NEW t \in Tx, NEW role, NEW status, NEW event,
           WriteMember(t, role, status, event),
           role = NewRole(call[t]), status = NewStatus(call[t]), pc[t] = "write",
           call[t].op \in {"change_member_role", "suspend_member", "reactivate_member"}
    PROVE  UNCHANGED ownerTables \/ WritesMember(t)
<1>1. CASE Rollback(t, "Database")
  BY <1>1 DEF Rollback, tables, ownerTables
<1>2. CASE /\ member' = [member EXCEPT ![call[t].org][call[t].who] =
                            SetColumns(member[call[t].org][call[t].who], role, status)]
           /\ blind' = IF call[t].op = "reactivate_member" /\ loc[t].departed = "None"
                       THEN blind \cup {<<call[t].org, call[t].who>>} ELSE blind
           /\ Commit(t, {event})
           /\ UNCHANGED <<actor, users, slug, team, teamMember, channel, channelMember>>
  BY <1>2 DEF WritesMember, Commit, Ends, Results
<1> QED
  BY <1>1, <1>2 DEF WriteMember

\* What the steps of identity.rs and membership.rs do to the membership tables.
LEMMA MembershipTables ==
    ASSUME TypeOK, CourseOK, NEW t \in Tx, MembershipStep(t)
    PROVE  UNCHANGED ownerTables \/ Founds(t) \/ WritesMember(t)
<1>1. CASE CreateOrganization(t)
  BY <1>1 DEF CreateOrganization, Rollback, Start, tables, ownerTables
<1>2. CASE InsertOrganization(t)
  <2>1. CASE Rollback(t, "SlugTaken")
    BY <2>1 DEF Rollback, tables, ownerTables
  <2>2. CASE ~Rollback(t, "SlugTaken")
    BY <1>2, <2>2 DEF InsertOrganization, Founds, Commit, Ends, Results, At
  <2> QED
    BY <2>1, <2>2
<1>3. CASE ChangeMemberRole(t) \/ SuspendMember(t) \/ ReactivateMember(t)
  BY <1>3 DEF ChangeMemberRole, SuspendMember, ReactivateMember, Decide, Rollback, Start,
              tables, ownerTables
<1>4. CASE WriteMemberRole(t)
  BY <1>4, WriteMemberWrites DEF WriteMemberRole, At, NewRole, NewStatus
<1>5. CASE WriteSuspension(t)
  BY <1>5, WriteMemberWrites DEF WriteSuspension, At, NewRole, NewStatus
<1>6. CASE WriteReactivation(t)
  BY <1>6, WriteMemberWrites DEF WriteReactivation, At, NewRole, NewStatus
<1> QED
  BY <1>1, <1>2, <1>3, <1>4, <1>5, <1>6 DEF MembershipStep

\* What the steps of leaving.rs do to the membership tables.
LEMMA LeavingTables ==
    ASSUME NEW t \in Tx, LeavingStep(t)
    PROVE  UNCHANGED ownerTables \/ Departs(t)
<1>1. CASE LeaveActor(t) \/ LeaveChecks(t)
  BY <1>1 DEF LeaveActor, LeaveChecks, Rollback, Start, tables, ownerTables
<1>2. CASE LeaveTeams(t) \/ LeaveAudit(t) \/ LeaveChannels(t)
  BY <1>2 DEF LeaveTeams, LeaveAudit, LeaveChannels, Rollback, Start, tables, ownerTables
<1>3. CASE LeaveCommit(t)
  BY <1>3 DEF LeaveCommit, Departs, Commit, Ends, Results, Leaver, At
<1> QED
  BY <1>1, <1>2, <1>3 DEF LeavingStep

\* The steps of teams.rs leave the membership tables alone.
LEMMA TeamsTables ==
    ASSUME NEW t \in Tx, TeamsStep(t) \/ ChannelsStep(t)
    PROVE  UNCHANGED ownerTables
<1>1. CASE TeamsStep(t)
  BY <1>1 DEF TeamsStep, CreateTeam, AddTeamMember, InsertTeamMember, WriteTeamMembership,
              ChangeTeamMemberRole, WriteTeamRole, RemoveTeamMember, WriteTeamRemoval,
              WriteTeamMember, Rollback, Start, tables, ownerTables
<1>2. CASE ChannelsStep(t)
  BY <1>2 DEF ChannelsStep, CreateChannel, WriteChannel, AddChannelMember,
              WriteChannelMember, Rollback, Start, tables, ownerTables
<1> QED
  BY <1>1, <1>2

\* Every step leaves the membership tables alone, founds, writes a row or departs.
LEMMA TableKinds ==
    ASSUME TypeOK, CourseOK, NEW t \in Tx, Begin(t) \/ Step(t) \/ Cancel(t)
    PROVE  UNCHANGED ownerTables \/ Founds(t) \/ WritesMember(t) \/ Departs(t)
<1>1. CASE Begin(t) \/ TakeLock(t) \/ DeadlockAbort(t) \/ Cancel(t) \/ LockOrganization(t)
  BY <1>1 DEF Begin, TakeLock, DeadlockAbort, Cancel, LockOrganization, Rollback, Start,
              tables, ownerTables
<1> QED
  BY <1>1, MembershipTables, LeavingTables, TeamsTables DEF Step

\* A founding changes one membership row, an absent one, to an active owner.
LEMMA FoundsRows ==
    ASSUME TypeOK, CourseOK, NEW t \in Tx, Founds(t), NEW o \in Orgs, NEW a \in Actors
    PROVE  /\ call[t].org \in Orgs /\ call[t].by \in Actors
           /\ member'[o][a] = IF o = call[t].org /\ a = call[t].by
                              THEN Member("owner", "active") ELSE member[o][a]
           /\ o # call[t].org => slug'[o] = slug[o]
           /\ slug'[call[t].org] # 0
<1>1. call[t].org \in Orgs /\ call[t].by \in Actors /\ call[t].name \in Names
  BY CallFacts DEF Founds, CourseOK
<1> QED
  BY <1>1, IdentifiersAssumption DEF Founds, TypeOK, TablesTypeOK

\* A membership operation changes one row, and only if there is one.
LEMMA WritesRows ==
    ASSUME TypeOK, CourseOK, NEW t \in Tx, WritesMember(t), NEW o \in Orgs, NEW a \in Actors
    PROVE  /\ call[t].org \in Orgs /\ call[t].who \in Actors
           /\ member'[o][a] = IF o = call[t].org /\ a = call[t].who
                              THEN SetColumns(member[o][a], NewRole(call[t]), NewStatus(call[t]))
                              ELSE member[o][a]
<1>1. call[t].org \in Orgs /\ call[t].who \in Actors
  BY CallFacts DEF WritesMember, CourseOK, WithTarget
<1> QED
  BY <1>1 DEF WritesMember, TypeOK, TablesTypeOK

\* A departure changes the rows of the leaver only, and makes none active.
LEMMA DepartsRows ==
    ASSUME TypeOK, CourseOK, NEW t \in Tx, Departs(t), NEW o \in Orgs, NEW a \in Actors
    PROVE  /\ call[t].by \in Actors
           /\ a # call[t].by => member'[o][a] = member[o][a] /\ actor'[a] = actor[a]
           /\ a = call[t].by => actor'[a] = "departed"
           /\ \/ member'[o][a] = member[o][a]
              \/ /\ member[o][a] # NoMember
                 /\ member'[o][a] = Member(member[o][a].role, "left")
<1>1. call[t].by \in Actors
  BY CallFacts DEF Departs, CourseOK
<1> QED
  BY <1>1 DEF Departs, TypeOK, TablesTypeOK, SetColumns

\* Blindness is never forgotten.
LEMMA SightKept ==
    ASSUME TypeOK, CourseOK, NEW t \in Tx, Begin(t) \/ Step(t) \/ Cancel(t), NEW o
    PROVE  blind \subseteq blind' /\ (Sighted(o)' => Sighted(o))
<1>1. blind \subseteq blind'
  BY TableKinds DEF ownerTables, Founds, WritesMember, Departs
<1> QED
  BY <1>1 DEF Sighted

----------------------------------------------------------------------------
(* The leaver.                                                             *)

\* A leaver stays locked and live until it commits.
LEMMA LeaverLockedStep ==
    ASSUME OwnerInvariant, NEW t \in Tx, Begin(t) \/ Step(t) \/ Cancel(t)
    PROVE  LeaverLocked'
<1>1. TypeOK /\ CourseOK /\ LeaverLocked /\ LocksExclude
  BY DEF OwnerInvariant
<1>2. Begin(t) \/ TakeLock(t) \/ Ends(t) \/ MovesOn(t)
  BY <1>1, StepKinds
<1>3. actor' = actor \/ Departs(t)
  BY <1>1, TableKinds DEF ownerTables, Founds, WritesMember
<1>4. SUFFICES ASSUME NEW u \in Tx
               PROVE  (/\ pc[u] = "leave_actor" /\ actor[call[u].by] # "absent"
                              => Claims(u, ActorRow(call[u].by), Update)
                       /\ Leaving(u) => /\ held[u][ActorRow(call[u].by)] >= Update
                                        /\ actor[call[u].by] = "live")'
  BY DEF LeaverLocked
<1>5. CASE u # t
  <2>1. /\ pc'[u] = pc[u] /\ call'[u] = call[u] /\ held'[u] = held[u] /\ todo'[u] = todo[u]
    BY <1>1, <1>2, <1>5, OthersUnchanged
  <2>2. CASE actor' = actor
    BY <1>1, <2>1, <2>2 DEF LeaverLocked, Claims, Leaving
  <2>3. CASE Departs(t)
    <3>1. held[t][ActorRow(call[t].by)] >= Update /\ actor[call[t].by] = "live"
      BY <1>1, <2>3 DEF LeaverLocked, Leaving, Departs
    <3>2. ASSUME pc[u] # "idle"
          PROVE  /\ call[u].by \in Actors /\ ActorRow(call[u].by) \in Rows
                 /\ actor[call[u].by] = "absent" => actor'[call[u].by] = "absent"
                 /\ call[u].by # call[t].by => actor'[call[u].by] = actor[call[u].by]
      BY <1>1, <2>3, <3>1, <3>2, CallRows DEF Departs, TypeOK, TablesTypeOK
    <3>3. ASSUME Leaving(u)
          PROVE  call[u].by # call[t].by
      <4>1. held[u][ActorRow(call[u].by)] >= KeyShare /\ ActorRow(call[u].by) \in Rows
        <5>1. held[u][ActorRow(call[u].by)] >= Update
          BY <1>1, <3>3 DEF LeaverLocked
        <5>2. ActorRow(call[u].by) \in Rows
          BY <3>2, <3>3 DEF Leaving
        <5>3. held[u][ActorRow(call[u].by)] \in 0 .. Update
          BY <1>1, <5>2 DEF TypeOK, LocksTypeOK
        <5> QED
          BY <5>1, <5>2, <5>3 DEF Update, KeyShare
      <4> QED
        BY <1>1, <1>5, <3>1, <4>1, OneUpdater
    <3>4. Leaving(u) => pc[u] # "idle"
      BY DEF Leaving
    <3> QED
      BY <1>1, <2>1, <3>2, <3>3, <3>4 DEF LeaverLocked, Claims, Leaving
  <2> QED
    BY <1>3, <2>2, <2>3
<1>6. CASE u = t /\ Begin(t)
  <2>1. PICK c \in Requests :
            /\ call' = [call EXCEPT ![t] = c]
            /\ IF c.op = "leave_service"
               THEN /\ todo' = [todo EXCEPT ![t] = Statement(Update,
                                {ActorRow(a) : a \in {b \in {c.by} : SeesActor(b, b)}})]
                    /\ pc' = [pc EXCEPT ![t] = "leave_actor"]
               ELSE pc' = [pc EXCEPT ![t] = "lock_actor"]
            /\ UNCHANGED tables
    BY <1>6 DEF Begin
  <2>2. call'[t] = c /\ actor' = actor
    BY <1>1, <2>1 DEF TypeOK, ControlTypeOK, tables
  <2>3. CASE c.op # "leave_service"
    BY <1>1, <1>6, <2>1, <2>3 DEF TypeOK, ControlTypeOK, Leaving
  <2>4. CASE c.op = "leave_service"
    <3>1. /\ todo'[t].mode = Update
          /\ todo'[t].rows = {ActorRow(a) : a \in {b \in {c.by} : SeesActor(b, b)}}
      BY <1>1, <2>1, <2>4 DEF TypeOK, LocksTypeOK, Statement
    <3>2. pc'[t] = "leave_actor"
      BY <1>1, <2>1, <2>4 DEF TypeOK, ControlTypeOK
    <3>3. actor[c.by] # "absent" => ActorRow(c.by) \in todo'[t].rows
      BY <3>1 DEF SeesActor
    <3> QED
      BY <1>6, <2>2, <3>1, <3>2, <3>3 DEF Claims, Leaving
  <2> QED
    BY <2>3, <2>4
<1>7. CASE u = t /\ Ends(t)
  BY <1>1, <1>7 DEF Ends, End, TypeOK, ControlTypeOK, Leaving
<1>8. CASE u = t /\ TakeLock(t)
  <2>1. pc' = pc /\ call' = call /\ actor' = actor
    BY <1>8 DEF TakeLock, tables
  <2>2. CASE pc[t] = "leave_actor" \/ Leaving(t)
    <3>1. PICK r \in Rows : r = ActorRow(call[t].by)
      BY <1>1, <2>2, CallRows DEF Leaving
    <3>2. /\ held[t][r] >= Update => held'[t][r] >= Update
          /\ Claims(t, r, Update) => Claims(t, r, Update)'
      BY <1>1, <1>8, HeldGrows, ModeFacts
    <3> QED
      BY <1>1, <1>8, <2>1, <3>1, <3>2 DEF LeaverLocked, Claims, Leaving
  <2> QED
    BY <1>8, <2>1, <2>2 DEF Leaving
<1>9. CASE u = t /\ MovesOn(t)
  <2>1. CASE ToOrganizations(t)
    <3>1. /\ held' = held /\ call' = call /\ Returned(t) /\ pc[t] = "leave_actor"
          /\ pc'[t] = "leave_orgs" /\ actor' = actor /\ actor[call[t].by] = "live"
      BY <1>1, <2>1 DEF ToOrganizations, Moves, TypeOK, ControlTypeOK, tables
    <3> QED
      BY <1>1, <1>9, <3>1, ReturnedHolds DEF LeaverLocked, Leaving
  <2>2. CASE ToLoop(t) \/ Loops(t)
    <3>1. /\ held' = held /\ call' = call /\ actor' = actor
          /\ Leaving(t) /\ pc'[t] # "leave_actor"
      BY <1>1, <2>2 DEF ToLoop, Loops, Moves, TypeOK, ControlTypeOK, tables, Leaving
    <3> QED
      BY <1>1, <1>9, <3>1 DEF LeaverLocked, Leaving
  <2>3. CASE ToOrganization(t) \/ ToSlug(t) \/ Advances(t)
    BY <1>1, <1>9, <2>3
       DEF ToOrganization, ToSlug, Advances, Moves, TypeOK, ControlTypeOK, Leaving
  <2> QED
    BY <1>9, <2>1, <2>2, <2>3 DEF MovesOn
<1> QED
  BY <1>2, <1>5, <1>6, <1>7, <1>8, <1>9

\* The first half of LeaverOrganizationsLocked: only control and locks.
LEMMA LeaverHoldsStep ==
    ASSUME OwnerInvariant, NEW t \in Tx, Begin(t) \/ Step(t) \/ Cancel(t),
           NEW u \in Tx, NEW o \in Orgs, Leaving(u)', o \in loc'[u].orgs
    PROVE  (IF pc[u] = "leave_orgs" THEN Claims(u, OrgRow(o), Update)
            ELSE held[u][OrgRow(o)] >= Update)'
<1>1. TypeOK /\ CourseOK /\ LeaverOrganizationsLocked
  BY DEF OwnerInvariant
<1>2. Begin(t) \/ TakeLock(t) \/ Ends(t) \/ MovesOn(t)
  BY <1>1, StepKinds
<1>3. CASE u # t
  BY <1>1, <1>2, <1>3, OthersUnchanged DEF LeaverOrganizationsLocked, Claims, Leaving
<1>4. CASE u = t /\ Begin(t)
  BY <1>1, <1>4 DEF Begin, TypeOK, ControlTypeOK, Leaving
<1>5. CASE u = t /\ Ends(t)
  BY <1>1, <1>5 DEF Ends, End, TypeOK, ControlTypeOK, Leaving
<1>6. CASE u = t /\ TakeLock(t)
  <2>1. pc' = pc /\ call' = call /\ loc' = loc
    BY <1>6 DEF TakeLock
  <2>2. PICK r \in Rows : r = OrgRow(o)
    BY RowFacts
  <2>3. /\ held[t][r] >= Update => held'[t][r] >= Update
        /\ Claims(t, r, Update) => Claims(t, r, Update)'
    BY <1>1, <1>6, HeldGrows, ModeFacts
  <2> QED
    BY <1>1, <1>6, <2>1, <2>2, <2>3 DEF LeaverOrganizationsLocked, Claims, Leaving
<1>7. CASE u = t /\ MovesOn(t)
  <2>1. CASE ToOrganizations(t)
    <3>1. pc'[t] = "leave_orgs"
      BY <1>1, <2>1 DEF ToOrganizations, Moves, TypeOK, ControlTypeOK
    <3> QED
      BY <1>7, <2>1, <3>1 DEF ToOrganizations, Claims
  <2>2. CASE ToLoop(t)
    <3>1. /\ held' = held /\ Returned(t) /\ pc[t] = "leave_orgs" /\ pc'[t] = "leave_next"
          /\ loc'[t].orgs = loc[t].orgs
      BY <1>1, <2>2 DEF ToLoop, Moves, TypeOK, ControlTypeOK, Steady
    <3> QED
      BY <1>1, <1>7, <3>1, ReturnedHolds DEF LeaverOrganizationsLocked, Leaving
  <2>3. CASE Loops(t)
    <3>1. /\ held' = held /\ pc[t] \in {"leave_next", "leave_audit"}
          /\ pc'[t] \in {"leave_next", "leave_audit"} /\ loc'[t].orgs = loc[t].orgs
      BY <1>1, <2>3 DEF Loops, Moves, TypeOK, ControlTypeOK, Steady
    <3> QED
      BY <1>1, <1>7, <3>1 DEF LeaverOrganizationsLocked, Leaving
  <2>4. CASE ToOrganization(t) \/ ToSlug(t) \/ Advances(t)
    BY <1>1, <1>7, <2>4
       DEF ToOrganization, ToSlug, Advances, Moves, TypeOK, ControlTypeOK, Leaving
  <2> QED
    BY <1>7, <2>1, <2>2, <2>3, <2>4 DEF MovesOn
<1> QED
  BY <1>2, <1>3, <1>4, <1>5, <1>6, <1>7

(***************************************************************************)
(* The second half: nobody makes a leaver active behind its back, because  *)
(* founding and sighted reactivation hold the actor row that it holds.     *)
(***************************************************************************)
LEMMA LeaverStaysInactive ==
    ASSUME OwnerInvariant, NEW t \in Tx, NEW u \in Tx, t # u, Leaving(u), NEW o \in Orgs,
           Founds(t) \/ WritesMember(t) \/ Departs(t),
           <<o, call[u].by>> \notin blind', member'[o][call[u].by].status = "active"
    PROVE  member[o][call[u].by].status = "active"
<1>1. TypeOK /\ CourseOK /\ LeaverLocked /\ LocksExclude /\ SubjectLocked
  BY DEF OwnerInvariant
<1>2. /\ call[u].by \in Actors /\ ActorRow(call[u].by) \in Rows
      /\ held[u][ActorRow(call[u].by)] >= Update
  BY <1>1, CallRows DEF LeaverLocked, Leaving
<1>3. ASSUME NEW a \in Actors, held[t][ActorRow(a)] >= Share
      PROVE  a # call[u].by
  <2>1. ActorRow(a) \in Rows
    BY RowFacts
  <2>2. held[t][ActorRow(a)] \in 0 .. Update
    BY <1>1, <2>1 DEF TypeOK, LocksTypeOK
  <2>3. held[t][ActorRow(a)] >= KeyShare
    BY <1>3, <2>2 DEF Share, KeyShare, Update
  <2> QED
    BY <1>1, <1>2, <2>3, OneUpdater
<1>4. CASE Founds(t)
  <2>1. loc[t].departed # "None" /\ pc[t] = "insert" /\ Subject(call[t]) = call[t].by
    BY <1>1, <1>4 DEF Founds, SubjectLocked, Subject
  <2>2. call[t].by \in Actors /\ held[t][ActorRow(call[t].by)] >= Share
    BY <1>1, <2>1, CallRows DEF SubjectLocked
  <2>3. call[t].by # call[u].by
    BY <1>3, <2>2
  <2> QED
    BY <1>1, <1>2, <1>4, <2>3, FoundsRows
<1>5. CASE WritesMember(t)
  <2>1. CASE o = call[t].org /\ call[u].by = call[t].who
    <3>1. member'[o][call[u].by] =
              SetColumns(member[o][call[u].by], NewRole(call[t]), NewStatus(call[t]))
      BY <1>1, <1>2, <1>5, <2>1, WritesRows
    <3>2. CASE call[t].op = "change_member_role"
      BY <2>1, <3>1, <3>2 DEF SetColumns, NewStatus, Member
    <3>3. CASE call[t].op = "suspend_member"
      BY <3>1, <3>3 DEF SetColumns, NewStatus, Member, NoMember
    <3>4. CASE call[t].op = "reactivate_member"
      <4>1. loc[t].departed # "None"
        <5>1. CASE loc[t].departed = "None"
          <6>1. <<o, call[u].by>> \in blind'
            BY <1>5, <2>1, <3>4, <5>1 DEF WritesMember
          <6> QED
            BY <6>1
        <5> QED
          BY <5>1
      <4>2. pc[t] = "write" /\ Subject(call[t]) = call[t].who
        BY <1>5, <3>4 DEF WritesMember, Subject
      <4>3. held[t][ActorRow(call[t].who)] >= Share
        BY <1>1, <4>1, <4>2 DEF SubjectLocked
      <4> QED
        BY <1>2, <1>3, <2>1, <4>3
    <3> QED
      BY <1>5, <3>2, <3>3, <3>4 DEF WritesMember
  <2>2. CASE ~(o = call[t].org /\ call[u].by = call[t].who)
    BY <1>1, <1>2, <1>5, <2>2, WritesRows
  <2> QED
    BY <2>1, <2>2
<1>6. CASE Departs(t)
  <2>1. \/ member'[o][call[u].by] = member[o][call[u].by]
        \/ member'[o][call[u].by] = Member(member[o][call[u].by].role, "left")
    BY <1>1, <1>2, <1>6, DepartsRows
  <2> QED
    BY <2>1 DEF Member
<1> QED
  BY <1>4, <1>5, <1>6

\* A leaver keeps its organizations locked and becomes active in no other.
LEMMA LeaverOrganizationsStep ==
    ASSUME OwnerInvariant, NEW t \in Tx, Begin(t) \/ Step(t) \/ Cancel(t)
    PROVE  LeaverOrganizationsLocked'
<1>1. TypeOK /\ CourseOK /\ LeaverOrganizationsLocked
  BY DEF OwnerInvariant
<1>2. Begin(t) \/ TakeLock(t) \/ Ends(t) \/ MovesOn(t)
  BY <1>1, StepKinds
<1>3. ASSUME NEW u \in Tx, NEW o \in Orgs, Leaving(u)', (<<o, call[u].by>> \notin blind)',
             (member[o][call[u].by].status = "active")'
      PROVE  o \in loc'[u].orgs
  <2>1. blind \subseteq blind'
    BY <1>1, <1>3, SightKept
  <2>2. CASE u # t
    <3>1. pc'[u] = pc[u] /\ call'[u] = call[u] /\ loc'[u] = loc[u]
      BY <1>1, <1>2, <2>2, OthersUnchanged
    <3>2. Leaving(u)
      BY <1>3, <3>1 DEF Leaving
    <3>3. member[o][call[u].by].status = "active"
      <4>1. CASE UNCHANGED ownerTables
        BY <1>3, <3>1, <4>1 DEF ownerTables
      <4>2. CASE Founds(t) \/ WritesMember(t) \/ Departs(t)
        BY <1>3, <2>2, <3>1, <3>2, <4>2, LeaverStaysInactive
      <4> QED
        BY <1>1, <4>1, <4>2, TableKinds
    <3> QED
      BY <1>1, <1>3, <2>1, <3>1, <3>2, <3>3 DEF LeaverOrganizationsLocked
  <2>3. CASE u = t /\ (Begin(t) \/ Ends(t))
    BY <1>1, <1>3, <2>3 DEF Begin, Ends, End, TypeOK, ControlTypeOK, Leaving
  <2>4. CASE u = t /\ TakeLock(t)
    <3>1. pc' = pc /\ call' = call /\ loc' = loc /\ member' = member
      BY <2>4 DEF TakeLock, tables
    <3> QED
      BY <1>1, <1>3, <2>1, <3>1 DEF LeaverOrganizationsLocked, Leaving
  <2>5. CASE u = t /\ ToOrganizations(t)
    <3>1. call' = call /\ member' = member
      BY <2>5 DEF ToOrganizations, Moves, tables
    <3> QED
      BY <1>3, <2>5, <3>1 DEF ToOrganizations
  <2>6. CASE u = t /\ (ToLoop(t) \/ Loops(t))
    <3>1. /\ call' = call /\ member' = member /\ Leaving(t)
          /\ loc'[t].orgs = loc[t].orgs
      BY <2>6 DEF ToLoop, Loops, Moves, Steady, tables, Leaving
    <3> QED
      BY <1>1, <1>3, <2>1, <2>6, <3>1 DEF LeaverOrganizationsLocked
  <2>7. CASE u = t /\ (ToOrganization(t) \/ ToSlug(t) \/ Advances(t))
    BY <1>1, <1>3, <2>7
       DEF ToOrganization, ToSlug, Advances, Moves, TypeOK, ControlTypeOK, Leaving
  <2> QED
    BY <1>2, <2>2, <2>3, <2>4, <2>5, <2>6, <2>7 DEF MovesOn
<1> QED
  BY <1>3, LeaverHoldsStep DEF LeaverOrganizationsLocked

----------------------------------------------------------------------------
(* Decisions.                                                              *)

\* A row that is there stays there, whatever is written into it.
LEMMA RowsStay ==
    ASSUME TypeOK, CourseOK, NEW t \in Tx, Begin(t) \/ Step(t) \/ Cancel(t),
           NEW o \in Orgs, NEW a \in Actors
    PROVE  /\ member[o][a] # NoMember => member'[o][a] # NoMember
           /\ ~Founds(t) /\ member[o][a] = NoMember => member'[o][a] = NoMember
<1>1. member[o][a] \in MemberRows
  BY DEF TypeOK, TablesTypeOK
<1>2. CASE UNCHANGED ownerTables
  BY <1>2 DEF ownerTables
<1>3. CASE Founds(t)
  BY <1>3, FoundsRows DEF Member, NoMember
<1>4. CASE WritesMember(t)
  <2>1. CASE o = call[t].org /\ a = call[t].who
    <3>1. member'[o][a] = SetColumns(member[o][a], NewRole(call[t]), NewStatus(call[t]))
      BY <1>4, <2>1, WritesRows
    <3>2. member[o][a] # NoMember => NewStatus(call[t]) # "none"
      BY <1>1, <2>1 DEF NewStatus, MemberRows, Statuses, NoMember
    <3> QED
      BY <3>1, <3>2 DEF SetColumns, Member, NoMember
  <2>2. CASE ~(o = call[t].org /\ a = call[t].who)
    BY <1>4, <2>2, WritesRows
  <2> QED
    BY <2>1, <2>2
<1>5. CASE Departs(t)
  <2>1. \/ member'[o][a] = member[o][a]
        \/ /\ member[o][a] # NoMember
           /\ member'[o][a] = Member(member[o][a].role, "left")
    BY <1>5, DepartsRows
  <2>2. Member(member[o][a].role, "left") # NoMember
    BY DEF Member, NoMember
  <2> QED
    BY <2>1, <2>2
<1> QED
  BY <1>2, <1>3, <1>4, <1>5, TableKinds

\* Who comes from the organization's lock to the write has been let through.
LEMMA DecisionTaken ==
    ASSUME TypeOK, CourseOK, NEW t \in Tx, Step(t),
           pc[t] = "lock_organization", pc'[t] = "write",
           call[t].op \in {"suspend_member", "change_member_role"}
    PROVE  \/ call[t].op = "suspend_member" /\ SuspendMemberRefusal(t) = "none"
           \/ call[t].op = "change_member_role" /\ ChangeMemberRoleRefusal(t) = "none"
<1>1. ~TakeLock(t)
  BY DEF TakeLock
<1>2. ASSUME NEW r, Rollback(t, r) PROVE FALSE
  BY <1>2 DEF Rollback, End, TypeOK, ControlTypeOK
<1>3. ~DeadlockAbort(t)
  BY <1>2 DEF DeadlockAbort
<1>4. ~LockOrganization(t) /\ ~LeavingStep(t)
  BY DEF LockOrganization, LeavingStep, LeaveActor, LeaveChecks, LeaveTeams, LeaveAudit,
         LeaveChannels, LeaveCommit, At
<1>5. ~TeamsStep(t) /\ ~ChannelsStep(t)
  BY DEF TeamsStep, CreateTeam, AddTeamMember, InsertTeamMember, WriteTeamMembership,
         ChangeTeamMemberRole, WriteTeamRole, RemoveTeamMember, WriteTeamRemoval,
         ChannelsStep, CreateChannel, WriteChannel, AddChannelMember, WriteChannelMember, At
<1>6. SuspendMember(t) \/ ChangeMemberRole(t)
  BY <1>1, <1>3, <1>4, <1>5
     DEF Step, MembershipStep, CreateOrganization, InsertOrganization, WriteMemberRole,
         WriteSuspension, ReactivateMember, WriteReactivation, At
<1>7. CASE SuspendMember(t)
  BY <1>2, <1>7 DEF SuspendMember, Decide, At
<1>8. CASE ChangeMemberRole(t)
  BY <1>2, <1>8 DEF ChangeMemberRole, Decide, At
<1> QED
  BY <1>6, <1>7, <1>8

\* What it was let through for: the target is there, and is not the last owner.
LEMMA DecisionMeans ==
    ASSUME TypeOK, CourseOK, NEW t \in Tx, Step(t),
           pc[t] = "lock_organization", pc'[t] = "write",
           call[t].op \in {"suspend_member", "change_member_role"}
    PROVE  /\ member[call[t].org][call[t].who] # NoMember
           /\ (/\ ActiveOwner(call[t].org, call[t].who)
               /\ call[t].op = "change_member_role" => call[t].role # "owner")
                  => OtherOwner(call[t].org, call[t].who)
<1>1. /\ Target(t) # NoMember
      /\ (/\ Target(t) = Member("owner", "active")
          /\ call[t].op = "change_member_role" => call[t].role # "owner") => ~LastOwner(t)
  <2>1. CASE call[t].op = "suspend_member" /\ SuspendMemberRefusal(t) = "none"
    BY <2>1 DEF SuspendMemberRefusal, Member
  <2>2. CASE call[t].op = "change_member_role" /\ ChangeMemberRoleRefusal(t) = "none"
    BY <2>2 DEF ChangeMemberRoleRefusal, NoMember
  <2> QED
    BY <2>1, <2>2, DecisionTaken
<1>2. Target(t) = member[call[t].org][call[t].who]
  BY <1>1 DEF Target, MemberSeen
<1>3. ~LastOwner(t) => OtherOwner(call[t].org, call[t].who)
  <2>1. ASSUME NEW b \in Actors,
               MemberSeen(call[t].by, call[t].org, b) = Member("owner", "active")
        PROVE  ActiveOwner(call[t].org, b)
    BY <2>1 DEF MemberSeen, ActiveOwner, NoMember, Member
  <2> QED
    BY <2>1 DEF LastOwner, check_owner_change, active_owners, OtherOwner
<1> QED
  BY <1>1, <1>2, <1>3 DEF ActiveOwner

\* Every step leaves an organization being founded without member rows.
LEMMA FoundingFreshStep ==
    ASSUME OwnerInvariant, NEW t \in Tx, Begin(t) \/ Step(t) \/ Cancel(t)
    PROVE  FoundingFresh'
<1>1. TypeOK /\ CourseOK /\ FoundingFresh
  BY DEF OwnerInvariant
<1>2. Begin(t) \/ TakeLock(t) \/ Ends(t) \/ MovesOn(t)
  BY <1>1, StepKinds
<1>3. ASSUME NEW o \in Orgs, NEW a \in Actors, member'[o][a] # NoMember
      PROVE  slug'[o] # 0
  <2>1. CASE Founds(t)
    BY <1>1, <1>3, <2>1, FoundsRows DEF FoundingFresh
  <2>2. CASE ~Founds(t)
    <3>1. slug' = slug
      BY <1>1, <2>2, TableKinds DEF ownerTables, WritesMember, Departs
    <3> QED
      BY <1>1, <1>3, <2>2, <3>1, RowsStay DEF FoundingFresh
  <2> QED
    BY <2>1, <2>2
<1>4. Begin(t) \/ call' = call
  BY <1>1, <1>2 DEF TakeLock, Ends, End, MovesOn, Advances, ToSlug, ToOrganization,
                    ToOrganizations, ToLoop, Loops, Moves
<1>5. ASSUME Begin(t)
      PROVE  \E c \in Requests : /\ Fresh(c) /\ call' = [call EXCEPT ![t] = c]
                                /\ UNCHANGED member
  BY <1>5 DEF Begin, tables
<1>6. ASSUME NEW u \in Tx, NEW v \in Tx, u # v, call'[u].op = "create_organization",
             call'[v].op = "create_organization"
      PROVE  call'[u].org # call'[v].org
  <2>1. CASE call' = call
    BY <1>1, <1>6, <2>1 DEF FoundingFresh
  <2>2. CASE Begin(t)
    <3>1. PICK c \in Requests : Fresh(c) /\ call' = [call EXCEPT ![t] = c]
      BY <1>5, <2>2
    <3>2. call'[t] = c /\ \A w \in Tx : w # t => call'[w] = call[w]
      BY <1>1, <3>1 DEF TypeOK, ControlTypeOK
    <3>3. c.op = "create_organization" =>
              \A w \in Tx : call[w].op = "create_organization" => call[w].org # c.org
      BY <3>1 DEF Fresh
    <3> QED
      BY <1>1, <1>6, <3>2, <3>3 DEF FoundingFresh
  <2> QED
    BY <1>4, <2>1, <2>2
<1>7. ASSUME NEW u \in Tx, pc'[u] \in {"lock_actor", "insert"},
             call'[u].op = "create_organization", NEW a \in Actors
      PROVE  member'[call'[u].org][a] = NoMember
  <2>1. CASE u = t /\ Begin(t)
    <3>1. PICK c \in Requests : /\ Fresh(c) /\ call' = [call EXCEPT ![t] = c]
                                /\ UNCHANGED member
      BY <1>5, <2>1
    <3>2. call'[t] = c
      BY <1>1, <3>1 DEF TypeOK, ControlTypeOK
    <3>3. slug[c.org] = 0 /\ c.org \in Orgs
      BY <1>7, <2>1, <3>1, <3>2, RequestsAssumption, CallFacts DEF Fresh
    <3> QED
      BY <1>1, <2>1, <3>1, <3>2, <3>3 DEF FoundingFresh
  <2>2. CASE ~(u = t /\ Begin(t))
    <3>1. /\ call'[u] = call[u] /\ pc[u] \in {"lock_actor", "insert"}
          /\ u = t => ~Founds(t)
      <4>1. CASE u # t
        BY <1>1, <1>2, <1>7, <4>1, OthersUnchanged
      <4>2. CASE u = t
        <5>1. call' = call /\ ~Ends(t)
          BY <1>1, <1>4, <1>7, <2>2, <4>2 DEF Ends, End, TypeOK, ControlTypeOK
        <5>2. CASE TakeLock(t)
          BY <1>7, <4>2, <5>1, <5>2 DEF TakeLock, Founds
        <5>3. CASE MovesOn(t)
          BY <1>1, <1>7, <4>2, <5>1, <5>3
             DEF MovesOn, Advances, ToSlug, ToOrganization, ToOrganizations, ToLoop, Loops,
                 Moves, CourseOK, TypeOK, ControlTypeOK, Founds
        <5> QED
          BY <1>2, <2>2, <4>2, <5>1, <5>2, <5>3
      <4> QED
        BY <4>1, <4>2
    <3>2. member[call[u].org][a] = NoMember /\ call[u].org \in Orgs
      BY <1>1, <1>7, <3>1, CallRows DEF FoundingFresh
    <3>3. CASE Founds(t)
      <4>1. call[t].org # call[u].org
        BY <1>1, <1>7, <3>1, <3>3 DEF FoundingFresh, Founds
      <4> QED
        BY <1>1, <3>1, <3>2, <3>3, <4>1, FoundsRows
    <3>4. CASE ~Founds(t)
      BY <1>1, <3>1, <3>2, <3>4, RowsStay
    <3> QED
      BY <3>3, <3>4
  <2> QED
    BY <2>1, <2>2
<1>8. ASSUME NEW u \in Tx, pc'[u] = "write",
             call'[u].op \in {"suspend_member", "change_member_role"}
      PROVE  member'[call'[u].org][call'[u].who] # NoMember
  <2>1. call'[u] = call[u] /\ pc[u] # "idle"
    <3>1. CASE u # t
      BY <1>1, <1>2, <1>8, <3>1, OthersUnchanged
    <3>2. CASE u = t
      <4>1. ~Begin(t)
        BY <1>1, <1>8, <3>2 DEF Begin, TypeOK, ControlTypeOK
      <4>2. CASE TakeLock(t)
        BY <1>8, <3>2, <4>2 DEF TakeLock
      <4> QED
        BY <1>4, <3>2, <4>1, <4>2, StepStarted
    <3> QED
      BY <3>1, <3>2
  <2>2. call[u].org \in Orgs /\ call[u].who \in Actors
    BY <1>1, <1>8, <2>1, CallFacts DEF CourseOK, WithTarget
  <2>3. member[call[u].org][call[u].who] # NoMember
    <3>1. CASE pc[u] = "write"
      BY <1>1, <1>8, <2>1, <3>1 DEF FoundingFresh
    <3>2. CASE pc[u] # "write"
      <4>1. u = t
        BY <1>1, <1>2, <1>8, <3>2, OthersUnchanged
      <4>2. MovesOn(t)
        BY <1>1, <1>2, <1>8, <3>2, <4>1
           DEF Begin, TakeLock, Ends, End, TypeOK, ControlTypeOK
      <4>3. pc[t] = "lock_organization"
        BY <1>1, <1>8, <2>1, <4>1, <4>2
           DEF MovesOn, Advances, ToSlug, ToOrganization, ToOrganizations, ToLoop, Loops,
               Moves, TypeOK, ControlTypeOK
      <4>4. Step(t)
        BY <1>1, <1>8, <4>1, <4>3
           DEF Begin, Cancel, Rollback, End, TypeOK, ControlTypeOK
      <4> QED
        BY <1>1, <1>8, <2>1, <4>1, <4>3, <4>4, DecisionMeans
    <3> QED
      BY <3>1, <3>2
  <2> QED
    BY <1>1, <2>1, <2>2, <2>3, RowsStay
<1> QED
  BY <1>3, <1>6, <1>7, <1>8 DEF FoundingFresh

(***************************************************************************)
(* While u holds an organization for update nobody else takes an owner     *)
(* away there, nor makes one of a member: who writes a membership holds    *)
(* the organization, and so does who departs from it as an active owner.   *)
(***************************************************************************)
LEMMA OwnersStand ==
    ASSUME OwnerInvariant, NEW t \in Tx, Begin(t) \/ Step(t) \/ Cancel(t),
           NEW u \in Tx, u # t, NEW o \in Orgs, held[u][OrgRow(o)] >= Update, Sighted(o)',
           NEW a \in Actors
    PROVE  /\ ActiveOwner(o, a) => ActiveOwner(o, a)'
           /\ member[o][a] # NoMember /\ ActiveOwner(o, a)' => ActiveOwner(o, a)
<1>1. /\ TypeOK /\ CourseOK /\ LocksExclude /\ OrganizationLocked /\ FoundingFresh
      /\ LeaverOrganizationsLocked /\ OrgRow(o) \in Rows /\ Sighted(o)
  BY SightKept, RowFacts DEF OwnerInvariant
<1>2. ~(held[t][OrgRow(o)] >= Update)
  <2>1. held[t][OrgRow(o)] \in 0 .. Update
    BY <1>1 DEF TypeOK, LocksTypeOK
  <2>2. held[t][OrgRow(o)] >= Update => held[t][OrgRow(o)] >= KeyShare
    BY <2>1 DEF Update, KeyShare
  <2> QED
    BY <1>1, <2>2, OneUpdater
<1>3. CASE UNCHANGED ownerTables
  BY <1>3 DEF ownerTables, ActiveOwner
<1>4. CASE Founds(t)
  <2>1. member[call[t].org][a] = NoMember
    BY <1>1, <1>4 DEF FoundingFresh, Founds
  <2> QED
    BY <1>1, <1>4, <2>1, FoundsRows DEF ActiveOwner
<1>5. CASE WritesMember(t)
  <2>1. held[t][OrgRow(call[t].org)] >= Update
    BY <1>1, <1>5 DEF OrganizationLocked, WritesMember
  <2> QED
    BY <1>1, <1>2, <1>5, <2>1, WritesRows DEF ActiveOwner
<1>6. CASE Departs(t)
  <2>1. Leaving(t) /\ pc[t] # "leave_orgs"
    BY <1>6 DEF Departs, Leaving
  <2>2. o \notin loc[t].orgs
    BY <1>1, <1>2, <2>1 DEF LeaverOrganizationsLocked
  <2>3. member[o][call[t].by].status # "active"
    BY <1>1, <2>1, <2>2, CallRows DEF LeaverOrganizationsLocked, Sighted, Leaving
  <2>4. CASE a = call[t].by
    <3>1. \/ member'[o][a] = member[o][a]
          \/ member'[o][a] = Member(member[o][a].role, "left")
      BY <1>1, <1>6, DepartsRows
    <3> QED
      BY <2>3, <2>4, <3>1 DEF ActiveOwner, Member
  <2>5. CASE a # call[t].by
    BY <1>1, <1>6, <2>5, DepartsRows DEF ActiveOwner
  <2> QED
    BY <2>4, <2>5
<1> QED
  BY <1>1, <1>3, <1>4, <1>5, <1>6, TableKinds

\* A decision of suspend_member or change_member_role.
LEMMA MemberDecisionStep ==
    ASSUME OwnerInvariant, NEW t \in Tx, Begin(t) \/ Step(t) \/ Cancel(t), NEW u \in Tx,
           pc'[u] = "write",
           \/ call'[u].op = "suspend_member"
           \/ call'[u].op = "change_member_role" /\ call'[u].role # "owner",
           Sighted(call[u].org)', ActiveOwner(call[u].org, call[u].who)'
    PROVE  OtherOwner(call[u].org, call[u].who)'
<1>1. /\ TypeOK /\ CourseOK /\ OrganizationLocked /\ OwnerDecisionStands /\ FoundingFresh
  BY DEF OwnerInvariant
<1>2. Begin(t) \/ TakeLock(t) \/ Ends(t) \/ MovesOn(t)
  BY <1>1, StepKinds
<1>3. CASE u # t
  <2>1. call'[u] = call[u] /\ pc[u] = "write"
    BY <1>1, <1>2, <1>3, OthersUnchanged
  <2>2. PICK o \in Orgs, a \in Actors : o = call[u].org /\ a = call[u].who
    BY <1>1, <2>1, CallFacts DEF CourseOK, WithTarget
  <2>3. held[u][OrgRow(o)] >= Update /\ member[o][a] # NoMember
    BY <1>1, <2>1, <2>2 DEF OrganizationLocked, FoundingFresh
  <2>4. Sighted(o)' /\ ActiveOwner(o, a)'
    BY <2>1, <2>2 DEF Sighted, ActiveOwner
  <2>5. Sighted(o)
    BY <1>1, <2>4, SightKept
  <2>6. ActiveOwner(o, a)
    BY <1>3, <2>3, <2>4, OwnersStand
  <2>7. OtherOwner(o, a)
    BY <1>1, <2>1, <2>2, <2>5, <2>6 DEF OwnerDecisionStands
  <2>8. PICK b \in Actors : b # a /\ ActiveOwner(o, b)
    BY <2>7 DEF OtherOwner
  <2>9. ActiveOwner(o, b)'
    BY <1>3, <2>3, <2>4, <2>8, OwnersStand
  <2> QED
    BY <2>1, <2>2, <2>8, <2>9 DEF OtherOwner, ActiveOwner
<1>4. CASE u = t /\ TakeLock(t)
  <2>1. pc' = pc /\ call' = call /\ member' = member /\ blind' = blind
    BY <1>4 DEF TakeLock, tables
  <2> QED
    BY <1>1, <2>1 DEF OwnerDecisionStands, OtherOwner, ActiveOwner, Sighted
<1>5. CASE u = t /\ MovesOn(t)
  <2>1. call' = call /\ member' = member
    BY <1>5 DEF MovesOn, Advances, ToSlug, ToOrganization, ToOrganizations, ToLoop, Loops,
                Moves, tables
  <2>2. pc[t] = "lock_organization"
    BY <1>1, <1>5, <2>1
       DEF MovesOn, Advances, ToSlug, ToOrganization, ToOrganizations, ToLoop, Loops,
           Moves, TypeOK, ControlTypeOK
  <2>3. Step(t)
    BY <1>1, <1>5, <2>2 DEF Begin, Cancel, Rollback, End, TypeOK, ControlTypeOK
  <2>4. ActiveOwner(call[t].org, call[t].who)
    BY <1>5, <2>1 DEF ActiveOwner
  <2>5. OtherOwner(call[t].org, call[t].who)
    BY <1>1, <1>5, <2>1, <2>2, <2>3, <2>4, DecisionMeans
  <2> QED
    BY <1>5, <2>1, <2>5 DEF OtherOwner, ActiveOwner
<1>6. CASE u = t /\ (Begin(t) \/ Ends(t))
  BY <1>1, <1>6 DEF Begin, Ends, End, TypeOK, ControlTypeOK
<1> QED
  BY <1>2, <1>3, <1>4, <1>5, <1>6

\* The decision of leave_service, in each organization it has locked.
LEMMA LeaverDecisionStep ==
    ASSUME OwnerInvariant, NEW t \in Tx, Begin(t) \/ Step(t) \/ Cancel(t), NEW u \in Tx,
           pc'[u] \in {"leave_next", "leave_audit"}, NEW o \in Orgs, o \in loc'[u].orgs,
           Sighted(o)'
    PROVE  OtherOwner(o, call[u].by)'
<1>1. /\ TypeOK /\ CourseOK /\ OwnerDecisionStands /\ LeaverOrganizationsLocked /\ Sighted(o)
  BY SightKept DEF OwnerInvariant
<1>2. Begin(t) \/ TakeLock(t) \/ Ends(t) \/ MovesOn(t)
  BY <1>1, StepKinds
<1>3. CASE u # t
  <2>1. call'[u] = call[u] /\ pc[u] = pc'[u] /\ loc'[u] = loc[u]
    BY <1>1, <1>2, <1>3, OthersUnchanged
  <2>2. held[u][OrgRow(o)] >= Update
    BY <1>1, <2>1 DEF LeaverOrganizationsLocked, Leaving
  <2>3. PICK b \in Actors : b # call[u].by /\ ActiveOwner(o, b)
    BY <1>1, <2>1 DEF OwnerDecisionStands, OtherOwner
  <2>4. ActiveOwner(o, b)'
    BY <1>3, <2>2, <2>3, OwnersStand
  <2> QED
    BY <2>1, <2>3, <2>4 DEF OtherOwner, ActiveOwner
<1>4. CASE u = t /\ TakeLock(t)
  <2>1. pc' = pc /\ call' = call /\ member' = member /\ loc' = loc
    BY <1>4 DEF TakeLock, tables
  <2> QED
    BY <1>1, <2>1 DEF OwnerDecisionStands, OtherOwner, ActiveOwner
<1>5. CASE u = t /\ Loops(t)
  <2>1. /\ call' = call /\ member' = member /\ loc'[t].orgs = loc[t].orgs
        /\ pc[t] \in {"leave_next", "leave_audit"}
    BY <1>5 DEF Loops, Moves, Steady, tables
  <2> QED
    BY <1>1, <1>5, <2>1 DEF OwnerDecisionStands, OtherOwner, ActiveOwner
<1>6. CASE u = t /\ ToLoop(t)
  <2>1. /\ call' = call /\ member' = member /\ loc'[t].orgs = loc[t].orgs
        /\ ~LeaveLastOwner(t)
    BY <1>6 DEF ToLoop, Moves, Steady, tables
  <2>2. PICK b \in Actors : /\ b # call[t].by
                            /\ MemberSeen(call[t].by, o, b) = Member("owner", "active")
    BY <1>6, <2>1 DEF LeaveLastOwner, check_owner_change, active_owners, Leaver
  <2>3. ActiveOwner(o, b)
    BY <2>2 DEF MemberSeen, ActiveOwner, NoMember, Member
  <2> QED
    BY <1>6, <2>1, <2>2, <2>3 DEF OtherOwner, ActiveOwner
<1>7. CASE u = t /\ (ToOrganization(t) \/ ToSlug(t) \/ Advances(t) \/ ToOrganizations(t))
  BY <1>1, <1>7
     DEF ToOrganization, ToSlug, Advances, ToOrganizations, Moves, TypeOK, ControlTypeOK
<1>8. CASE u = t /\ (Begin(t) \/ Ends(t))
  BY <1>1, <1>8 DEF Begin, Ends, End, TypeOK, ControlTypeOK
<1> QED
  BY <1>2, <1>3, <1>4, <1>5, <1>6, <1>7, <1>8 DEF MovesOn

\* What check_owner_change found stays so, for both kinds of decision.
LEMMA DecisionStep ==
    ASSUME OwnerInvariant, NEW t \in Tx, Begin(t) \/ Step(t) \/ Cancel(t)
    PROVE  OwnerDecisionStands'
<1>1. TypeOK'
  BY TypeStep DEF OwnerInvariant
<1>2. ASSUME NEW u \in Tx PROVE loc'[u].orgs \subseteq Orgs
  BY <1>1 DEF TypeOK, ControlTypeOK, Locals
<1> QED
  BY <1>2, MemberDecisionStep, LeaverDecisionStep DEF OwnerDecisionStands

----------------------------------------------------------------------------
(* The rule.                                                               *)

\* No step takes the last active owner from a sighted organization.
LEMMA OwnerKeptStep ==
    ASSUME OwnerInvariant, NEW t \in Tx, Begin(t) \/ Step(t) \/ Cancel(t)
    PROVE  OwnerKeptUnlessBlind'
<1>1. /\ TypeOK /\ CourseOK /\ OwnerKeptUnlessBlind /\ OwnerDecisionStands
      /\ LeaverOrganizationsLocked
  BY DEF OwnerInvariant
<1>2. SUFFICES ASSUME NEW o \in Orgs, slug'[o] # 0, Sighted(o)'
               PROVE  \E a \in Actors : ActiveOwner(o, a)'
  BY DEF OwnerKeptUnlessBlind, Sighted
<1>3. Sighted(o)
  BY <1>1, <1>2, SightKept
<1>4. slug[o] # 0 => \E a \in Actors : ActiveOwner(o, a)
  BY <1>1, <1>3 DEF OwnerKeptUnlessBlind, Sighted
<1>5. CASE UNCHANGED ownerTables
  BY <1>2, <1>4, <1>5 DEF ownerTables, ActiveOwner
<1>6. CASE Founds(t)
  <2>1. CASE o = call[t].org
    <3>1. call[t].by \in Actors
      BY <1>1, <1>6, CallRows DEF Founds
    <3>2. member'[o][call[t].by] = Member("owner", "active")
      BY <1>1, <1>6, <2>1, <3>1, FoundsRows
    <3> QED
      BY <3>1, <3>2 DEF ActiveOwner
  <2>2. CASE o # call[t].org
    <3>1. slug[o] # 0
      <4>1. call[t].org \in Orgs /\ slug' = [slug EXCEPT ![call[t].org] = call[t].name]
        BY <1>1, <1>6, CallRows DEF Founds
      <4> QED
        BY <1>1, <1>2, <2>2, <4>1 DEF TypeOK, TablesTypeOK
    <3>2. PICK a \in Actors : ActiveOwner(o, a)
      BY <1>4, <3>1
    <3> QED
      BY <1>1, <1>6, <2>2, <3>2, FoundsRows DEF ActiveOwner
  <2> QED
    BY <2>1, <2>2
<1>7. CASE WritesMember(t)
  <2>1. PICK a \in Actors : ActiveOwner(o, a)
    BY <1>2, <1>4, <1>7 DEF WritesMember
  <2>2. CASE ~(o = call[t].org /\ a = call[t].who)
    BY <1>1, <1>7, <2>1, <2>2, WritesRows DEF ActiveOwner
  <2>3. CASE o = call[t].org /\ a = call[t].who
    <3>1. member'[o][a] = SetColumns(member[o][a], NewRole(call[t]), NewStatus(call[t]))
      BY <1>1, <1>7, <2>3, WritesRows
    <3>2. CASE \/ call[t].op = "reactivate_member"
               \/ call[t].op = "change_member_role" /\ call[t].role = "owner"
      BY <2>1, <2>3, <3>1, <3>2
         DEF ActiveOwner, SetColumns, NewRole, NewStatus, Member, NoMember
    <3>3. CASE \/ call[t].op = "suspend_member"
               \/ call[t].op = "change_member_role" /\ call[t].role # "owner"
      <4>1. OtherOwner(o, a)
        BY <1>1, <1>3, <1>7, <2>1, <2>3, <3>3 DEF OwnerDecisionStands, WritesMember
      <4>2. PICK b \in Actors : b # a /\ ActiveOwner(o, b)
        BY <4>1 DEF OtherOwner
      <4> QED
        BY <1>1, <1>7, <2>3, <4>2, WritesRows DEF ActiveOwner
    <3> QED
      BY <1>7, <3>2, <3>3 DEF WritesMember
  <2> QED
    BY <2>2, <2>3
<1>8. CASE Departs(t)
  <2>1. PICK a \in Actors : ActiveOwner(o, a)
    BY <1>2, <1>4, <1>8 DEF Departs
  <2>2. CASE a # call[t].by
    BY <1>1, <1>8, <2>1, <2>2, DepartsRows DEF ActiveOwner
  <2>3. CASE a = call[t].by
    <3>1. Leaving(t) /\ pc[t] = "leave_next" /\ member[o][call[t].by].status = "active"
      BY <1>8, <2>1, <2>3 DEF Departs, Leaving, ActiveOwner, Member
    <3>2. o \in loc[t].orgs
      BY <1>1, <1>3, <2>3, <3>1 DEF LeaverOrganizationsLocked, Sighted
    <3>3. PICK b \in Actors : b # call[t].by /\ ActiveOwner(o, b)
      BY <1>1, <1>3, <3>1, <3>2 DEF OwnerDecisionStands, OtherOwner
    <3> QED
      BY <1>1, <1>8, <3>3, DepartsRows DEF ActiveOwner
  <2> QED
    BY <2>2, <2>3
<1> QED
  BY <1>1, <1>5, <1>6, <1>7, <1>8, TableKinds

\* Every initial state satisfies the inductive invariant.
LEMMA OwnerInvariantInit ==
    ASSUME StoreInit
    PROVE  OwnerInvariant
<1>1. PICK db \in Initial : actor = db.actor /\ slug = db.slug /\ member = db.member
  BY DEF StoreInit
<1>2. Sound(db)
  BY InitialAssumption
<1>3. pc = [t \in Tx |-> "idle"] /\ call = [t \in Tx |-> NoCall]
  BY DEF StoreInit
<1>4. TypeOK
  BY InitTyped
<1>5. CourseOK /\ OrganizationLocked /\ SubjectLocked
  BY <1>3 DEF CourseOK, OrganizationLocked, SubjectLocked
<1>6. LeaverLocked /\ LeaverOrganizationsLocked /\ OwnerDecisionStands
  BY <1>3 DEF LeaverLocked, LeaverOrganizationsLocked, OwnerDecisionStands, Leaving
<1>7. LocksExclude
  BY DEF StoreInit, LocksExclude, NoLocks, Conflict
<1>8. FoundingFresh
  BY <1>1, <1>2, <1>3 DEF FoundingFresh, Sound, NoCall
<1>9. OwnerKeptUnlessBlind
  BY <1>1, <1>2 DEF OwnerKeptUnlessBlind, Sound, ActiveOwner
<1> QED
  BY <1>4, <1>5, <1>6, <1>7, <1>8, <1>9 DEF OwnerInvariant

\* Every step preserves the inductive invariant.
LEMMA OwnerInvariantStep ==
    ASSUME OwnerInvariant, [Next]_vars
    PROVE  OwnerInvariant'
<1>1. CASE UNCHANGED vars
  <2>1. TypeOK' /\ CourseOK' /\ LocksExclude'
    BY <1>1 DEF vars, tables, locks, TypeOK, LocksTypeOK, TablesTypeOK, ControlTypeOK,
                CourseOK, LocksExclude, OwnerInvariant
  <2>2. FoundingFresh' /\ OrganizationLocked' /\ SubjectLocked'
    BY <1>1 DEF vars, tables, locks, FoundingFresh, OrganizationLocked, SubjectLocked,
                Claims, OwnerInvariant
  <2>3. LeaverLocked' /\ LeaverOrganizationsLocked'
    BY <1>1 DEF vars, tables, locks, LeaverLocked, LeaverOrganizationsLocked, Claims,
                Leaving, Sighted, OwnerInvariant
  <2>4. OwnerDecisionStands' /\ OwnerKeptUnlessBlind'
    BY <1>1 DEF vars, tables, locks, OwnerDecisionStands, OwnerKeptUnlessBlind,
                OtherOwner, ActiveOwner, Sighted, OwnerInvariant
  <2> QED
    BY <2>1, <2>2, <2>3, <2>4 DEF OwnerInvariant
<1>2. CASE Next
  <2>1. PICK t \in Tx : Begin(t) \/ Step(t) \/ Cancel(t)
    BY <1>2 DEF Next
  <2>2. TypeOK' /\ CourseOK' /\ LocksExclude'
    BY <2>1, TypeStep, CourseStep, ExclusionStep DEF OwnerInvariant
  <2> QED
    BY <2>1, <2>2, FoundingFreshStep, OrganizationLockedStep, SubjectLockedStep,
       LeaverLockedStep, LeaverOrganizationsStep, DecisionStep, OwnerKeptStep
       DEF OwnerInvariant
<1> QED
  BY <1>1, <1>2

(***************************************************************************)
(* The owner rule of invariants.md, for any number of transactions, actors *)
(* and organizations: demotions, suspensions, reactivations, departures    *)
(* and foundings, in any interleaving, leave every organization an active  *)
(* owner, unless a membership in it was reactivated by a performer whose   *)
(* lock_actor statement did not see the actor (membership.rs:117-126).     *)
(***************************************************************************)
THEOREM OwnerRuleHolds == Spec => []OwnerKeptUnlessBlind
<1>1. StoreInit => OwnerInvariant
  BY OwnerInvariantInit
<1>2. OwnerInvariant /\ [Next]_vars => OwnerInvariant'
  BY OwnerInvariantStep
<1>3. OwnerInvariant => OwnerKeptUnlessBlind
  BY DEF OwnerInvariant
<1> QED
  BY <1>1, <1>2, <1>3, PTL DEF Spec
===============================================================================
