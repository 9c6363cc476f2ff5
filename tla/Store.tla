-------------------------------- MODULE Store ---------------------------------
(***************************************************************************)
(* The tenant tables, what row security shows an actor of them, and the    *)
(* course every operation of crates/db/src/operations takes: begin a       *)
(* transaction in the actor's context, lock actors, lock the organization, *)
(* read, write, commit.                                                    *)
(*                                                                         *)
(* Transactions run at READ COMMITTED: each statement reads the tables as  *)
(* committed when it starts, and what a transaction writes appears in the  *)
(* tables when it commits.                                                 *)
(***************************************************************************)
EXTENDS Audit

CONSTANTS
    Requests,   \* the calls a run may make
    Initial,    \* the databases a run may start from
    Malformed,  \* names that a CHECK constraint refuses
    Unreliable  \* the transactions whose client may go away

VARIABLES
    actor,          \* actors: "absent", "live" (deleted_at IS NULL) or "departed"
    users,          \* users: the actors that have one
    slug,           \* organizations: the slug of each, 0 where there is none
    member,         \* organization_members: role and status
    team,           \* teams: the organization of each, 0 where there is none
    teamMember,     \* team_members: the role, "none" where there is no row
    channel,        \* channels: organization, team (0: organization scope), name
    channelMember,  \* channel_members: the actors listed in each channel
    trail,          \* audit_events, as the reader of Audit.tla understands them
    blind,          \* history: memberships reactivated with the actor not locked
    pc,             \* where each transaction is
    call,           \* the operation it runs
    loc,            \* the local variables of the operation
    result          \* what the caller got

tables == <<actor, users, slug, member, team, teamMember, channel, channelMember, trail>>
locks == <<held, todo>>
vars == <<tables, blind, locks, pc, call, loc, result>>

AbsentChannel == [org |-> 0, team |-> 0, name |-> 0]

(***************************************************************************)
(* The calls.  A new row's UUID is part of the call that creates it.       *)
(***************************************************************************)
NoCall == [op |-> "none", by |-> 0, org |-> 0, who |-> 0, role |-> "none",
           team |-> 0, channel |-> 0, name |-> 0]

create_organization(by, o, n) ==
    [NoCall EXCEPT !.op = "create_organization", !.by = by, !.org = o, !.name = n]
change_member_role(by, o, a, role) ==
    [NoCall EXCEPT !.op = "change_member_role", !.by = by, !.org = o, !.who = a,
                   !.role = role]
suspend_member(by, o, a) ==
    [NoCall EXCEPT !.op = "suspend_member", !.by = by, !.org = o, !.who = a]
reactivate_member(by, o, a) ==
    [NoCall EXCEPT !.op = "reactivate_member", !.by = by, !.org = o, !.who = a]
leave_service(a) ==
    [NoCall EXCEPT !.op = "leave_service", !.by = a, !.who = a]
create_team(by, o, tm) ==
    [NoCall EXCEPT !.op = "create_team", !.by = by, !.org = o, !.team = tm]
add_team_member(by, o, tm, a, role) ==
    [NoCall EXCEPT !.op = "add_team_member", !.by = by, !.org = o, !.who = a,
                   !.team = tm, !.role = role]
change_team_member_role(by, o, tm, a, role) ==
    [NoCall EXCEPT !.op = "change_team_member_role", !.by = by, !.org = o, !.who = a,
                   !.team = tm, !.role = role]
remove_team_member(by, o, tm, a) ==
    [NoCall EXCEPT !.op = "remove_team_member", !.by = by, !.org = o, !.who = a,
                   !.team = tm]
create_channel(by, o, ch, tm, n) ==
    [NoCall EXCEPT !.op = "create_channel", !.by = by, !.org = o, !.channel = ch,
                   !.team = tm, !.name = n]
add_channel_member(by, o, ch, a) ==
    [NoCall EXCEPT !.op = "add_channel_member", !.by = by, !.org = o, !.who = a,
                   !.channel = ch]

Calls ==
    {create_organization(by, o, n) : by \in Actors, o \in Orgs, n \in Names}
    \cup {change_member_role(by, o, a, role) :
              by \in Actors, o \in Orgs, a \in Actors, role \in OrganizationRoles}
    \cup {suspend_member(by, o, a) : by \in Actors, o \in Orgs, a \in Actors}
    \cup {reactivate_member(by, o, a) : by \in Actors, o \in Orgs, a \in Actors}
    \cup {leave_service(a) : a \in Actors}
    \cup {create_team(by, o, tm) : by \in Actors, o \in Orgs, tm \in Teams}
    \cup {add_team_member(by, o, tm, a, role) :
              by \in Actors, o \in Orgs, tm \in Teams, a \in Actors, role \in TeamRoles}
    \cup {change_team_member_role(by, o, tm, a, role) :
              by \in Actors, o \in Orgs, tm \in Teams, a \in Actors, role \in TeamRoles}
    \cup {remove_team_member(by, o, tm, a) :
              by \in Actors, o \in Orgs, tm \in Teams, a \in Actors}
    \cup {create_channel(by, o, ch, tm, n) :
              by \in Actors, o \in Orgs, ch \in Channels, tm \in Teams \cup {0}, n \in Names}
    \cup {add_channel_member(by, o, ch, a) :
              by \in Actors, o \in Orgs, ch \in Channels, a \in Actors}

(***************************************************************************)
(* A database is sound when its rows fit together: keys resolve and unique *)
(* keys are, an actor that left has nothing left, and every organization   *)
(* has an active owner.                                                    *)
(***************************************************************************)
Databases ==
    [actor : [Actors -> {"absent", "live", "departed"}], users : SUBSET Actors,
     slug : [Orgs -> Names \cup {0}], member : [Orgs -> [Actors -> MemberRows]],
     team : [Teams -> Orgs \cup {0}],
     teamMember : [Teams -> [Actors -> TeamRoles \cup {"none"}]],
     channel : [Channels -> [org : Orgs \cup {0}, team : Teams \cup {0},
                             name : Names \cup {0}]],
     channelMember : [Channels -> SUBSET Actors]]

Sound(db) ==
    /\ \A o \in Orgs, a \in Actors : db.member[o][a] # NoMember =>
           /\ db.slug[o] # 0 /\ db.actor[a] # "absent"
           /\ (db.member[o][a].status = "left") <=> (db.actor[a] = "departed")
    /\ \A o \in Orgs : db.slug[o] # 0 =>
           \E a \in Actors : db.member[o][a] = Member("owner", "active")
    /\ \A o, p \in Orgs : db.slug[o] = db.slug[p] /\ db.slug[o] # 0 => o = p
    /\ \A tm \in Teams, a \in Actors : db.teamMember[tm][a] # "none" =>
           /\ db.team[tm] # 0
           /\ db.member[db.team[tm]][a].status \in {"active", "suspended"}
    /\ \A ch \in Channels, a \in Actors : a \in db.channelMember[ch] =>
           db.channel[ch].team # 0 /\ db.actor[a] = "live"
    /\ \A ch \in Channels : db.channel[ch].team # 0 =>
           db.channel[ch].org # 0 /\ db.team[db.channel[ch].team] = db.channel[ch].org
    /\ \A c, d \in Channels :
           db.channel[c] = db.channel[d] /\ db.channel[c].org # 0 => c = d
    /\ \A a \in Actors : a \in db.users => db.actor[a] = "live"

ASSUME RequestsAssumption == Requests \subseteq Calls

ASSUME InitialAssumption == Initial \subseteq {db \in Databases : Sound(db)}

ASSUME MalformedAssumption == Malformed \subseteq Names

----------------------------------------------------------------------------
(* Row security (migrations): what the actor of the context sees.          *)

fukulow_active_organizations(by) == {o \in Orgs : member[o][by].status = "active"}

SeesMember(by, o, a) == o \in fukulow_active_organizations(by) \/ a = by

\* SELECT role, status FROM organization_members: NoMember when no row is seen
MemberSeen(by, o, a) == IF SeesMember(by, o, a) THEN member[o][a] ELSE NoMember

SeesActor(by, a) ==
    /\ actor[a] # "absent"
    /\ a = by \/ \E o \in fukulow_active_organizations(by) : member[o][a] # NoMember

SeesTeam(by, o, tm) == team[tm] = o /\ o \in fukulow_active_organizations(by)

SeesChannel(by, o, ch) == channel[ch].org = o /\ o \in fukulow_active_organizations(by)

TeamMemberSeen(by, o, tm, a) ==
    IF team[tm] = o /\ SeesMember(by, o, a) THEN teamMember[tm][a] ELSE "none"

active_owners(by, o) ==
    {a \in Actors : MemberSeen(by, o, a) = Member("owner", "active")}

\* Mutant of AuditAdmittedIn: no policy on audit_events.
AuditAdmittedAlways(members, listings, by, e) == TRUE

\* Mutant of AuditAdmittedIn: the policy before the migration for outside actors.
AuditAdmittedToMembers(members, listings, by, e) ==
    \/ e.org \in {o \in Orgs : members[o][by].status = "active"}
    \/ e.who = by /\ members[e.org][by] # NoMember

(***************************************************************************)
(* audit_events_insert: an inactive actor may record only its own          *)
(* departure.  The INSERT sees what its transaction wrote before it, so    *)
(* the memberships and listings are those of the transaction, which are    *)
(* not the committed ones where the operation has changed them.            *)
(***************************************************************************)
AuditAdmittedIn(members, listings, by, e) ==
    \/ e.org \in {o \in Orgs : members[o][by].status = "active"}
    \/ /\ e.who = by
       /\ \/ e.action = "organization.member.left"
          \/ /\ e.action \in {"team.member.removed", "channel.member.removed"}
             /\ e.reason = "left_service"
       /\ members[e.org][by] # NoMember
    \/ /\ e.who = by
       /\ e.action = "channel.member.removed" /\ e.reason = "left_service"
       /\ channel[e.channel].org = e.org /\ by \in listings[e.channel]

\* The transaction has written neither memberships nor listings yet.
AuditAdmitted(by, e) == AuditAdmittedIn(member, channelMember, by, e)

\* organization_members_update, WITH CHECK and the inactive-role trigger
MemberUpdateAdmitted(by, o, a, row) ==
    /\ o \in fukulow_active_organizations(by) \/ (a = by /\ row.status = "left")
    /\ ~(a = by /\ member[o][a].status # "active" /\ row.role # member[o][a].role)

\* UPDATE organization_members sets columns of a row where there is one.
SetColumns(row, role, status) ==
    IF row = NoMember THEN NoMember ELSE Member(role, status)

\* domain::check_owner_change
check_owner_change(owners, a) == \E owner \in owners : owner # a

----------------------------------------------------------------------------
(* The course of a transaction.                                            *)

NoLocals == [departed |-> "None", from |-> "none", orgs |-> {}, memberships |-> {},
             current |-> {}, rest |-> {}, listed |-> {}, removing |-> {},
             removed |-> {}, unlisted |-> {}]

Locals ==
    [departed : {"None", "Some", "Some(false)", "Some(true)"},
     from : OrganizationRoles \cup TeamRoles \cup {"none"},
     orgs : SUBSET Orgs, memberships : SUBSET Orgs, current : SUBSET Orgs,
     rest : SUBSET Orgs, listed : SUBSET Orgs, removing : SUBSET Teams,
     removed : SUBSET Teams, unlisted : SUBSET Channels]

Results == {"none", "Ok", "NotFound", "NotActive", "NotSuspended", "LastOwner",
            "ActorNotFound", "ActorDeparted", "NotAnActiveMember", "AlreadyMember",
            "InvalidSlug", "SlugTaken", "NameTaken", "OrganizationScoped",
            "Database", "Cancelled"}

\* t runs operation op and its statement at point p has returned.
At(t, p, op) == pc[t] = p /\ Returned(t) /\ call[t].op = op

\* The transaction ends: its locks are gone, the caller has r.
End(t, r) ==
    /\ pc' = [pc EXCEPT ![t] = "done"]
    /\ result' = [result EXCEPT ![t] = r]
    /\ held' = [held EXCEPT ![t] = NoLocks]
    /\ todo' = [todo EXCEPT ![t] = NoStatement]
    /\ loc' = [loc EXCEPT ![t] = NoLocals]
    /\ UNCHANGED call

\* Dropped without commit: nothing it wrote was ever seen.
Rollback(t, r) == End(t, r) /\ UNCHANGED <<tables, blind>>

\* Committed; the events it wrote reach the trail together.
Commit(t, events) == End(t, "Ok") /\ trail' = Replay(trail, events)

\* The next statement of t starts, and locks these rows in this mode.
Start(t, p, mode, rows) ==
    /\ pc' = [pc EXCEPT ![t] = p]
    /\ todo' = [todo EXCEPT ![t] = Statement(mode, rows)]
    /\ UNCHANGED <<tables, blind, held, call, result>>

\* The actor lock_actor is asked about.
Subject(c) ==
    IF c.op \in {"reactivate_member", "add_team_member", "add_channel_member"}
    THEN c.who ELSE c.by

\* Uuid::now_v7 never gives the same identifier twice.
Fresh(c) ==
    /\ c.op = "create_organization" =>
           slug[c.org] = 0 /\ \A u \in Tx : call[u].op = c.op => call[u].org # c.org
    /\ c.op = "create_team" =>
           team[c.team] = 0 /\ \A u \in Tx : call[u].op = c.op => call[u].team # c.team
    /\ c.op = "create_channel" =>
           /\ channel[c.channel].org = 0
           /\ \A u \in Tx : call[u].op = c.op => call[u].channel # c.channel

\* SELECT ... FROM actors WHERE id = $1 OR id = $2 ORDER BY id FOR SHARE
LockActorRows(c) == {a \in {Subject(c), c.by} : SeesActor(c.by, a)}

\* begin, then the first statement: lock_actor, or leave_service's own lock
Begin(t) ==
    \E c \in Requests :
        /\ pc[t] = "idle" /\ Fresh(c)
        /\ call' = [call EXCEPT ![t] = c]
        /\ IF c.op = "leave_service"
           THEN /\ todo' = [todo EXCEPT ![t] = Statement(Update,
                                {ActorRow(a) : a \in {b \in {c.by} : SeesActor(b, b)}})]
                /\ pc' = [pc EXCEPT ![t] = "leave_actor"]
                /\ UNCHANGED loc
           ELSE /\ todo' = [todo EXCEPT ![t] = Statement(Share,
                                {ActorRow(a) : a \in LockActorRows(c)})]
                /\ pc' = [pc EXCEPT ![t] = "lock_actor"]
                /\ loc' = [loc EXCEPT ![t].departed =
                               IF Subject(c) \in LockActorRows(c) THEN "Some" ELSE "None"]
        /\ UNCHANGED <<tables, blind, held, result>>

\* Mutant of DepartedNow: the column itself, not whether it is set.
DepartedColumn(t) ==
    IF loc[t].departed = "None" THEN "None" ELSE actor[Subject(call[t])]

\* A locked row is read as it is now, not as the statement's snapshot had it.
DepartedNow(t) ==
    IF loc[t].departed = "None" THEN "None"
    ELSE IF actor[Subject(call[t])] = "departed" THEN "Some(true)" ELSE "Some(false)"

\* Mutant of LockOrganization: FOR SHARE, so that two operations decide at once.
LockOrganizationForShare(t) ==
    /\ pc[t] = "lock_actor" /\ Returned(t) /\ call[t].op # "create_organization"
    /\ call[t].org \in fukulow_active_organizations(call[t].by)
    /\ loc' = [loc EXCEPT ![t].departed = DepartedNow(t)]
    /\ Start(t, "lock_organization", Share, {OrgRow(call[t].org)})

(***************************************************************************)
(* lock_organization: the row is looked for when the statement starts; the *)
(* row itself never changes, so what the wait brought is not looked at.    *)
(***************************************************************************)
LockOrganization(t) ==
    /\ pc[t] = "lock_actor" /\ Returned(t) /\ call[t].op # "create_organization"
    /\ \/ /\ call[t].org \in fukulow_active_organizations(call[t].by)
          /\ loc' = [loc EXCEPT ![t].departed = DepartedNow(t)]
          /\ Start(t, "lock_organization", Update, {OrgRow(call[t].org)})
       \/ /\ call[t].org \notin fukulow_active_organizations(call[t].by)
          /\ Rollback(t, "NotFound")

\* A statement in progress takes its next row.
TakeLock(t) == Acquire(t) /\ UNCHANGED <<tables, blind, pc, call, loc, result>>

\* PostgreSQL ends one transaction of a circle with an error.
DeadlockAbort(t) ==
    /\ pc[t] \notin {"idle", "done"}
    /\ \E S \in SUBSET Tx : t \in S /\ Circle(S)
    /\ Rollback(t, "Database")

\* The client disconnects or the server stops: the connection's work is undone.
Cancel(t) ==
    /\ t \in Unreliable /\ pc[t] \notin {"idle", "done"}
    /\ Rollback(t, "Cancelled")

StoreInit ==
    /\ \E db \in Initial :
           /\ actor = db.actor /\ users = db.users /\ slug = db.slug
           /\ member = db.member /\ team = db.team /\ teamMember = db.teamMember
           /\ channel = db.channel /\ channelMember = db.channelMember
           /\ trail = [created |-> {o \in Orgs : db.slug[o] # 0}, member |-> db.member,
                       team |-> db.team, teamMember |-> db.teamMember,
                       channel |-> [ch \in Channels |-> [org |-> db.channel[ch].org,
                                                         team |-> db.channel[ch].team]],
                       channelMember |-> db.channelMember]
    /\ blind = {}
    /\ held = [t \in Tx |-> NoLocks]
    /\ todo = [t \in Tx |-> NoStatement]
    /\ pc = [t \in Tx |-> "idle"]
    /\ call = [t \in Tx |-> NoCall]
    /\ loc = [t \in Tx |-> NoLocals]
    /\ result = [t \in Tx |-> "none"]
===============================================================================
