# Fukulow in TLA+

Fukulow is a multi-tenant messaging service: a Rust server over PostgreSQL. Its
core is `crates/db`: operations that each run in one transaction, in the context
of an actor, under row-level security and explicit row locks. This project models
those operations as concurrent transactions, model-checks them with TLC and
proves the most important results with TLAPS.

## The system

| part | state | operations | modelled by |
|---|---|---|---|
| context, locks (`context.rs`, `operations/mod.rs`) | transactions, row locks | `begin`, `lock_actor`, `lock_organization` | `Store`, `RowLocks` |
| organizations (`identity.rs`) | `organizations`, `organization_members` | `create_organization` | `Membership` |
| membership (`membership.rs`) | `organization_members` | `change_member_role`, `suspend_member`, `reactivate_member` | `Membership` |
| departure (`leaving.rs`) | all tables of an actor | `leave_service` | `Leaving` |
| teams (`teams.rs`) | `teams`, `team_members` | create, add, change role, remove | `Teams` |
| channels (`channels.rs`) | `channels`, `channel_members` | create, add member | `Channels` |
| row-level security, schema (`migrations/`) | policies, keys, triggers | | `Store` and the module of each operation |
| audit (`audit.rs`) | `audit_events` | `Event::write` | `Audit`, `Invites` |
| owner rule (`domain`) | | `check_owner_change` | `Store`, `Governance`, `OwnerRule` |
| messages (`messages.rs`) | `messages`, `channels.next_message_seq` | `post_message`, `messages_before`, `messages_after` | `Messages`, `ChannelLog` |
| invites (`invites.rs`, `authorization.rs`, `create_person`) | `invites`, `users` | create, revoke, accept, `invite_is_usable` | `Invites` |
| sessions (`sessions.rs`) | `sessions` | `sign_in`, `resolve_session`, `revoke_session`, `me` | `Sessions` |
| credentials (`crates/auth`) | none | `verify_password`, tokens | `Credentials`, `Sessions` |
| HTTP application (`crates/app`) | none of its own | the handlers, the Origin check | `Web`, `Origin` |
| process (`main.rs`, `http::run`, `shutdown.rs`, `connection.rs`) | listener, signals, pool | start, serve, drain, exit | `Server` |
| configuration (`config.rs`) | | `validate_public_origin` | `Origin` |
| telemetry, bind address, database URL | | | only as a start that may be refused |
| `protocol`, `realtime` | | | no code yet |

The operations interact only through the database. What is hard about them:

* two operations decide on the same owners at the same time; the organization
  row's `FOR UPDATE` serializes them;
* a departure crosses organizations; it serializes with additions and
  reactivations through the actor row (`FOR SHARE` against `FOR UPDATE`);
* at READ COMMITTED each statement sees another state, and a statement that waits
  for a lock looked for its rows before it waited;
* row-level security makes what an operation sees depend on its performer's
  membership, which others change meanwhile;
* foreign keys take locks of their own, so an audit record locks an organization,
  and a message its organization and its sender;
* an HTTP request runs more than one transaction (session lookup or usable filter,
  then the operation; a conflicting post, then its lookup), and slow work (argon2)
  lies between them or inside one: what was read before may be stale after;
* clients retry posts they never heard of, and disappear before or after a commit;
* the process is told to stop at any moment, and the pool has an end.

## The modules

`RowLocks` (external) has the lock modes and rows, `held` and `todo`: a statement
names its rows when it starts and takes them in ascending order. `Audit` extends
it with the events and `Replay`, a reader who knows the events only. `Store` adds
the tables, the policies, the calls and the course of a transaction:

    Begin -> lock_actor -> LockOrganization -> read under the locks -> write -> Commit
    Begin -> leave_actor -> leave_orgs -> leave_next <-> leave_audit -> LeaveCommit

A point of the course (`pc`) is between two SQL statements. At a point the
transaction may still be taking the locks of its statement (`TakeLock`); when it
has them (`Returned`) the next action is the code up to the next statement that
waits for, or is exposed to, others. `loc` has the local variables of the Rust
function. Writes are seen by others from the commit on, so a model transaction
applies them in its last action; the reads before it see the committed tables.
Row security also sees what the transaction itself has written when it judges an audit
record, and `AuditAdmittedIn` takes those tables: a member's row with its new role or
status (`WriteMember`), the listings a departure has deleted so far (`ListingsLeft`).
`Membership`, `Leaving`, `Teams` and `Channels` each extend `Store` with the actions of
one source file; `Tenancy` composes them and states the properties; `Governance`
is the abstract promise; `MCTenancy` the instances. `OwnerRule`, `Departures` and
`AuditTrail` each add to the one before what makes the next properties inductive,
`Circles` adds the order of locks to `Departures`, and
`Posting` does the same for `Messages`, `People` for `Invites`, `Sessions` and `Web`, and
`Authority` for what they answer; the modules named `...Proofs` have the proofs.

The other operations are layers over `Tenancy`. Each keeps its own tables as new
variables, adds its calls and actions, and composes them with every step of the
layers below, so that departures and suspensions run beside them:

* `Messages`: `post_message` is `CountMessage` (the counter's UPDATE), `InsertMessage`
  (waits for the identifier), `ConflictOrInsert`, `LockSender` and `CommitMessage`, or,
  after a conflict, `StartOver` and `LookUpMessage` in a second transaction. A reader
  is `FindChannel` and `ReadRows`. `ChannelLog` is what they promise: an append-only log
  per channel whose pages lie next to the reader's cursor. `INSTANCE ... WITH` maps
  the rows in the order of their numbers to the log.
* `Invites`: making and revoking (`LockInviter`, `LockInviteOrganization`, `authorize`, and
  the write), and accepting: `AcceptInvite` finds the row, `AcceptPerson` asks its
  condition again under the lock, `AcceptMember` inserts the person, `CommitAcceptance`
  the membership. Time passes with `Expire`; `now()` is the start of a transaction,
  so what had not expired then is not asked again.
* `Sessions` (over `Invites`, with `Credentials`): `sign_in` is `ReadPerson`, `Verify` (argon2, then
  the actor's lock), `RereadPerson`, `InsertSession`. `Cascade` is the foreign key's
  ON DELETE CASCADE and is part of every step of the layers below.
* `Web` (over `Sessions`): a request is received, checked for its Origin if it changes state
  or asks for a WebSocket (`checks_origin`, as `protect` decides), for its session,
  its body and its path in the handlers' order, and goes on as the operation's call;
  `Status` is the answer. It adds no variables: the handlers keep no state.
* `Service` composes all of them on one database: the transactions of `Web` and of `Messages`
  contend for the same rows, which is what liveness is checked on.

`Server` and `Origin` stand alone. `Server` is the process: `phase` is how far `main` has
come, a request waits for, holds and returns a connection. `Origin` is the start with a
configured value and the comparison of `protect`; texts are records of what validation
and browsers tell apart.

Abstractions:

* Identifiers are positive integers, because the code orders by them, and 0 is
  NULL. New identifiers are part of the call and unused (`Fresh`).
* Names are numbers; names that differ only in case are one name (the keys are on
  `lower(name)`). `Malformed` ones fail their CHECK constraint.
* Names of teams and organizations, display names and timestamps are left out: no
  modelled decision depends on them.
* Locks on membership rows and on users rows, and the foreign-key locks an
  operation already holds in a stronger mode, are left out: they are only taken
  under the organization's or the actor's lock. The exceptions are modelled: a
  departure deletes team rows and records events in organizations it did not
  lock, and `add_team_member` takes the actor's KEY SHARE through its foreign key.
* A deadlock is found at once or later: `DeadlockAbort` may end any transaction of
  a circle, as PostgreSQL's detector may. Who gets a released lock first is open.
* authorize's lock on the membership row never waits: whoever writes a membership
  holds its organization FOR UPDATE or, in a departure, its actor. Locks on users and
  sessions rows are left out too: whoever deletes them holds the actor FOR UPDATE,
  and a revocation takes nothing after its session row. Invite, channel, message
  and email keys are lockable rows.
* Bodies, passwords, tokens and emails are small values; JSON and UUID parsing is its
  outcome (a body is well formed, an object with a bad field, or none; a path segment
  is an identifier or 0). Stored rows always parse (`Message::try_from` never fails on
  what the operations write), and message identifiers are the UUIDv7 ones.
* `messages_before(Some(BEGINNING))`, which no message precedes, is not enumerated;
  0 stands for `None` there. The counters are far from 2^63 and stay below the number
  of identifiers of a run.
* `blind` is a history variable: the memberships that were reactivated while
  `lock_actor` had not seen (and so not locked) the actor.

## The runs

Each transaction runs one call of the run's set, and any number of calls up to the
number of transactions run at once. Three transactions are enough for two to race
and a third to change what they see; the blind reactivation needs four.
`CHECK_DEADLOCK FALSE` is set because the system rightly stops when every call has
returned; waiting in circles is the subject of `NoDeadlock`, `OnlyStrayLeaversDeadlock`
and `EveryCallReturns` instead.

| run | shows |
|---|---|
| `owners` | owner rule, refinement of `Governance`, performers and lock order: changes (of oneself too) of members and departures in one organization, across two, and beside a founding |
| `tables` | teams, channels and foundings beside suspensions and departures; any client may disappear (`Unreliable`): names, listings, audit trail, records of a departure |
| `messages` | one identifier posted by its sender again, by another and elsewhere, beside suspension, departure, lost answers and readers with cursors at every position |
| `invites` | the last use, one email, revocation, expiry; makers of invites demoted or gone; lock order; refinement of `Governance` by joins |
| `web` | every route with every refusal, WebSocket handshakes, its person leaving between its transactions or during the verification; unusable hashes |
| `returns` | every call returns: crosswise leavers beside a post and a sign-in, under fairness |
| `shutdown` | signals at every moment, three requests, two connections |
| `origins` | some 3000 configured values, six ways to carry Origin headers |
| `blind_reactivation`, `leavers_deadlock`, `last_owner`, `post_locks` | the findings below |

Bounds: a page limit of 0, 1, the maximum and above it; pages of two in a channel that
already has messages and gets more, so that there is more than a page; one use left is
the case in which acceptances race; ports 0, 80, 443, 8080, 65535 and 65536. `MaxBegins`
of two is the most transactions a handler begins, and three requests for two
connections exhaust the pool. Transactions are symmetric where no liveness is checked.

The properties:

* `OwnerKeptUnlessBlind`: an organization has an active owner, unless a membership
  of it was reactivated blindly. `EveryOrganizationKeepsAnOwner` is the rule as
  the documentation has it.
* `ImplementsGovernance`: the transactions refine atomic steps whose guards hold in
  the state in which the step takes effect.
* `DepartureErases`, `ListingsFit`, `NamesUnique`: what the tables never hold.
* `TrailTellsTheTables`: replaying the audit events in commit order gives the
  tables, so nothing is unrecorded and nothing is recorded that did not happen.
* `CommittedByActiveMember`: whoever changes members, teams or channels is an active member
  when the change commits, and still is one after it, so nobody suspends themselves.
  Checked for changes of members (`owners`), proved for teams and channels as well.
* `DepartureAdmitted`, `LastOwnerIsTrue`: why departures are refused. The records of a
  departure must be admitted where it writes them, before it deletes what they record.
* `NoDeadlock`, `EveryCallReturns`: waiting. `OnlyStrayLeaversDeadlock`: the one way in
  which changes of members and departures can wait in a circle is a departure that
  records in an organization it has not locked in order (`Stray`).
* `NumbersHaveNoGap`, `ImplementsChannelLog`, `PagesGoOn`: a channel is a log, the cursor
  of a reader is a place in it, and nothing appears behind it.
* `PostsAreAnsweredTruly`: what a post or a retry is told is so.
* `InvitesAccounted`, `JoinsAreAdmitted`, `CapabilityHeldAtCommit`, `NobodyIsHalfCreated`: uses,
  records and people agree, and what a call was allowed holds when it commits.
* `AnswersTellNoMore`, `FirstFailureWins`: the order of the checks as callers see it; the
  Origin is asked of every change and of every WebSocket handshake, and of nothing else.
* `SessionsHavePeople`, `SignInsAreAnsweredTruly`, `VerificationsCostTheSame`: sign-ins.
* `AnswersAsDocumented`, `DepartedAreNotServed`: the statuses of `docs/HTTP.md`, with 403
  for a `GET` that asks for a WebSocket from elsewhere.
* `AnnouncedSurvivesSignals`, `PoolOutlivesRequests`, `RequestsEnd`, `SignalEndsProcess`: the
  life of the process.
* `OwnPagesAreAdmitted`, `OnlyOwnPagesAreAdmitted`, `SerializedOriginsStart`: the public origin.

What the runs of messages show about a sender that is suspended at the wrong moment:
between the counter and the insert the post fails as a database error (row security
refuses the insert); between the two transactions its own message is answered as
`IdConflict`; a reader suspended between its two statements gets an empty page. All
three are admitted by the properties, which name the suspended sender.

Fairness: `FairService` has weak fairness of `RunningStep(t)` for each transaction alone,
over the composition of all operations (`Service`). The server polls a future that can
go on, PostgreSQL grants a lock that is free and runs its deadlock detector; nothing
makes a client call (`Begin`, `CallMessages`, `Receive`) or disappear (`Cancel`). Weak fairness
is enough because each transaction ends after one call, so a lock that is contended
is at last continuously free. `FairServer` has it for the process and for each request,
not for signals, new requests or clients that hang up.

Every property has a mutant: an operator beside the definition it replaces, which
changes the code the way a plausible bug would.

## Findings

1. **A blind reactivation can cost an organization its last owner**
   (`blind_reactivation`). `reactivate_member` treats `None` of `lock_actor` like
   `Some(false)`. Owner 1 is active; 2 and owner 3 are suspended. 2's call to
   reactivate 3 runs `lock_actor` while 2 is suspended: 2 does not see 3's actor
   row, so 3 is not locked. 1 reactivates 2. 2's call locks the organization and
   decides; 3's `leave_service` locks 3's actor row and finds no active
   organization; 2's call commits; 1 leaves the service, which 3's ownership
   allows; 3's departure commits. `leaving.rs:21` says "The actor lock closes
   reactivation". Refusing `None`, as `add_channel_member` does, closes it.
2. **Leavers can deadlock** (`leavers_deadlock`). The `ORDER BY id` covers the
   organizations a leaver is active in; its audit record for an organization it is
   suspended in locks that one too, later. So does the record of a channel listing in an
   organization it is no member of, and of a membership that was reactivated blindly
   after it looked. `OnlyStrayLeaversDeadlock` names the three, and the proof shows that
   there is no fourth. PostgreSQL ends one of the two with an error, and `returns` shows
   that everybody does return.
3. **A departure may be refused as LastOwner for no last owner** (`last_owner`). The
   organizations are found before the wait and the owners counted after it; a
   leaver suspended in between sees no owners. Trying again succeeds.
4. **A post locks its organization before its actor** (`post_locks`). invariants.md has
   the actor lock precede organization locks. `post_message` takes neither lock itself,
   and the foreign keys of its insert take them the other way round: a post and the
   departure of its sender can deadlock, and one of them is then a database error
   (`PostsAreAnsweredTruly` admits it, `returns` shows that both return).

Two observations without a run of their own. Suspending oneself ends as a database error,
even where another owner remains: `suspend_member` updates the performer's own row first,
and row security refuses the record to somebody who is no longer active in the
organization. Nothing is lost, and the caller is told nothing of the reason.
`validate_public_origin` looks at case and default
ports, not at how an address is written. `https://[0:0:0:0:0:0:0:1]` starts a server whose
own pages, sent as `https://[::1]`, are refused; `OwnPagesAreAdmitted` therefore speaks of
hosts that are written as a browser sends them.

## The proofs

The theorems are about the specifications the runs check, for any sets of
transactions, actors, organizations, teams, channels, names and message identifiers,
any `Requests` and `Posts` that are calls, and any `Initial` databases that are `Sound`.
The assumptions are named where the constants are declared, and TLC evaluates them in
the runs: identifiers are positive (`IdentifiersAssumption`); `Sound` says that keys resolve
and are unique, that whoever left has nothing left, and that every organization has an
active owner; `InitialMessagesAssumption` that channels start numbered from 1;
`MessageIdsAssumption` that the identifiers are finitely many, which the cardinality of
a channel needs; `InitialInvitesAssumption`, `InitialPeopleAssumption` and
`InitialSessionsAssumption` that a run starts with invites nobody has used and with people
and sessions that are whole; `InviteCallsAssumption` and `WebRequestsAssumption` what the
types of the operations and of the requests say of their arguments;
`StoredHashAssumption` that what is stored for a person is a text `verify_with` knows how
to read or fails to; `OriginAssumption` that hosts are texts and ports numbers.

| theorem | module | states |
|---|---|---|
| `TypeCorrect` | `TenancyProofs` | `[]TypeOK` |
| `OwnerRuleHolds` | `OwnerRuleProofs` | `[]OwnerKeptUnlessBlind` |
| `DeparturesErase`, `ListingsAlwaysFit`, `NamesAreUnique` | `DepartureProofs` | `[]DepartureErases`, `[]ListingsFit`, `[]NamesUnique` |
| `ActiveMembersCommit`, `DeparturesAdmitted` | `DepartureProofs` | `CommittedByActiveMember`, `DepartureAdmitted` |
| `GovernanceImplemented` | `DepartureProofs` | `ImplementsGovernance`, the refinement |
| `LocksInOrder`, `ChangesNeverDeadlock` | `DepartureProofs` | `[]OnlyStrayLeaversDeadlock`, and `[]NoDeadlock` while nobody leaves |
| `TrailTells` | `TrailProofs` | `[]TrailTellsTheTables` |
| `NoGapInNumbers`, `PostsToldTruly` | `MessagesProofs` | `[]NumbersHaveNoGap`, `PostsAreAnsweredTruly` |
| `InvitesAreAccounted`, `PeopleAreWhole`, `JoinsAdmitted` | `PeopleProofs` | `[]InvitesAccounted`, `[]NobodyIsHalfCreated`, `JoinsAreAdmitted` |
| `SessionsBelong` | `PeopleProofs` | `WebSpec => []SessionsHavePeople` |
| `CapabilitiesHeld`, `AnswersAreDiscreet` | `AuthorityProofs` | `InvitesSpec => CapabilityHeldAtCommit`, `AnswersTellNoMore` |
| `SignInsTrue`, `VerificationsCost` | `AuthorityProofs` | `WebSpec => SignInsAreAnsweredTruly`, `[]VerificationsCostTheSame` |
| `DepartedNotServed`, `AnswersDocumented`, `FirstFailuresWin` | `AuthorityProofs` | `WebSpec => DepartedAreNotServed`, `AnswersAsDocumented`, `FirstFailureWins` |
| `SignalsAreHandled`, `PoolIsClosedLast`, `ServerTypeCorrect` | `ServerProofs` | `[]AnnouncedSurvivesSignals`, `[]PoolOutlivesRequests`, `[]ServerTypeOK` |
| `OwnPagesGetThrough`, `OthersAreRefused`, `BrowserFormsStart` | `ServerProofs` | `[]OwnPagesAreAdmitted`, `[]OnlyOwnPagesAreAdmitted`, `[]SerializedOriginsStart` |

The tenant operations have one chain of inductive invariants, each of which contains
the one before it. Each was checked with TLC on the instances of `MCTenancy` before it
was proved.

* `TypeCorrect`: types, the points an operation can reach (`CourseOK`), and no two
  transactions hold conflicting locks (`LocksExclude`). These three are inductive
  together. Every action is first shown to be of one of a few kinds (goes on to
  another statement, takes a lock, ends), so that the later proofs argue about
  kinds and not about thirty actions.
* `OwnerInvariant` (`OwnerRule`). The owner rule is not inductive: a step that writes a
  suspension relies on what was read earlier. The invariant adds which lock is held
  from where to where (`OrganizationLocked`, `SubjectLocked`, `LeaverLocked`), that a
  leaver is active in no organization it has not locked but by a blind reactivation
  (`LeaverOrganizationsLocked`), and that the other owner a decision rests on is still one
  (`OwnerDecisionStands`). Only who holds the organization's UPDATE lock, or an unsighted
  leaver, takes an owner away; two such locks exclude each other; and a leaver that
  is not locked in an organization can become active there only through a
  reactivation that holds its actor row, which excludes the leaver's own lock, or
  through a blind one.
* `DepartureInvariant` (`Departures`). A departure reads its rows organization by
  organization and erases them at its commit, so it must have found all of them.
  `MembershipsFound`, `TeamRowsFound` and `ListingsFound` say what the loop has found, and
  that each organization it is done with is locked by its record; `TargetStands` and
  `SubjectKnown` say that what an operation read under its locks is still so when it
  writes; `CreationFresh` and `KeysResolve` that new rows are new and keys resolve. A
  blind reactivation does not break `DepartureErases`: the row it writes was
  suspended under the organization's lock, and the record of a departure needs that
  lock too.
* The refinement: an initial state maps to an initial state, and every step of `Next` is a
  stutter of `Governance` or the action its commit stands for, whose guard follows from
  `DepartureInvariant`. `ActiveMembersCommit` uses the same facts; `DeparturesAdmitted`
  is row security's answer where the records are written: the rows are as the loop found
  them, and a listing still stands in the departure's own view.
* `CircleInvariant` (`Circles`). Whatever a transaction asks for comes after all that it
  holds, actors before organizations before keys and each in ascending order
  (`AsksInOrder`), until a departure is in its loop; there it asks for its own team rows
  and for organizations it is a member of or listed in (`LoopAsks`). In a circle every row
  somebody waits for is held by somebody who waits for a later one, so no row would be
  the last; the exception is a leaver in its loop, and whatever it still waits for it has
  not locked in order, which makes it a stray. Two hypotheses: `OnlyOwnerOperations`,
  because `add_team_member` takes its target's row after the organization (by the foreign
  key) where `lock_actor` did not see it, and then waits in a circle with the target's
  departure, and `IdentifiersBounded`, that identifiers have a greatest: a
  UUID has 128 bits, a slug and an email address a greatest length.
* `TrailInvariant` (`AuditTrail`). An event says what a row was when it was read, so the row
  must still be that when it is committed (`TeamTargetStands`, `RemovalsHeld`). The proof
  shows that for each row a commit has at most one event about it, and that the
  event turns the old row into the new one. It also shows that the branches of
  `teams.rs` for a row that went away between its SELECT and its UPDATE or DELETE are
  never taken: a departure locks the organization for its record before it deletes
  team rows there.

`PostingInvariant` (`Posting`) stands on its own, since the posts of `Messages` are not calls of
`Tenancy`: it says of the tenant operations only that each step belongs to one
transaction and obeys the locks. A post holds its channel's row from the count on and
the number it has counted is the counter's next (`CountHeld`); from the insert on it holds
its identifier, which stays as it was found (`KeyHeld`), and its channel stays in its
organization (`ChannelSeen`). Two posts that have counted in one channel would hold
conflicting locks, so a commit appends exactly the next number. `ConflictOrInsert`'s
unique violation is thereby never met, which `PostsToldTruly` needs: a database error
has a circle of waits or an inactive sender behind it.

`PeopleInvariant` (`People`) too stands on its own. An acceptance decides on an invite, then
waits for the email and for the organization, so what it found must still be so when it
commits: from the conditional UPDATE on it holds the invite, which stays unspent and
not revoked (`InviteHeld`); from the insert on it holds the email's key, which stays
nobody's (`EmailHeld`); whom it makes is nobody else's and not there yet
(`NewcomersFresh`). A revocation holds the invite it has found (`RevocationHeld`), and an
invite that is being made is not there yet (`InvitesFresh`). Of the tenant operations the
proof uses that only a departure touches actors and users rows, of an actor there is
(`LeaverThere`), and that a membership, once there, is never erased, only marked: so
who joined still has one (`JoinedThere`) after leaving. Two acceptances at one invite, or
for one email, would hold conflicting locks; hence each use adds one to `used` and one
person to the records. `JoinsAdmitted` is the same argument at the commit.

`SessionsInvariant` adds that a handler has looked up the session before an operation
that needs one begins (`SessionsCourse`), so that a revocation never marks a session that
is not there. Every step of a handler or of `sessions.rs` stands aside: it writes no table
of `PeopleInvariant`. The foreign key decides the rest: a session is inserted only beside
its users row, and `Cascade` takes it along. The lock under which `RereadPerson` looks is
therefore not needed for `SessionsHavePeople`; it is what `SignInsAreAnsweredTruly` needs.
`SessionsAgree` carries `PeopleInvariant`, and with it the accounts of invites, to `WebSpec`.

`AuthorityInvariant` (`Authority`) is why nobody acts on what they no longer are. It joins
`PeopleInvariant` to as much of the tenant operations as the authority of an inviter
rests on. An inviter holds its actor and its organization FOR SHARE from `authorize` to
the commit (`InviterHolds`). Whoever demotes, suspends or reactivates holds the
organization FOR UPDATE when it writes, and its target's membership counts
(`TenantHolds`); a founder is locked and live (`FounderHolds`); a leaver holds its own
actor FOR UPDATE, and each membership of its own that counts is one it knows, in an
organization it has locked or has still to come to (`LeaverHolds`). Each of these locks
conflicts with one of the inviter's, so `Capable` stays true until the commit.
`DepartedAreNowhere` closes the circle: who has left is a member of nothing, so whoever is
`Capable` is live. This is needed because `authorize` looks at a membership and not at the
actor. `AnswersAreDiscreet` and `CapabilitiesHeld` are then read off each action that
answers (`InviterTold`, `AcceptorTold`).

`WebInvariant` carries this through the handlers. `SignInHolds`: after the lookup of the
email the context is that person's, who may meanwhile have left; from `RereadPerson` on
the actor is locked and stays. `RequestTyped` and `RequestHolds`: what the handler has
checked by the time a request has come this far. `WebAnswers` lists every way in which a
request is answered, with what it rests on; the four theorems about statuses and the
order of checks follow from that list and from `Status`. `FirstFailuresWin` assumes that
every call comes through a route (`AllRouted`), as in the `web` run: a call that is made
directly has no body to be refused.

`ServerProofs` is for any number of clients and any pool of at least one connection
(`PoolAssumption`): what `main` has done by each phase (`PhasesInOrder`), and that requests are
in flight only from `serve` to the end of the drain (`FlightsInTime`). `OriginInvariant` says
that a server that is up passed the validation, one that refused did not, and every
answer is what the comparison gives; the theorems then are facts about texts: a
validated value is the text a browser sends for it.

Only model-checked:

* liveness (`EveryCallReturns`, `RequestsEnd`, `SignalEndsProcess`): fairness and `ENABLED` are out of
  the prover's reach;
* `NoDeadlock` in `invites`: acceptances and revocations lock an invite and its organization
  in opposite orders, in modes that do not conflict, and are not among the operations of
  `ChangesNeverDeadlock`;
* `ImplementsChannelLog` and `PagesGoOn`: a sorted sequence is what a recursion or a choice
  over permutations gives, an induction over data; `MessagesTypeOK` with them, because of
  its pages;
* `LastOwnerIsTrue` and the properties of the findings, which do not hold;
* `InvitesTypeOK` and `WebTypeOK`, whose results and points the proofs do not need.

## Not modelled

* Telemetry, the bind address and the database URL: parsed by libraries; a refusal
  ends the process before anything else exists (`Configure`).
* `protocol` and `realtime` have no code at this commit, and `leave_service` and the
  membership, team, channel and message operations have no HTTP route yet: they are
  called directly.
* The texts of cookies, links and JSON answers, the parsing of JSON, UUIDs and token
  hashes, and the cryptography.
* What database roles other than the application's may do, and the `down` migrations.
* Empty hosts and non-ASCII or numeric host names in the public origin, whose parsing
  belongs to the `http` crate.
