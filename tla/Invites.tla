-------------------------------- MODULE Invites --------------------------------
(***************************************************************************)
(* invites.rs, authorization.rs and create_person beside the operations of *)
(* a tenant.  Making and revoking an invite locks the performer and then   *)
(* the organization FOR SHARE; accepting one locks the invite first, makes *)
(* the person, and meets the organization's lock only in a foreign key.    *)
(*                                                                         *)
(* authorize also locks the membership row FOR SHARE.  That never waits:   *)
(* whoever writes a row holds its organization FOR UPDATE, or its actor.   *)
(***************************************************************************)
EXTENDS Tenancy, FiniteSets

CONSTANTS
    InviteCalls,    \* the calls of invite operations a run may make
    InitialInvites, \* the invites a run may start with
    InitialEmails   \* the email of each actor at the start

VARIABLES
    invite,     \* invites
    recorded,   \* what audit_events say of each invite
    email       \* users.email of each actor, 0 where there is no users row

ivars == <<invite, recorded, email>>
inviteVars == <<vars, ivars>>

NoInvite == [org |-> 0, kind |-> "none", max |-> 0, used |-> 0, revoked |-> FALSE,
             expired |-> FALSE]
InviteKinds == {"organization", "team"}

\* i is also the token: its hash finds at most one invite.
create_invite(by, o, i, max) ==
    [op |-> "create_invite", by |-> by, org |-> o, invite |-> i, max |-> max]
\* invite 0 stands for a path without a UUID
revoke_invite(by, o, i) == [op |-> "revoke_invite", by |-> by, org |-> o, invite |-> i]
\* a is the identifier create_person gives the actor
accept_invite(i, e, a) == [op |-> "accept_invite", by |-> a, invite |-> i, email |-> e]
invite_is_usable(i) == [op |-> "invite_is_usable", by |-> 0, invite |-> i]

Inviting == {"create_invite", "revoke_invite"}

InviteOperations == {"create_invite", "revoke_invite", "accept_invite", "invite_is_usable"}

InviteRows ==
    {NoInvite} \cup [org : Orgs, kind : InviteKinds, max : Nat \ {0}, used : Nat,
                     revoked : BOOLEAN, expired : BOOLEAN]

\* What the types of the operations say of a call.
InviteCallOK(c) ==
    /\ {"op", "by"} \subseteq DOMAIN c
    /\ c.op = "create_invite" => /\ {"org", "invite", "max"} \subseteq DOMAIN c
                                 /\ c.invite \in InviteIds /\ c.max \in Nat \ {0}
    /\ c.op = "revoke_invite" => /\ {"org", "invite"} \subseteq DOMAIN c
                                 /\ c.invite \in InviteIds \cup {0}
    /\ c.op = "accept_invite" =>
           /\ {"invite", "email"} \subseteq DOMAIN c
           /\ c.by \in Actors /\ c.invite \in InviteIds /\ c.email \in Emails

ASSUME InviteCallsAssumption ==
    \A c \in InviteCalls : c.op \in InviteOperations /\ InviteCallOK(c)

\* A run starts with invites that nobody has used.
ASSUME InitialInvitesAssumption ==
    \A m \in InitialInvites :
        m \in [InviteIds -> InviteRows] /\ \A i \in InviteIds : m[i].used = 0

\* The actors of a run's databases are people: each has a users row, an email of
\* their own and a membership, until they leave.
ASSUME InitialPeopleAssumption ==
    /\ InitialEmails \in [Actors -> Emails \cup {0}]
    /\ \A db \in Initial :
           /\ \A a \in Actors :
                  /\ (db.actor[a] = "live") <=> (a \in db.users)
                  /\ (InitialEmails[a] = 0) <=> (a \notin db.users)
                  /\ a \in db.users => \E o \in Orgs : db.member[o][a] # NoMember
           /\ \A a, b \in db.users : InitialEmails[a] = InitialEmails[b] => a = b

InvitesInit ==
    /\ StoreInit
    /\ invite \in InitialInvites
    /\ recorded = [i \in InviteIds |-> [created |-> IF invite[i] = NoInvite THEN 0 ELSE 1,
                                        revoked |-> IF invite[i].revoked THEN 1 ELSE 0,
                                        joined |-> {}]]
    /\ email = InitialEmails

\* The audit events of an invite
invite_created(i) == [recorded EXCEPT ![i].created = @ + 1]
invite_revoked(i) == [recorded EXCEPT ![i].revoked = @ + 1]
\* Mutant of member_invited: the event is not written.
member_invited_unwritten(i, a) == recorded
member_invited(i, a) == [recorded EXCEPT ![i].joined = @ \cup {a}]

\* Uuid::now_v7 and the token's randomness
FreshInvite(c) ==
    /\ c.op = "create_invite" =>
           /\ invite[c.invite] = NoInvite
           /\ \A u \in Tx : call[u].op = c.op => call[u].invite # c.invite
    /\ c.op = "accept_invite" =>
           actor[c.by] = "absent" /\ \A u \in Tx : call[u].op = c.op => call[u].by # c.by

\* Context::Actor: whoever calls has been authenticated, as an actor there is.
KnownActor(c) == c.op \in Inviting => c.by \in Actors /\ actor[c.by] # "absent"

CallInvites(t) ==
    \E c \in InviteCalls :
        /\ pc[t] = "idle" /\ FreshInvite(c) /\ KnownActor(c)
        /\ call' = [call EXCEPT ![t] = c] /\ pc' = [pc EXCEPT ![t] = "begin"]
        /\ UNCHANGED <<tables, blind, locks, loc, result, ivars>>

\* Nothing was written, and nothing is left to do: COMMIT or a dropped transaction.
Answer(t, r) == Rollback(t, r) /\ UNCHANGED ivars

\* On to a statement that locks these rows.
GoOn(t, p, mode, rows) == Start(t, p, mode, rows) /\ UNCHANGED <<loc, ivars>>

----------------------------------------------------------------------------
(* create_invite and revoke_invite.                                        *)

\* OrganizationRole::holds
holds(role) == role \in {"owner", "admin"}

\* authorize
authorize(t) ==
    LET row == MemberSeen(call[t].by, call[t].org, call[t].by)
    IN IF row.status # "active" THEN "NotAMember"
       ELSE IF holds(row.role) THEN "Allowed" ELSE "Forbidden"

LockInviter(t) ==
    /\ pc[t] = "begin" /\ call[t].op \in Inviting
    /\ GoOn(t, "invite_actor", Share, {ActorRow(a) : a \in
              {b \in {call[t].by} : SeesActor(b, b)}})

\* Mutants of LockInviteOrganization: FOR UPDATE; no lock.
LockInviteOrganizationForUpdate(t) ==
    /\ pc[t] = "invite_actor" /\ Returned(t)
    /\ GoOn(t, "invite_organization", Update, {OrgRow(call[t].org)})
LockInviteOrganizationUnlocked(t) ==
    /\ pc[t] = "invite_actor" /\ Returned(t)
    /\ GoOn(t, "invite_organization", Share, {})

LockInviteOrganization(t) ==
    LET seen == call[t].org \in fukulow_active_organizations(call[t].by)
    IN /\ pc[t] = "invite_actor" /\ Returned(t)
       /\ \/ ~seen /\ Answer(t, "NotAMember")
          \/ seen /\ GoOn(t, "invite_organization", Share, {OrgRow(call[t].org)})

CreateInvite(t) ==
    /\ At(t, "invite_organization", "create_invite")
    /\ \/ authorize(t) # "Allowed" /\ Answer(t, authorize(t))
       \/ authorize(t) = "Allowed" /\ Answer(t, "TokenUnavailable")
       \/ authorize(t) = "Allowed" /\ GoOn(t, "invite_insert", Update, {})

\* INSERT ... SELECT from the organization as row security shows it, audit, COMMIT
InsertInvite(t) ==
    LET c == call[t]
        seen == c.org \in fukulow_active_organizations(c.by)
    IN /\ At(t, "invite_insert", "create_invite")
       /\ \/ ~seen /\ Answer(t, "NotAMember")
          \/ /\ seen
             /\ invite' = [invite EXCEPT ![c.invite] =
                    [NoInvite EXCEPT !.org = c.org, !.kind = "organization", !.max = c.max]]
             /\ recorded' = invite_created(c.invite)
             /\ Rollback(t, "Ok") /\ UNCHANGED email

RevokeInvite(t) ==
    LET c == call[t]
        found == c.invite # 0 /\ invite[c.invite].org = c.org
    IN /\ At(t, "invite_organization", "revoke_invite")
       /\ \/ authorize(t) # "Allowed" /\ Answer(t, authorize(t))
          \/ authorize(t) = "Allowed" /\ ~found /\ Answer(t, "NotFound")
          \/ /\ authorize(t) = "Allowed" /\ found
             /\ GoOn(t, "invite_revoke", Update, {InviteRow(c.invite)})

\* Mutant of WriteRevocation: every revocation is recorded.
WriteRevocationEachTime(t) ==
    LET i == call[t].invite
    IN /\ At(t, "invite_revoke", "revoke_invite")
       /\ invite' = [invite EXCEPT ![i].revoked = TRUE]
       /\ recorded' = invite_revoked(i)
       /\ Rollback(t, "Ok") /\ UNCHANGED email

\* The first revocation is written and recorded; a repeated one changes nothing.
WriteRevocation(t) ==
    LET i == call[t].invite
    IN /\ At(t, "invite_revoke", "revoke_invite")
       /\ invite' = [invite EXCEPT ![i].revoked = TRUE]
       /\ recorded' = IF invite[i].revoked THEN recorded ELSE invite_revoked(i)
       /\ Rollback(t, "Ok") /\ UNCHANGED email

----------------------------------------------------------------------------
(* invite_is_usable and accept_invite.                                     *)

Unspent(i) == invite[i].used < invite[i].max /\ ~invite[i].revoked

Usable(i) == Unspent(i) /\ ~invite[i].expired /\ invite[i].kind = "organization"

InviteIsUsable(t) ==
    /\ At(t, "begin", "invite_is_usable")
    /\ Answer(t, IF Usable(call[t].invite) THEN "Usable" ELSE "InviteUnusable")

\* The conditional UPDATE, as its snapshot has the invite; now() stands still from here.
AcceptInvite(t) ==
    LET i == call[t].invite
        matches == Unspent(i) /\ ~invite[i].expired
    IN /\ At(t, "begin", "accept_invite")
       /\ \/ ~matches /\ Answer(t, "InviteUnusable")
          \/ matches /\ GoOn(t, "accept_person", NoKeyUpdate, {InviteRow(i)})

\* Mutants of AcceptPerson: the revocation is not asked for again; a registered email
\* is told before the use is decided.
AcceptPersonRevoked(t) ==
    /\ At(t, "accept_person", "accept_invite")
    /\ invite[call[t].invite].used < invite[call[t].invite].max
    /\ GoOn(t, "accept_email", Update, {EmailKey(call[t].email)})
AcceptPersonEmailFirst(t) ==
    /\ At(t, "accept_person", "accept_invite")
    /\ \/ /\ \E a \in Actors : email[a] = call[t].email
          /\ Answer(t, "EmailTaken")
       \/ /\ Unspent(call[t].invite) /\ invite[call[t].invite].kind = "organization"
          /\ GoOn(t, "accept_email", Update, {EmailKey(call[t].email)})

\* With the row locked its condition is asked again; then create_person's unique key.
AcceptPerson(t) ==
    LET i == call[t].invite
        accepts == Unspent(i) /\ invite[i].kind = "organization"
    IN /\ At(t, "accept_person", "accept_invite")
       /\ \/ ~accepts /\ Answer(t, "InviteUnusable")
          \/ accepts /\ GoOn(t, "accept_email", Update, {EmailKey(call[t].email)})

\* Mutant of AcceptMember: the unique key on users.email is missing.
AcceptMemberAnyEmail(t) ==
    /\ At(t, "accept_email", "accept_invite")
    /\ GoOn(t, "accept_member", KeyShare, {OrgRow(invite[call[t].invite].org)})

\* INSERT INTO organization_members: its foreign key locks the organization.
AcceptMember(t) ==
    LET taken == \E a \in Actors : email[a] = call[t].email
    IN /\ At(t, "accept_email", "accept_invite")
       /\ \/ taken /\ Answer(t, "EmailTaken")
          \/ ~taken /\ GoOn(t, "accept_member", KeyShare, {OrgRow(invite[call[t].invite].org)})

\* The commit of an acceptance that makes the person a member with this role.
AdmitAs(t, role, events) ==
    LET c == call[t]
    IN /\ At(t, "accept_member", "accept_invite")
       /\ invite' = [invite EXCEPT ![c.invite].used = @ + 1]
       /\ recorded' = member_invited(c.invite, c.by)
       /\ email' = [email EXCEPT ![c.by] = c.email]
       /\ users' = users \cup {c.by}
       /\ actor' = [actor EXCEPT ![c.by] = "live"]
       /\ member' = [member EXCEPT ![invite[c.invite].org][c.by] = Member(role, "active")]
       /\ Commit(t, events)
       /\ UNCHANGED <<slug, team, teamMember, channel, channelMember, blind>>

\* Mutants of CommitAcceptance: the membership is not recorded; the wrong role.
CommitAcceptanceUnrecorded(t) == AdmitAs(t, "member", {})
CommitAcceptanceAsAdmin(t) ==
    AdmitAs(t, "admin", {member_added(invite[call[t].invite].org, call[t].by, "admin")})

\* The use, the person, the membership and its record appear together.
CommitAcceptance(t) ==
    AdmitAs(t, "member", {member_added(invite[call[t].invite].org, call[t].by, "member")})

----------------------------------------------------------------------------
Expire(i) ==
    /\ invite[i] # NoInvite /\ ~invite[i].expired
    /\ invite' = [invite EXCEPT ![i].expired = TRUE]
    /\ UNCHANGED <<vars, recorded, email>>

InvitesStep(t) ==
    \/ LockInviter(t) \/ LockInviteOrganization(t) \/ CreateInvite(t) \/ InsertInvite(t)
    \/ RevokeInvite(t) \/ WriteRevocation(t) \/ InviteIsUsable(t)
    \/ AcceptInvite(t) \/ AcceptPerson(t) \/ AcceptMember(t) \/ CommitAcceptance(t)

\* A users row that leave_service deletes takes its email with it.
KeepInvites ==
    /\ email' = [a \in Actors |-> IF a \in users' THEN email[a] ELSE 0]
    /\ UNCHANGED <<invite, recorded>>

InvitesNext ==
    \/ Next /\ KeepInvites
    \/ \E t \in Tx : CallInvites(t) \/ InvitesStep(t)
    \/ \E i \in InviteIds : Expire(i)

InvitesSpec == InvitesInit /\ [][InvitesNext]_inviteVars

----------------------------------------------------------------------------
\* AccessError, CreateInviteError, RevokeInviteError, AcceptInviteError
InviteResults ==
    {"Usable", "InviteUnusable", "EmailTaken", "NotAMember", "Forbidden", "TokenUnavailable"}

InviteTablesTypeOK ==
    /\ LocksTypeOK /\ TablesTypeOK
    /\ invite \in [InviteIds -> InviteRows]
    /\ recorded \in [InviteIds -> [created : 0 .. 1, revoked : 0 .. 1, joined : SUBSET Actors]]
    /\ email \in [Actors -> Emails \cup {0}]

InvitesTypeOK == InviteTablesTypeOK /\ result \in [Tx -> Results \cup InviteResults]

(***************************************************************************)
(* invariants.md: "An invite is never used more times than allowed", and   *)
(* the records agree: one person joined for each use, the invite was made  *)
(* once and, if it is revoked, revoked once.                               *)
(***************************************************************************)
InvitesAccounted ==
    \A i \in InviteIds :
        /\ invite[i].used <= invite[i].max
        /\ Cardinality(recorded[i].joined) = invite[i].used
        /\ recorded[i].created = (IF invite[i] = NoInvite THEN 0 ELSE 1)
        /\ recorded[i].revoked = (IF invite[i].revoked THEN 1 ELSE 0)
        /\ \A a \in recorded[i].joined : member[invite[i].org][a] # NoMember

(***************************************************************************)
(* A new person appears only by a use of an organization invite that is    *)
(* not spent or revoked in the very step that admits them, however long    *)
(* the acceptance waited for the invite, the email or the organization.    *)
(***************************************************************************)
JoinsAreAdmitted ==
    [][\A a \in Actors :
          actor[a] = "absent" /\ actor'[a] # "absent" =>
              \E i \in InviteIds :
                  /\ Unspent(i) /\ invite[i].kind = "organization"
                  /\ invite' = [invite EXCEPT ![i].used = @ + 1]
                  /\ member'[invite[i].org][a] = Member("member", "active")]_inviteVars

(***************************************************************************)
(* A person is there as a whole or not at all: the users row, an email of  *)
(* their own, a membership.  What loses the race for an email, a use or a  *)
(* connection leaves no actor behind.                                      *)
(***************************************************************************)
NobodyIsHalfCreated ==
    /\ \A a \in Actors :
           /\ (actor[a] = "live") <=> (a \in users)
           /\ a \in users => email[a] # 0 /\ \E o \in Orgs : member[o][a] # NoMember
           /\ a \notin users => email[a] = 0
    /\ \A a, b \in users : email[a] = email[b] => a = b

(***************************************************************************)
(* An invite is made or revoked only while its performer is an owner or an *)
(* admin of the organization, and active: a demotion, a suspension or a    *)
(* departure that comes first is not overlooked, however the calls wait.   *)
(***************************************************************************)
Capable(o, a) ==
    actor[a] = "live" /\ member[o][a].status = "active" /\ holds(member[o][a].role)

CapabilityHeldAtCommit ==
    [][\A t \in Tx :
          call[t].op \in Inviting /\ result[t] = "none" /\ result'[t] = "Ok"
              => Capable(call[t].org, call[t].by)]_inviteVars

(***************************************************************************)
(* What an answer tells: that an email is registered only to the holder of *)
(* an invite that can still be used, that a token could not be made only   *)
(* to someone who may invite.  Database errors come from circles alone.    *)
(***************************************************************************)
AnswersTellNoMore ==
    [][\A t \in Tx :
          LET c == call[t]
              told(op, r) == c.op = op /\ result[t] = "none" /\ result'[t] = r
          IN /\ told("accept_invite", "EmailTaken") => Unspent(c.invite)
             /\ told("create_invite", "TokenUnavailable") => Capable(c.org, c.by)
             /\ told("revoke_invite", "NotFound") => Capable(c.org, c.by)
             /\ c.op \in Inviting \cup {"accept_invite"} /\ told(c.op, "Database")
                    => \E S \in SUBSET Tx : t \in S /\ Circle(S)]_inviteVars
===============================================================================
