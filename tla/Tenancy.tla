------------------------------- MODULE Tenancy --------------------------------
(***************************************************************************)
(* The operations that govern a tenant (membership, departure, teams,      *)
(* channels) run concurrently against one database, each in a transaction. *)
(***************************************************************************)
EXTENDS Membership, Leaving, Teams, Channels

MembershipStep(t) ==
    \/ CreateOrganization(t) \/ InsertOrganization(t)
    \/ ChangeMemberRole(t) \/ WriteMemberRole(t)
    \/ SuspendMember(t) \/ WriteSuspension(t)
    \/ ReactivateMember(t) \/ WriteReactivation(t)

LeavingStep(t) ==
    \/ LeaveActor(t) \/ LeaveChecks(t) \/ LeaveTeams(t) \/ LeaveAudit(t)
    \/ LeaveChannels(t) \/ LeaveCommit(t)

TeamsStep(t) ==
    \/ CreateTeam(t)
    \/ AddTeamMember(t) \/ InsertTeamMember(t) \/ WriteTeamMembership(t)
    \/ ChangeTeamMemberRole(t) \/ WriteTeamRole(t)
    \/ RemoveTeamMember(t) \/ WriteTeamRemoval(t)

ChannelsStep(t) ==
    \/ CreateChannel(t) \/ WriteChannel(t)
    \/ AddChannelMember(t) \/ WriteChannelMember(t)

\* A transaction that has begun goes on by itself.
Step(t) ==
    \/ LockOrganization(t) \/ TakeLock(t) \/ DeadlockAbort(t)
    \/ MembershipStep(t) \/ LeavingStep(t) \/ TeamsStep(t) \/ ChannelsStep(t)

Next == \E t \in Tx : Begin(t) \/ Step(t) \/ Cancel(t)

Spec == StoreInit /\ [][Next]_vars

----------------------------------------------------------------------------
Points == {"idle", "lock_actor", "lock_organization", "insert", "write",
           "leave_actor", "leave_orgs", "leave_next", "leave_audit", "done"}

TablesTypeOK ==
    /\ actor \in [Actors -> {"absent", "live", "departed"}]
    /\ users \in SUBSET Actors
    /\ slug \in [Orgs -> Names \cup {0}]
    /\ member \in [Orgs -> [Actors -> MemberRows]]
    /\ team \in [Teams -> Orgs \cup {0}]
    /\ teamMember \in [Teams -> [Actors -> TeamRoles \cup {"none"}]]
    /\ channel \in [Channels -> [org : Orgs \cup {0}, team : Teams \cup {0},
                                 name : Names \cup {0}]]
    /\ channelMember \in [Channels -> SUBSET Actors]
    /\ blind \in SUBSET (Orgs \X Actors)

ControlTypeOK ==
    /\ pc \in [Tx -> Points]
    /\ call \in [Tx -> Calls \cup {NoCall}]
    /\ loc \in [Tx -> Locals]
    /\ result \in [Tx -> Results]

\* Every variable stays in its domain (trail's is the subject of TrailTellsTheTables).
TypeOK == LocksTypeOK /\ TablesTypeOK /\ ControlTypeOK

ActiveOwner(o, a) == member[o][a] = Member("owner", "active")

(***************************************************************************)
(* invariants.md: "Every organization keeps at least one active owner",    *)
(* whatever demotions, suspensions and departures run at the same time.    *)
(***************************************************************************)
EveryOrganizationKeepsAnOwner ==
    \A o \in Orgs : slug[o] # 0 => \E a \in Actors : ActiveOwner(o, a)

(***************************************************************************)
(* The same for every organization in which no membership was reactivated  *)
(* by a performer whose lock_actor statement did not see the actor: the    *)
(* precise condition under which the locks of db hold the owner rule.      *)
(***************************************************************************)
OwnerKeptUnlessBlind ==
    \A o \in Orgs :
        slug[o] # 0 /\ (\A a \in Actors : <<o, a>> \notin blind)
            => \E a \in Actors : ActiveOwner(o, a)

(***************************************************************************)
(* A person who left has no membership but "left" rows, no team or channel *)
(* listing and no users row, and nobody else has a "left" row: no addition *)
(* or reactivation slips in between a departure's reads and its commit.    *)
(***************************************************************************)
DepartureErases ==
    \A a \in Actors :
        /\ actor[a] = "departed" =>
               /\ \A tm \in Teams : teamMember[tm][a] = "none"
               /\ \A ch \in Channels : a \notin channelMember[ch]
               /\ a \notin users
        /\ \A o \in Orgs : member[o][a] # NoMember =>
               (member[o][a].status = "left" <=> actor[a] = "departed")

(***************************************************************************)
(* Replaying audit_events in commit order gives the tables: no change goes *)
(* unrecorded and no record describes what did not happen.                 *)
(***************************************************************************)
TrailTellsTheTables ==
    trail = [created |-> {o \in Orgs : slug[o] # 0}, member |-> member, team |-> team,
             teamMember |-> teamMember,
             channel |-> [ch \in Channels |-> [org |-> channel[ch].org,
                                               team |-> channel[ch].team]],
             channelMember |-> channelMember]

\* A team row's membership is never "left"; a listing is in a team channel.
ListingsFit ==
    /\ \A tm \in Teams, a \in Actors : teamMember[tm][a] # "none" =>
           /\ team[tm] # 0
           /\ member[team[tm]][a].status \in {"active", "suspended"}
    /\ \A ch \in Channels : channelMember[ch] # {} => channel[ch].team # 0

(***************************************************************************)
(* No two rows of organizations have one slug, nor two channels of one     *)
(* scope one name, when they are created at the same time.                 *)
(***************************************************************************)
NamesUnique ==
    /\ \A o, p \in Orgs : slug[o] = slug[p] /\ slug[o] # 0 => o = p
    /\ \A c, d \in Channels : channel[c] = channel[d] /\ channel[c].org # 0 => c = d

\* Nobody waits in a circle: everyone locks actors first, then organizations in order.
NoDeadlock == ~ \E S \in SUBSET Tx : Stuck(S)

\* What the departure of a records in an organization it has not locked before: one it
\* is suspended in, one it was reactivated in blindly, one it is only listed in.
Stray(o, a) ==
    \/ member[o][a].status = "suspended" \/ <<o, a>> \in blind
    \/ /\ member[o][a] = NoMember
       /\ \E ch \in Channels : channel[ch].org = o /\ a \in channelMember[ch]

(***************************************************************************)
(* leaving.rs, ORDER BY id: whoever demotes, suspends, reactivates, founds *)
(* or leaves waits in a circle only with a leaver whose audit record locks *)
(* an organization out of order.                                           *)
(***************************************************************************)
OnlyStrayLeaversDeadlock ==
    \A S \in SUBSET Tx : Stuck(S) =>
        \E t \in S : /\ call[t].op = "leave_service"
                     /\ \E o \in Orgs : Stray(o, call[t].by)

(***************************************************************************)
(* Row security and the locks together: an operation of an organization    *)
(* changes its tables only when its performer is an active member of it    *)
(* in the very step that commits, however long it waited, and still is     *)
(* one after it: whoever suspends itself cannot record that.               *)
(***************************************************************************)
CommittedByActiveMember ==
    [][\A t \in Tx :
          (/\ result[t] = "none" /\ result'[t] = "Ok" /\ tables' # tables
           /\ call[t].op \notin {"create_organization", "leave_service"})
              => /\ member[call[t].org][call[t].by].status = "active"
                 /\ member'[call[t].org][call[t].by].status = "active"
                 /\ actor[call[t].by] = "live"]_vars

(***************************************************************************)
(* Seen from outside, the transactions are atomic: every step of the       *)
(* membership tables is a step Governance allows, with its guards true in  *)
(* the state the step starts from, not in the state the transaction read.  *)
(***************************************************************************)
Abstract == INSTANCE Governance
ImplementsGovernance == Abstract!GSpec

\* Every transaction that begins comes to an end, whoever else it waits for:
\* a circle of waiting operations is broken, and no operation starves another.
EveryCallReturns == \A t \in Tx : pc[t] # "idle" ~> pc[t] = "done"

\* A departure is refused as LastOwner only for the last active owner of something.
LastOwnerIsTrue ==
    [][\A t \in Tx :
          (call[t].op = "leave_service" /\ result[t] = "none" /\ result'[t] = "LastOwner")
              => \E o \in Orgs : /\ ActiveOwner(o, call[t].by)
                                 /\ \A a \in Actors : ActiveOwner(o, a) => a = call[t].by]_vars

\* Row security never refuses a departure the records of what it erases.
DepartureAdmitted ==
    [][\A t \in Tx :
          (call[t].op = "leave_service" /\ result[t] = "none" /\ result'[t] = "Database")
              => \E S \in SUBSET Tx : t \in S /\ Circle(S)]_vars
===============================================================================
