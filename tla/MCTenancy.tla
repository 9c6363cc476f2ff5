------------------------------ MODULE MCTenancy -------------------------------
(***************************************************************************)
(* Small instances of Tenancy for TLC: databases to start from, and the    *)
(* sets of calls whose interleavings each run explores.                    *)
(***************************************************************************)
EXTENDS AuditTrail, TLC

TxSymmetry == Permutations(Tx)

----------------------------------------------------------------------------
(* Databases: who is what in each organization; team tm and channel ch     *)
(* belong to organization 1 unless said otherwise.                         *)

Row(role, status) == Member(role, status)

Database(rows, teams, inTeam, channels, listed) ==
    [ actor |-> [a \in Actors |-> "live"],
      users |-> Actors,
      slug |-> [o \in Orgs |-> IF \E a \in Actors : <<o, a>> \in DOMAIN rows THEN o ELSE 0],
      member |-> [o \in Orgs |-> [a \in Actors |->
                     IF <<o, a>> \in DOMAIN rows THEN rows[<<o, a>>] ELSE NoMember]],
      team |-> [tm \in Teams |-> IF tm \in DOMAIN teams THEN teams[tm] ELSE 0],
      teamMember |-> [tm \in Teams |-> [a \in Actors |->
                     IF <<tm, a>> \in inTeam THEN "member" ELSE "none"]],
      channel |-> [ch \in Channels |->
                     IF ch \in DOMAIN channels THEN channels[ch] ELSE AbsentChannel],
      channelMember |-> [ch \in Channels |-> {a \in Actors : <<ch, a>> \in listed}] ]

None == <<>>

\* One organization: owners 1 and 2, and 3 as an admin.
OneOrganization ==
    { Database(<<1, 1>> :> Row("owner", "active") @@ <<1, 2>> :> Row("owner", "active")
                   @@ <<1, 3>> :> Row("admin", "active"), None, {}, None, {}) }

\* An owner leaves while it is suspended.
SuspendedWhileLeaving == { suspend_member(2, 1, 1), leave_service(1) }

\* Departures of a suspended owner and of the active one, and a reactivation begun
\* before its own performer was reactivated.
SuspendedOwner ==
    { Database(<<1, 1>> :> Row("owner", "active") @@ <<1, 2>> :> Row("member", "suspended")
                   @@ <<1, 3>> :> Row("owner", "suspended"), None, {}, None, {}) }

ReactivationCalls ==
    { reactivate_member(1, 1, 2), reactivate_member(2, 1, 3), leave_service(3),
      leave_service(1) }

(***************************************************************************)
(* Actors 1 and 3 belong to two organizations, of which each owns both,    *)
(* one of the two as a suspended member, or 3 the first as an admin.       *)
(***************************************************************************)
TwoOrganizations ==
    { Database(<<1, 1>> :> Row("owner", "active") @@ <<1, 2>> :> Row("owner", "active")
                   @@ <<1, 3>> :> rows[1] @@ <<2, 1>> :> rows[2]
                   @@ <<2, 3>> :> Row("owner", "active"), None, {}, None, {}) :
      rows \in { <<Row("admin", "active"), Row("owner", "active")>>,
                 <<Row("owner", "suspended"), Row("owner", "active")>>,
                 <<Row("admin", "active"), Row("owner", "suspended")>> } }

\* Actor 3 is no member of organization 1, and listed in a channel of it.
ListedOutsider ==
    { Database(<<1, 1>> :> Row("owner", "active") @@ <<1, 2>> :> Row("owner", "active")
                   @@ <<2, 1>> :> Row("owner", "active") @@ <<2, 3>> :> Row("owner", "active"),
               1 :> 1, {}, 1 :> [org |-> 1, team |-> 1, name |-> 1], {<<1, 3>>}) }

OwnerDatabases == TwoOrganizations \cup SuspendedOwner \cup ListedOutsider

OwnerCalls ==
    { change_member_role(1, 1, 2, "member"), change_member_role(2, 1, 1, "member"),
      change_member_role(3, 1, 3, "owner"), change_member_role(3, 2, 3, "admin"),
      suspend_member(1, 1, 1), suspend_member(1, 1, 2), suspend_member(3, 1, 1),
      suspend_member(1, 2, 3),
      reactivate_member(1, 1, 3), reactivate_member(1, 1, 2),
      reactivate_member(2, 1, 3), reactivate_member(3, 2, 1),
      leave_service(1), leave_service(2), leave_service(3), create_organization(1, 3, 3) }

----------------------------------------------------------------------------
(* Two organizations.  Actor 1 is active in the first and suspended in the *)
(* second, actor 2 the other way round, actor 3 owns both.                 *)
CrosswiseRows ==
    <<1, 1>> :> Row("member", "active") @@ <<2, 1>> :> Row("member", "suspended")
        @@ <<1, 2>> :> Row("member", "suspended") @@ <<2, 2>> :> Row("member", "active")
        @@ <<1, 3>> :> Row("owner", "active") @@ <<2, 3>> :> Row("owner", "active")

Crosswise == { Database(CrosswiseRows, None, {}, None, {}) }

LeaveCalls == { leave_service(a) : a \in Actors }

----------------------------------------------------------------------------
(* Teams and channels.  Team 1 and its channel 1 belong to organization 1, *)
(* as does channel 2 for the whole organization.  Actor 3 is a member      *)
(* there, active or suspended, or known to actor 1 from organization 2     *)
(* only: an outside actor, listed in channel 1 or not.                     *)
TwoChannels == 1 :> [org |-> 1, team |-> 1, name |-> 1] @@ 2 :> [org |-> 1, team |-> 0, name |-> 1]

TeamDatabases ==
    { Database(<<1, 1>> :> Row("owner", "active") @@ <<1, 2>> :> Row("owner", "active")
                   @@ <<1, 3>> :> Row("member", status),
               1 :> 1, {<<1, 3>>}, TwoChannels, {}) :
      status \in {"active", "suspended"} }

ChannelDatabases ==
    { Database(<<1, 1>> :> Row("owner", "active") @@ <<1, 2>> :> Row("owner", "active")
                   @@ <<2, 1>> :> Row("owner", "active")
                   @@ <<2, 3>> :> Row("owner", "active")
                   @@ <<2, 2>> :> Row("owner", "suspended"),
               1 :> 1, {<<1, 2>>}, TwoChannels, listed) :
      listed \in {{}, {<<1, 3>>}} }

TableDatabases == TeamDatabases \cup ChannelDatabases

TableCalls ==
    { create_team(2, 1, 2), add_team_member(1, 1, 1, 3, "member"),
      add_team_member(1, 1, 2, 2, "member"),
      change_team_member_role(1, 1, 1, 3, "manager"), remove_team_member(1, 1, 1, 3),
      create_channel(2, 1, 3, 0, 2), create_channel(1, 1, 4, 0, 2),
      add_channel_member(1, 1, 1, 3), add_channel_member(1, 1, 2, 3),
      create_organization(1, 3, 3), create_organization(2, 4, 3),
      create_organization(2, 4, 9),
      suspend_member(1, 1, 2), leave_service(2), leave_service(3) }
===============================================================================
