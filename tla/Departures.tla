------------------------------ MODULE Departures ------------------------------
(***************************************************************************)
(* Why nothing slips in between the reads of a departure and its commit:   *)
(* the inductive invariant behind DepartureErases, ListingsFit, the        *)
(* refinement of Governance and the audit trail.  It goes on from          *)
(* OwnerInvariant: what is locked stays as it was read.                    *)
(***************************************************************************)
EXTENDS OwnerRule

\* Foreign keys: a membership has an actor, a channel an organization.
KeysResolve ==
    /\ \A o \in Orgs, a \in Actors : member[o][a] # NoMember => actor[a] # "absent"
    /\ \A ch \in Channels : channel[ch].team # 0 => channel[ch].org # 0

\* What is being created is not there yet, and is created once.
CreationFresh ==
    \A t \in Tx :
        /\ call[t].op = "create_organization" /\ pc[t] \in {"lock_actor", "insert"}
               => slug[call[t].org] = 0
        /\ call[t].op = "create_team" =>
               /\ \A u \in Tx : u # t /\ call[u].op = "create_team"
                                    => call[u].team # call[t].team
               /\ pc[t] \in {"lock_actor", "lock_organization"} => team[call[t].team] = 0
        /\ call[t].op = "create_channel" =>
               /\ \A u \in Tx : u # t /\ call[u].op = "create_channel"
                                    => call[u].channel # call[t].channel
               /\ pc[t] \in {"lock_actor", "lock_organization", "write"}
                      => channel[call[t].channel].org = 0

\* lock_actor: what it says of the actor is so until the commit.
SubjectKnown ==
    \A t \in Tx :
        /\ pc[t] \in {"lock_actor", "lock_organization", "insert", "write"}
           /\ loc[t].departed # "None" => actor[Subject(call[t])] # "absent"
        /\ pc[t] \in {"lock_organization", "insert", "write"}
           /\ call[t].op # "create_organization"
           /\ loc[t].departed \in {"Some", "Some(false)"}
               => actor[Subject(call[t])] = "live"
        /\ pc[t] = "insert" /\ call[t].op = "create_organization"
               => actor[call[t].by] = "live"

(***************************************************************************)
(* What an operation read of its target under the organization's lock is   *)
(* so when it writes: whoever changes a membership, a departure included,  *)
(* needs the same organization.                                            *)
(***************************************************************************)
TargetStands ==
    \A t \in Tx :
        LET c == call[t]
        IN /\ pc[t] = "write" /\ c.op = "change_member_role" =>
                  /\ member[c.org][c.who].status \in {"active", "suspended"}
                  /\ member[c.org][c.who].role = loc[t].from /\ loc[t].from # c.role
           /\ pc[t] = "write" /\ c.op = "suspend_member" =>
                  member[c.org][c.who].status = "active"
           /\ pc[t] = "write" /\ c.op = "reactivate_member" =>
                  member[c.org][c.who].status = "suspended"
           /\ pc[t] \in {"insert", "write"} /\ c.op = "add_team_member" =>
                  /\ member[c.org][c.who].status = "active" /\ team[c.team] = c.org
                  /\ pc[t] = "write" => Claims(t, ActorRow(c.who), KeyShare)
           /\ pc[t] = "write" /\ c.op = "add_channel_member" =>
                  /\ member[c.org][c.by].status = "active"
                  /\ channel[c.channel].org = c.org /\ channel[c.channel].team # 0
                  /\ loc[t].departed \in {"Some", "Some(false)"}

Looping(t) == pc[t] \in {"leave_next", "leave_audit"}

\* leave_service: it knows its memberships, and locks each by its record.
MembershipsFound ==
    \A t \in Tx :
        Looping(t) =>
            /\ loc[t].memberships = {o \in Orgs : member[o][call[t].by] # NoMember}
            /\ loc[t].current = loc[t].memberships
            /\ loc[t].rest \subseteq loc[t].memberships
            /\ \A o \in loc[t].memberships \ loc[t].rest : Claims(t, OrgRow(o), KeyShare)

\* leave_service: a team row is removed, or its organization's turn is to come.
TeamRowsFound ==
    \A t \in Tx :
        Looping(t) =>
            \A tm \in Teams :
                teamMember[tm][call[t].by] # "none" =>
                    /\ tm \in loc[t].removed \/ team[tm] \in loc[t].rest
                    /\ pc[t] = "leave_audit" /\ NextOf(loc[t].rest, team[tm])
                           => tm \in loc[t].removing

\* leave_service: the same for its channel listings.
ListingsFound ==
    \A t \in Tx :
        Looping(t) =>
            \A ch \in Channels :
                call[t].by \in channelMember[ch] =>
                    ch \in loc[t].unlisted \/ channel[ch].org \in loc[t].listed

(***************************************************************************)
(* Together with OwnerInvariant: at its commit a leaver has found every    *)
(* row of its own, and holds every organization that the rows are in.      *)
(***************************************************************************)
DepartureInvariant ==
    /\ OwnerInvariant
    /\ KeysResolve /\ CreationFresh /\ SubjectKnown /\ TargetStands
    /\ MembershipsFound /\ TeamRowsFound /\ ListingsFound
    /\ DepartureErases /\ ListingsFit /\ NamesUnique
===============================================================================
