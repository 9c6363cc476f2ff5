------------------------------ MODULE AuditTrail -------------------------------
(***************************************************************************)
(* Why the audit trail tells the tables: the inductive invariant behind    *)
(* TrailTellsTheTables.  A record says what a row was when it was read, so *)
(* the row must still be that when the record is committed.                *)
(***************************************************************************)
EXTENDS Departures

(***************************************************************************)
(* What an operation read of a team row under the organization's lock is   *)
(* so when it writes: whoever changes a team row holds the organization of *)
(* the team, a departure included, so the row is never gone in between.    *)
(***************************************************************************)
TeamTargetStands ==
    \A t \in Tx :
        LET c == call[t]
            row == teamMember[c.team][c.who]
        IN /\ pc[t] = "write" /\ c.op = "add_team_member" => row = "none"
           /\ pc[t] = "write" /\ c.op = "change_team_member_role" =>
                  team[c.team] = c.org /\ row = loc[t].from /\ row # "none"
           /\ pc[t] = "write" /\ c.op = "remove_team_member" =>
                  /\ team[c.team] = c.org /\ row # "none"
                  /\ Claims(t, TeamMemberRow(c.team, c.who), Update)

\* leave_service: the team rows its DELETEs returned are locked and still there.
RemovalsHeld ==
    \A t \in Tx :
        /\ pc[t] \in {"idle", "leave_actor", "leave_orgs"} => loc[t].removed = {}
        /\ Looping(t) => \A tm \in loc[t].removed :
               /\ held[t][TeamMemberRow(tm, call[t].by)] >= Update
               /\ teamMember[tm][call[t].by] # "none"
        /\ pc[t] = "leave_audit" => \A tm \in loc[t].removing :
               Claims(t, TeamMemberRow(tm, call[t].by), Update)

\* Together with DepartureInvariant: every record fits the trail before it.
TrailInvariant ==
    DepartureInvariant /\ TeamTargetStands /\ RemovalsHeld /\ TrailTellsTheTables
===============================================================================
