-------------------------------- MODULE Teams ---------------------------------
(***************************************************************************)
(* teams.rs: creating a team, and adding, changing and removing its        *)
(* members, under the organization's lock.                                 *)
(***************************************************************************)
EXTENDS Store

\* INSERT INTO teams, the audit record, COMMIT: row security wants an active performer.
CreateTeam(t) ==
    LET c == call[t]
        event == team_created(c.org, c.team)
    IN /\ At(t, "lock_organization", "create_team")
       /\ \/ ~AuditAdmitted(c.by, event) /\ Rollback(t, "Database")
          \/ /\ AuditAdmitted(c.by, event)
             /\ team' = [team EXCEPT ![c.team] = c.org]
             /\ Commit(t, {event})
             /\ UNCHANGED <<actor, users, slug, member, teamMember, channel,
                            channelMember, blind>>

\* The row being written, as its performer sees it.
Listing(t) == TeamMemberSeen(call[t].by, call[t].org, call[t].team, call[t].who)

\* The write to team_members, the audit record, COMMIT; row security may refuse.
WriteTeamMember(t, role, event) ==
    LET c == call[t]
    IN \/ ~AuditAdmitted(c.by, event) /\ Rollback(t, "Database")
       \/ /\ AuditAdmitted(c.by, event)
          /\ teamMember' = [teamMember EXCEPT ![c.team][c.who] = role]
          /\ Commit(t, {event})
          /\ UNCHANGED <<actor, users, slug, member, team, channel, channelMember, blind>>

----------------------------------------------------------------------------
AddTeamMemberRefusal(t) ==
    LET c == call[t]
        row == MemberSeen(c.by, c.org, c.who)
    IN IF ~SeesTeam(c.by, c.org, c.team) \/ row = NoMember THEN "NotFound"
       ELSE IF loc[t].departed = "Some(true)" THEN "ActorDeparted"
       ELSE IF row.status # "active" THEN "NotAnActiveMember" ELSE "none"

\* The INSERT first claims its primary key.
AddTeamMember(t) ==
    /\ At(t, "lock_organization", "add_team_member")
    /\ \/ /\ AddTeamMemberRefusal(t) # "none"
          /\ Rollback(t, AddTeamMemberRefusal(t))
       \/ /\ AddTeamMemberRefusal(t) = "none"
          /\ Start(t, "insert", Update, {TeamMemberRow(call[t].team, call[t].who)})
          /\ UNCHANGED loc

\* Then its foreign key locks the actor, which lock_actor has if it saw the actor.
InsertTeamMember(t) ==
    LET c == call[t]
    IN /\ At(t, "insert", "add_team_member")
       /\ \/ /\ teamMember[c.team][c.who] # "none"
             /\ Rollback(t, "AlreadyMember")
          \/ /\ teamMember[c.team][c.who] = "none"
             /\ Start(t, "write", KeyShare, {ActorRow(c.who)})
             /\ UNCHANGED loc

WriteTeamMembership(t) ==
    LET c == call[t]
    IN /\ At(t, "write", "add_team_member")
       /\ WriteTeamMember(t, c.role, team_member_added(c.org, c.who, c.team, c.role))

----------------------------------------------------------------------------
ChangeTeamMemberRole(t) ==
    LET c == call[t]
    IN /\ At(t, "lock_organization", "change_team_member_role")
       /\ \/ Listing(t) = "none" /\ Rollback(t, "NotFound")
          \/ /\ Listing(t) = c.role
             /\ End(t, "Ok") /\ UNCHANGED <<tables, blind>>
          \/ /\ Listing(t) \notin {"none", c.role}
             /\ loc' = [loc EXCEPT ![t].from = Listing(t)]
             /\ Start(t, "write", NoKeyUpdate, {TeamMemberRow(c.team, c.who)})

\* An UPDATE that finds its row gone changes nothing, and the record is written.
WriteTeamRole(t) ==
    LET c == call[t]
        row == teamMember[c.team][c.who]
    IN /\ At(t, "write", "change_team_member_role")
       /\ WriteTeamMember(t, IF row = "none" THEN "none" ELSE c.role,
              team_member_role_changed(c.org, c.who, c.team, loc[t].from, c.role))

----------------------------------------------------------------------------
\* DELETE FROM team_members: the row is found when the statement starts ...
RemoveTeamMember(t) ==
    LET c == call[t]
    IN /\ At(t, "lock_organization", "remove_team_member")
       /\ \/ Listing(t) = "none" /\ Rollback(t, "NotFound")
          \/ /\ Listing(t) # "none"
             /\ Start(t, "write", Update, {TeamMemberRow(c.team, c.who)})
             /\ UNCHANGED loc

\* ... and is no longer there if a departure removed it meanwhile.
WriteTeamRemoval(t) ==
    LET c == call[t]
    IN /\ At(t, "write", "remove_team_member")
       /\ \/ /\ teamMember[c.team][c.who] = "none"
             /\ Rollback(t, "NotFound")
          \/ /\ teamMember[c.team][c.who] # "none"
             /\ WriteTeamMember(t, "none",
                    team_member_removed(c.org, c.who, c.team, "removed"))
===============================================================================
