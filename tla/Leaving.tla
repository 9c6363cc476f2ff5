------------------------------- MODULE Leaving --------------------------------
(***************************************************************************)
(* leave_service (leaving.rs): one transaction across every organization   *)
(* the actor has a membership or a channel listing in.  It holds its own   *)
(* actor row and the organizations it is active in; what it erases in the  *)
(* others is guarded only by the KEY SHARE its audit records take there.   *)
(***************************************************************************)
EXTENDS Store

Leaver(t) == call[t].by

\* The statement for the next organization of a loop is about the smallest.
NextOf(S, o) == o \in S /\ \A p \in S : o <= p

\* The actor row is locked: go on, unless none was found or it has departed.
LeaveActor(t) ==
    LET gone == held[t][ActorRow(Leaver(t))] < Update \/ actor[Leaver(t)] # "live"
        active == fukulow_active_organizations(Leaver(t))
    IN /\ At(t, "leave_actor", "leave_service")
       /\ \/ gone /\ Rollback(t, "NotFound")
          \/ /\ ~gone
             /\ loc' = [loc EXCEPT ![t].orgs = active]
             /\ Start(t, "leave_orgs", Update, {OrgRow(o) : o \in active})

\* The owner rule in each locked organization, then the actor's own listings.
LeaveLastOwner(t) ==
    \E o \in loc[t].orgs : ~check_owner_change(active_owners(Leaver(t), o), Leaver(t))

LeaveChecks(t) ==
    LET rows == {o \in Orgs : member[o][Leaver(t)] # NoMember}
    IN /\ At(t, "leave_orgs", "leave_service")
       /\ \/ LeaveLastOwner(t) /\ Rollback(t, "LastOwner")
          \/ /\ ~LeaveLastOwner(t)
             /\ loc' = [loc EXCEPT ![t].memberships = rows, ![t].rest = rows,
                    ![t].current = {o \in rows : member[o][Leaver(t)].status # "left"},
                    ![t].listed = {o \in Orgs : \E ch \in Channels :
                        channel[ch].org = o /\ Leaver(t) \in channelMember[ch]}]
             /\ Start(t, "leave_next", Update, {})

\* Mutant of LeaveTeams: team rows are found only where the leaver is active.
LeaveTeamsWhereActive(t) ==
    \E o \in loc[t].rest :
        LET rows == {tm \in Teams : /\ team[tm] = o /\ o \in loc[t].orgs
                                    /\ teamMember[tm][Leaver(t)] # "none"}
        IN /\ At(t, "leave_next", "leave_service") /\ NextOf(loc[t].rest, o)
           /\ loc' = [loc EXCEPT ![t].removing = rows]
           /\ Start(t, "leave_audit", Update, {TeamMemberRow(tm, Leaver(t)) : tm \in rows})

\* leave_organization: DELETE FROM team_members ... RETURNING team_id
LeaveTeams(t) ==
    \E o \in loc[t].rest :
        LET rows == {tm \in Teams : team[tm] = o /\ teamMember[tm][Leaver(t)] # "none"}
        IN /\ At(t, "leave_next", "leave_service") /\ NextOf(loc[t].rest, o)
           /\ loc' = [loc EXCEPT ![t].removing = rows]
           /\ Start(t, "leave_audit", Update, {TeamMemberRow(tm, Leaver(t)) : tm \in rows})

\* The audit records of one organization; their foreign key locks it KEY SHARE.
LeaveAudits(t, o, removed) ==
    {team_member_removed(o, Leaver(t), tm, "left_service") : tm \in removed}
        \cup {member_left(p, Leaver(t)) : p \in {o} \cap loc[t].current}

\* Recorded is what the DELETE returned: another removal may have come before it.
LeaveAudit(t) ==
    \E o \in loc[t].rest :
        LET removed == {tm \in loc[t].removing : teamMember[tm][Leaver(t)] # "none"}
            events == LeaveAudits(t, o, removed)
        IN /\ At(t, "leave_audit", "leave_service") /\ NextOf(loc[t].rest, o)
           /\ IF \A e \in events : AuditAdmitted(Leaver(t), e)
              THEN /\ loc' = [loc EXCEPT ![t].rest = @ \ {o}, ![t].removing = {},
                                          ![t].removed = @ \cup removed]
                   /\ Start(t, "leave_next", KeyShare, {OrgRow(e.org) : e \in events})
              ELSE Rollback(t, "Database")

\* The listings as the departure sees them: without its own it has deleted.
ListingsLeft(t, deleted) ==
    [ch \in Channels |-> IF ch \in deleted
                         THEN channelMember[ch] \ {Leaver(t)} ELSE channelMember[ch]]

\* Mutant of ListedIn: the listings of an outside actor are not seen.
ListedInOfMembers(t, o) ==
    {ch \in Channels :
        /\ channel[ch].org = o /\ o \in loc[t].memberships
        /\ Leaver(t) \in ListingsLeft(t, loc[t].unlisted)[ch]}

\* The leaver's listings in the channels of one organization.
ListedIn(t, o) ==
    {ch \in Channels :
        channel[ch].org = o /\ Leaver(t) \in ListingsLeft(t, loc[t].unlisted)[ch]}

\* Mutant of LeaveChannels: the DELETE before the records.
LeaveChannelsDeleteFirst(t) ==
    \E o \in loc[t].listed :
        LET deleted == loc[t].unlisted \cup ListedIn(t, o)
            events == {channel_member_left(o, Leaver(t), ch) : ch \in ListedIn(t, o)}
        IN /\ At(t, "leave_next", "leave_service") /\ loc[t].rest = {}
           /\ NextOf(loc[t].listed, o)
           /\ IF \A e \in events :
                    AuditAdmittedIn(member, ListingsLeft(t, deleted), Leaver(t), e)
              THEN /\ loc' = [loc EXCEPT ![t].listed = @ \ {o}, ![t].unlisted = deleted]
                   /\ Start(t, "leave_next", KeyShare, {OrgRow(e.org) : e \in events})
              ELSE Rollback(t, "Database")

\* leave_channels: the records while the listings still stand, then the DELETE.
LeaveChannels(t) ==
    \E o \in loc[t].listed :
        LET listings == ListedIn(t, o)
            events == {channel_member_left(o, Leaver(t), ch) : ch \in listings}
            seen == ListingsLeft(t, loc[t].unlisted)
        IN /\ At(t, "leave_next", "leave_service") /\ loc[t].rest = {}
           /\ NextOf(loc[t].listed, o)
           /\ IF \A e \in events : AuditAdmittedIn(member, seen, Leaver(t), e)
              THEN /\ loc' = [loc EXCEPT ![t].listed = @ \ {o},
                                          ![t].unlisted = @ \cup listings]
                   /\ Start(t, "leave_next", KeyShare, {OrgRow(e.org) : e \in events})
              ELSE Rollback(t, "Database")

\* Mutant of LeaveEvents: status == Active where the code asks for status != Left.
LeaveEventsOfActive(t) ==
    {member_left(o, Leaver(t)) :
         o \in {p \in loc[t].current : member[p][Leaver(t)].status = "active"}}
        \cup {team_member_removed(team[tm], Leaver(t), tm, "left_service") :
                  tm \in loc[t].removed}
        \cup {channel_member_left(channel[ch].org, Leaver(t), ch) :
                  ch \in loc[t].unlisted}

LeaveEvents(t) ==
    {member_left(o, Leaver(t)) : o \in loc[t].current}
        \cup {team_member_removed(team[tm], Leaver(t), tm, "left_service") :
                  tm \in loc[t].removed}
        \cup {channel_member_left(channel[ch].org, Leaver(t), ch) :
                  ch \in loc[t].unlisted}

\* Every membership becomes left, users and sessions go, deleted_at is set.
LeaveCommit(t) ==
    LET a == Leaver(t)
    IN /\ At(t, "leave_next", "leave_service")
       /\ loc[t].rest = {} /\ loc[t].listed = {}
       /\ member' = [o \in Orgs |-> IF o \in loc[t].memberships
                        THEN [member[o] EXCEPT ![a] = SetColumns(@, @.role, "left")]
                        ELSE member[o]]
       /\ teamMember' = [tm \in Teams |-> IF tm \in loc[t].removed
                            THEN [teamMember[tm] EXCEPT ![a] = "none"]
                            ELSE teamMember[tm]]
       /\ channelMember' = ListingsLeft(t, loc[t].unlisted)
       /\ users' = users \ {a}
       /\ actor' = [actor EXCEPT ![a] = "departed"]
       /\ Commit(t, LeaveEvents(t))
       /\ UNCHANGED <<slug, team, channel, blind>>
===============================================================================
