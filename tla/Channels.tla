------------------------------- MODULE Channels -------------------------------
(***************************************************************************)
(* channels.rs: creating a channel and listing an actor in one.  An actor  *)
(* may be listed in a channel of an organization it is no member of.       *)
(***************************************************************************)
EXTENDS Store

\* The organization's lock is held: the team must be its own.
CreateChannelRefusal(c) ==
    IF c.team # 0 /\ ~SeesTeam(c.by, c.org, c.team) THEN "NotFound" ELSE "none"

CreateChannel(t) ==
    /\ At(t, "lock_organization", "create_channel")
    /\ \/ /\ CreateChannelRefusal(call[t]) # "none"
          /\ Rollback(t, CreateChannelRefusal(call[t]))
       \/ /\ CreateChannelRefusal(call[t]) = "none"
          /\ Start(t, "write", Update, {})
          /\ UNCHANGED loc

\* Mutant of NameTaken: one unique key, to which every NULL team is another.
NameTakenInTeam(c) ==
    \E ch \in Channels :
        /\ channel[ch] = [org |-> c.org, team |-> c.team, name |-> c.name]
        /\ c.team # 0

\* channels_team_name_key and channels_organization_name_key
NameTaken(c) ==
    \E ch \in Channels :
        channel[ch] = [org |-> c.org, team |-> c.team, name |-> c.name]

\* Row security, the CHECK on the name, then the unique key; INSERT, record, COMMIT.
WriteChannelRefusal(c) ==
    IF ~AuditAdmitted(c.by, channel_created(c.org, c.channel, c.team)) THEN "Database"
    ELSE IF c.name \in Malformed THEN "Database"
    ELSE IF NameTaken(c) THEN "NameTaken" ELSE "none"

WriteChannel(t) ==
    LET c == call[t]
    IN /\ At(t, "write", "create_channel")
       /\ \/ WriteChannelRefusal(c) # "none" /\ Rollback(t, WriteChannelRefusal(c))
          \/ /\ WriteChannelRefusal(c) = "none"
             /\ channel' = [channel EXCEPT ![c.channel] =
                    [org |-> c.org, team |-> c.team, name |-> c.name]]
             /\ Commit(t, {channel_created(c.org, c.channel, c.team)})
             /\ UNCHANGED <<actor, users, slug, member, team, teamMember,
                            channelMember, blind>>

----------------------------------------------------------------------------
AddChannelMemberRefusal(t) ==
    LET c == call[t]
    IN IF ~SeesChannel(c.by, c.org, c.channel) THEN "NotFound"
       ELSE IF channel[c.channel].team = 0 THEN "OrganizationScoped"
       ELSE IF loc[t].departed = "None" THEN "NotFound"
       ELSE IF loc[t].departed = "Some(true)" THEN "ActorDeparted" ELSE "none"

AddChannelMember(t) ==
    /\ At(t, "lock_organization", "add_channel_member")
    /\ \/ /\ AddChannelMemberRefusal(t) # "none"
          /\ Rollback(t, AddChannelMemberRefusal(t))
       \/ /\ AddChannelMemberRefusal(t) = "none"
          /\ Start(t, "write", Update, {})
          /\ UNCHANGED loc

\* The channel was seen under the lock, so the performer is active and row security
\* admits the write.
WriteChannelMember(t) ==
    LET c == call[t]
    IN /\ At(t, "write", "add_channel_member")
       /\ \/ /\ c.who \in channelMember[c.channel]
             /\ Rollback(t, "AlreadyMember")
          \/ /\ c.who \notin channelMember[c.channel]
             /\ channelMember' = [channelMember EXCEPT ![c.channel] = @ \cup {c.who}]
             /\ Commit(t, {channel_member_added(c.org, c.who, c.channel)})
             /\ UNCHANGED <<actor, users, slug, member, team, teamMember, channel, blind>>
===============================================================================
