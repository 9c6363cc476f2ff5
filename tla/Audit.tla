-------------------------------- MODULE Audit ---------------------------------
(***************************************************************************)
(* crates/db/src/audit.rs: the events an operation writes into             *)
(* audit_events, and what a reader who only has those events, in commit    *)
(* order, makes of them.                                                   *)
(***************************************************************************)
EXTENDS RowLocks

OrganizationRoles == {"owner", "admin", "member"}
TeamRoles == {"manager", "member"}
Statuses == {"active", "suspended", "left"}

NoMember == [role |-> "none", status |-> "none"]
Member(role, status) == [role |-> role, status |-> status]
NoChannel == [org |-> 0, team |-> 0]

\* What the trail says where an event does not fit the events before it.
Garbled == "garbled"

MemberRows == [role : OrganizationRoles, status : Statuses] \cup {NoMember}

----------------------------------------------------------------------------
(* The constructors of Event.  "who" is target_id of an actor event.       *)

NoEvent == [action |-> "none", org |-> 0, who |-> 0, team |-> 0,
            channel |-> 0, from |-> "none", to |-> "none", reason |-> "none"]

organization_created(o) ==
    [NoEvent EXCEPT !.action = "organization.created", !.org = o]
member_added(o, a, role) ==
    [NoEvent EXCEPT !.action = "organization.member.added", !.org = o, !.who = a,
                    !.to = role]
member_role_changed(o, a, from, to) ==
    [NoEvent EXCEPT !.action = "organization.member.role_changed", !.org = o,
                    !.who = a, !.from = from, !.to = to]
member_suspended(o, a) ==
    [NoEvent EXCEPT !.action = "organization.member.suspended", !.org = o, !.who = a]
member_reactivated(o, a) ==
    [NoEvent EXCEPT !.action = "organization.member.reactivated", !.org = o, !.who = a]
member_left(o, a) ==
    [NoEvent EXCEPT !.action = "organization.member.left", !.org = o, !.who = a]
team_created(o, tm) ==
    [NoEvent EXCEPT !.action = "team.created", !.org = o, !.team = tm]
team_member_added(o, a, tm, role) ==
    [NoEvent EXCEPT !.action = "team.member.added", !.org = o, !.who = a,
                    !.team = tm, !.to = role]
team_member_role_changed(o, a, tm, from, to) ==
    [NoEvent EXCEPT !.action = "team.member.role_changed", !.org = o, !.who = a,
                    !.team = tm, !.from = from, !.to = to]
team_member_removed(o, a, tm, reason) ==
    [NoEvent EXCEPT !.action = "team.member.removed", !.org = o, !.who = a,
                    !.team = tm, !.reason = reason]
channel_created(o, ch, tm) ==
    [NoEvent EXCEPT !.action = "channel.created", !.org = o, !.channel = ch,
                    !.team = tm]
channel_member_added(o, a, ch) ==
    [NoEvent EXCEPT !.action = "channel.member.added", !.org = o, !.who = a,
                    !.channel = ch]
channel_member_left(o, a, ch) ==
    [NoEvent EXCEPT !.action = "channel.member.removed", !.org = o, !.who = a,
                    !.channel = ch, !.reason = "left_service"]

----------------------------------------------------------------------------
(* Reading the trail.  Every event of a transaction is about another row,  *)
(* so a row changes by the one event about it, or not at all.              *)

MemberActions == {"organization.member.added", "organization.member.role_changed",
                  "organization.member.suspended", "organization.member.reactivated",
                  "organization.member.left"}
TeamMemberActions == {"team.member.added", "team.member.role_changed",
                      "team.member.removed"}

MemberAfter(m, e) ==
    CASE e.action = "organization.member.added" /\ m = NoMember
             -> Member(e.to, "active")
      [] e.action = "organization.member.role_changed" /\ m.role = e.from
             /\ m.status \in {"active", "suspended"} -> Member(e.to, m.status)
      [] e.action = "organization.member.suspended" /\ m.status = "active"
             -> Member(m.role, "suspended")
      [] e.action = "organization.member.reactivated" /\ m.status = "suspended"
             -> Member(m.role, "active")
      [] e.action = "organization.member.left"
             /\ m.status \in {"active", "suspended"} -> Member(m.role, "left")
      [] OTHER -> Member(Garbled, Garbled)

TeamMemberAfter(role, e) ==
    CASE e.action = "team.member.added" /\ role = "none" -> e.to
      [] e.action = "team.member.role_changed" /\ role = e.from -> e.to
      [] e.action = "team.member.removed" /\ role # "none" -> "none"
      [] OTHER -> Garbled

TeamAfter(old, e) == IF old = 0 THEN e.org ELSE 0

ChannelAfter(old, e) == [org |-> e.org, team |-> e.team]

After(old, events, Apply(_, _)) ==
    IF events = {} THEN old ELSE Apply(old, CHOOSE e \in events : TRUE)

Replay(tr, events) ==
    LET of(actions) == {e \in events : e.action \in actions}
    IN [ created |-> tr.created \cup {e.org : e \in of({"organization.created"})},
         member |-> [o \in Orgs |-> [a \in Actors |->
             After(tr.member[o][a],
                   {e \in of(MemberActions) : e.org = o /\ e.who = a},
                   MemberAfter)]],
         team |-> [tm \in Teams |->
             After(tr.team[tm], {e \in of({"team.created"}) : e.team = tm}, TeamAfter)],
         teamMember |-> [tm \in Teams |-> [a \in Actors |->
             After(tr.teamMember[tm][a],
                   {e \in of(TeamMemberActions) : e.team = tm /\ e.who = a},
                   TeamMemberAfter)]],
         channel |-> [ch \in Channels |->
             After(tr.channel[ch], {e \in of({"channel.created"}) : e.channel = ch},
                   ChannelAfter)],
         channelMember |-> [ch \in Channels |->
             (tr.channelMember[ch]
                 \cup {e.who : e \in {f \in of({"channel.member.added"}) : f.channel = ch}})
                 \ {e.who : e \in {f \in of({"channel.member.removed"}) : f.channel = ch}}]]
===============================================================================
