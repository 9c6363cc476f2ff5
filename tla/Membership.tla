------------------------------ MODULE Membership ------------------------------
(***************************************************************************)
(* create_organization (identity.rs) and the three changes of a membership *)
(* (membership.rs).  Each is a read under the locks, which decides, and a  *)
(* write that ends the transaction.                                        *)
(***************************************************************************)
EXTENDS Store

\* The locked creator may found an organization with a well-formed slug.
CreateOrganizationRefusal(t) ==
    IF DepartedNow(t) = "None" THEN "ActorNotFound"
    ELSE IF DepartedNow(t) = "Some(true)" THEN "ActorDeparted"
    ELSE IF call[t].name \in Malformed THEN "InvalidSlug" ELSE "none"

CreateOrganization(t) ==
    /\ At(t, "lock_actor", "create_organization")
    /\ \/ /\ CreateOrganizationRefusal(t) # "none"
          /\ Rollback(t, CreateOrganizationRefusal(t))
       \/ /\ CreateOrganizationRefusal(t) = "none"
          /\ Start(t, "insert", Update, {SlugKey(call[t].name)})
          /\ UNCHANGED loc

\* The unique key is free to look at: organization, owner and audit, together.
InsertOrganization(t) ==
    LET c == call[t]
    IN /\ At(t, "insert", "create_organization")
       /\ \/ /\ \E o \in Orgs : slug[o] = c.name
             /\ Rollback(t, "SlugTaken")
          \/ /\ \A o \in Orgs : slug[o] # c.name
             /\ slug' = [slug EXCEPT ![c.org] = c.name]
             /\ member' = [member EXCEPT ![c.org][c.by] = Member("owner", "active")]
             /\ Commit(t, {organization_created(c.org),
                           member_added(c.org, c.by, "owner")})
             /\ UNCHANGED <<actor, users, team, teamMember, channel, channelMember, blind>>

\* The membership row the operation is about, as its performer sees it.
Target(t) == MemberSeen(call[t].by, call[t].org, call[t].who)

LastOwner(t) ==
    ~check_owner_change(active_owners(call[t].by, call[t].org), call[t].who)

\* A refusal, a commit that changes nothing, or on to the write.
Decide(t, refusal, unchanged, from) ==
    \/ refusal # "none" /\ Rollback(t, refusal)
    \/ refusal = "none" /\ unchanged /\ End(t, "Ok") /\ UNCHANGED <<tables, blind>>
    \/ /\ refusal = "none" /\ ~unchanged
       /\ loc' = [loc EXCEPT ![t].from = from]
       /\ Start(t, "write", Update, {})

\* UPDATE organization_members, the audit record, COMMIT; row security may refuse either,
\* the record to a performer that the UPDATE has just suspended.
WriteMember(t, role, status, event) ==
    LET c == call[t]
        row == SetColumns(member[c.org][c.who], role, status)
        updated == [member EXCEPT ![c.org][c.who] = row]
        admitted == /\ MemberUpdateAdmitted(c.by, c.org, c.who, row)
                    /\ AuditAdmittedIn(updated, channelMember, c.by, event)
    IN \/ ~admitted /\ Rollback(t, "Database")
       \/ /\ admitted
          /\ member' = updated
          /\ blind' = IF c.op = "reactivate_member" /\ loc[t].departed = "None"
                      THEN blind \cup {<<c.org, c.who>>} ELSE blind
          /\ Commit(t, {event})
          /\ UNCHANGED <<actor, users, slug, team, teamMember, channel, channelMember>>

----------------------------------------------------------------------------
ChangeMemberRoleRefusal(t) ==
    IF Target(t).status \in {"none", "left"} THEN "NotFound"
    ELSE IF /\ Target(t) = Member("owner", "active")
            /\ call[t].role # "owner" /\ LastOwner(t)
         THEN "LastOwner" ELSE "none"

ChangeMemberRole(t) ==
    /\ At(t, "lock_organization", "change_member_role")
    /\ Decide(t, ChangeMemberRoleRefusal(t), Target(t).role = call[t].role, Target(t).role)

WriteMemberRole(t) ==
    LET c == call[t]
    IN /\ At(t, "write", "change_member_role")
       /\ WriteMember(t, c.role, member[c.org][c.who].status,
                      member_role_changed(c.org, c.who, loc[t].from, c.role))

----------------------------------------------------------------------------
\* Mutant of SuspendMemberRefusal: the status is not asked for.
SuspendMemberRefusalAnyStatus(t) ==
    IF Target(t) = NoMember THEN "NotFound"
    ELSE IF Target(t).role = "owner" /\ LastOwner(t) THEN "LastOwner" ELSE "none"

SuspendMemberRefusal(t) ==
    IF Target(t) = NoMember THEN "NotFound"
    ELSE IF Target(t).status # "active" THEN "NotActive"
    ELSE IF Target(t).role = "owner" /\ LastOwner(t) THEN "LastOwner" ELSE "none"

SuspendMember(t) ==
    /\ At(t, "lock_organization", "suspend_member")
    /\ Decide(t, SuspendMemberRefusal(t), FALSE, "none")

WriteSuspension(t) ==
    LET c == call[t]
    IN /\ At(t, "write", "suspend_member")
       /\ WriteMember(t, member[c.org][c.who].role, "suspended",
                      member_suspended(c.org, c.who))

----------------------------------------------------------------------------
ReactivateMemberRefusal(t) ==
    IF Target(t) = NoMember THEN "NotFound"
    ELSE IF loc[t].departed = "Some(true)" THEN "ActorDeparted"
    ELSE IF Target(t).status # "suspended" THEN "NotSuspended" ELSE "none"

ReactivateMember(t) ==
    /\ At(t, "lock_organization", "reactivate_member")
    /\ Decide(t, ReactivateMemberRefusal(t), FALSE, "none")

WriteReactivation(t) ==
    LET c == call[t]
    IN /\ At(t, "write", "reactivate_member")
       /\ WriteMember(t, member[c.org][c.who].role, "active",
                      member_reactivated(c.org, c.who))
===============================================================================
