------------------------------ MODULE Governance ------------------------------
(***************************************************************************)
(* What the membership operations promise, without transactions or locks:  *)
(* every change of a membership is one atomic step, taken by an active     *)
(* member of the organization in the state in which it takes effect, and   *)
(* no step takes the last active owner from an organization.               *)
(*                                                                         *)
(* The exception the code makes is part of the promise: in an organization *)
(* where a membership was reactivated while its actor was not locked       *)
(* (blind), the owner rule is not promised any more.                       *)
(***************************************************************************)
EXTENDS Naturals

CONSTANTS Actors, Orgs, Names

VARIABLES actor, slug, member, blind

gvars == <<actor, slug, member, blind>>

Membership(role, status) == [role |-> role, status |-> status]

Owns(o, a) == member[o][a] = Membership("owner", "active")

Active(o, a) == actor[a] = "live" /\ member[o][a].status = "active"

\* Somebody else owns o, where that is promised.
OwnedWithout(o, a) ==
    (\A b \in Actors : <<o, b>> \notin blind) => \E b \in Actors \ {a} : Owns(o, b)

SetRow(o, a, row) == member' = [member EXCEPT ![o][a] = row]

\* A live actor founds an organization under a slug no other has, and owns it.
Found(a, o, n) ==
    /\ actor[a] = "live"
    /\ slug[o] = 0 /\ \A p \in Orgs : slug[p] # n
    /\ slug' = [slug EXCEPT ![o] = n]
    /\ SetRow(o, a, Membership("owner", "active"))
    /\ UNCHANGED <<actor, blind>>

\* A new person is admitted to one organization, as a member.
Join(a, o) ==
    /\ actor[a] = "absent" /\ slug[o] # 0
    /\ actor' = [actor EXCEPT ![a] = "live"]
    /\ SetRow(o, a, Membership("member", "active"))
    /\ UNCHANGED <<slug, blind>>

ChangeRole(by, o, a, role) ==
    /\ Active(o, by)
    /\ member[o][a].status \in {"active", "suspended"} /\ member[o][a].role # role
    /\ Owns(o, a) => OwnedWithout(o, a)
    /\ SetRow(o, a, Membership(role, member[o][a].status))
    /\ UNCHANGED <<actor, slug, blind>>

Suspend(by, o, a) ==
    /\ Active(o, by)
    /\ member[o][a].status = "active"
    /\ Owns(o, a) => OwnedWithout(o, a)
    /\ SetRow(o, a, Membership(member[o][a].role, "suspended"))
    /\ UNCHANGED <<actor, slug, blind>>

Reactivate(by, o, a) ==
    /\ Active(o, by)
    /\ member[o][a].status = "suspended" /\ actor[a] = "live"
    /\ SetRow(o, a, Membership(member[o][a].role, "active"))
    /\ blind' \in {blind, blind \cup {<<o, a>>}}
    /\ UNCHANGED <<actor, slug>>

\* A person leaves all organizations at once, or none.
Leave(a) ==
    /\ actor[a] = "live"
    /\ \A o \in Orgs : Owns(o, a) => OwnedWithout(o, a)
    /\ actor' = [actor EXCEPT ![a] = "departed"]
    /\ member' = [o \in Orgs |-> IF member[o][a].status = "none" THEN member[o]
                     ELSE [member[o] EXCEPT ![a] = Membership(@.role, "left")]]
    /\ UNCHANGED <<slug, blind>>

\* Of steps that change something: the others stutter.
GNext ==
    /\ gvars' # gvars
    /\ \/ \E a \in Actors, o \in Orgs, n \in Names : Found(a, o, n)
       \/ \E by \in Actors, o \in Orgs, a \in Actors :
              \/ \E role \in {"owner", "admin", "member"} : ChangeRole(by, o, a, role)
              \/ Suspend(by, o, a)
              \/ Reactivate(by, o, a)
       \/ \E a \in Actors, o \in Orgs : Join(a, o)
       \/ \E a \in Actors : Leave(a)

\* Only how memberships change is promised here; the initial tables are Store's.
GSpec == [][GNext]_gvars
===============================================================================
