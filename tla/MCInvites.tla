------------------------------- MODULE MCInvites -------------------------------
(***************************************************************************)
(* Small instances of Invites for TLC.  Actor 1 owns organization 1, actor *)
(* 2 is an admin there; actors from 3 on are yet to be made.               *)
(***************************************************************************)
EXTENDS MCTenancy, Invites

\* People 1 and 2, in organization 1.
Inviters ==
    { [Database(<<1, 1>> :> Row("owner", "active") @@ <<1, 2>> :> Row("admin", "active"),
                None, {}, None, {}) EXCEPT
          !.actor = [a \in Actors |-> IF a <= 2 THEN "live" ELSE "absent"],
          !.users = {1, 2}] }

Invited(kind, max, used, revoked, expired) ==
    [org |-> 1, kind |-> kind, max |-> max, used |-> used, revoked |-> revoked,
     expired |-> expired]

\* Invite 1 can be used once or twice, invite 2 is for a team, and the rest is to be made.
SomeInvites ==
    { [i \in InviteIds |-> IF i = 1 THEN Invited("organization", max, 0, FALSE, FALSE)
                           ELSE IF i = 2 THEN Invited("team", 1, 0, FALSE, FALSE)
                           ELSE NoInvite] : max \in {1, 2} }

OneUseLeft == { i \in SomeInvites : i[1].max = 1 }

\* The email of person a is a.
OwnEmails == [a \in Actors |-> IF a <= 2 THEN a ELSE 0]

\* Two take the last use, with emails of their own, one email or one that is taken.
AcceptCalls ==
    { accept_invite(1, 3, 3), accept_invite(1, 3, 4), accept_invite(1, 4, 4),
      accept_invite(1, 2, 3), accept_invite(2, 3, 3), accept_invite(3, 3, 4) }

\* Making, asking and revoking.
InviterCalls ==
    { create_invite(2, 1, 3, 1), revoke_invite(2, 1, 1), revoke_invite(2, 1, 3),
      revoke_invite(2, 1, 0), invite_is_usable(1) }

AllInviteCalls == AcceptCalls \cup InviterCalls

\* The performer is demoted, suspended or leaves.
DemotionCalls ==
    { change_member_role(1, 1, 2, "member"), suspend_member(1, 1, 2), leave_service(2) }
===============================================================================
