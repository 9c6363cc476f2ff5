--------------------------------- MODULE MCWeb ---------------------------------
(***************************************************************************)
(* Small instances of Sessions and Web for TLC, in the organization of     *)
(* MCInvites.                                                              *)
(***************************************************************************)
EXTENDS MCInvites, People

\* Person 2 has session 1, person 1 an expired session 2; the others are to come.
OneSession ==
    { [k \in Tokens |-> CASE k = 1 -> [NoSession EXCEPT !.actor = 2]
                          [] k = 2 -> [NoSession EXCEPT !.actor = 1, !.expired = TRUE]
                          [] OTHER -> NoSession] }

\* Person 1's hash is one argon2 refuses.
Hashes ==
    [a \in Actors |-> [form |-> IF a = 1 THEN "refused" ELSE "whole", of |-> "right"]]

\* Every route, with each of the things that can be wrong with a request.  Email 2 is
\* person 2's; nobody has email 3 until person 3 accepts an invite with it.
RouteRequests ==
    { request(sign_in(2, "right", 3), TRUE, 0, "ok"),
      request(sign_in(2, "wrong", 4), TRUE, 0, "ok"),
      request(sign_in(3, "right", 4), TRUE, 0, "ok"),
      request(sign_in(1, DUMMY_PASSWORD_HASH.of, 4), TRUE, 0, "ok"),
      request(sign_in(2, "right", 3), FALSE, 0, "malformed"),
      request(sign_in(2, "right", 3), TRUE, 0, "malformed"),
      request(revoke_session(0, 1), TRUE, 1, "ok"),
      request(revoke_session(0, 3), FALSE, 3, "ok"),
      request(me(0), FALSE, 1, "ok"), request(me(0), FALSE, 3, "ok"),
      handshake(request(me(0), FALSE, 1, "ok")), handshake(request(me(0), FALSE, 2, "ok")),
      handshake(request(me(0), TRUE, 1, "ok")),
      request(create_invite(0, 1, 3, 1), TRUE, 1, "ok"),
      request(create_invite(0, 0, 3, 1), TRUE, 1, "malformed"),
      request(create_invite(0, 0, 3, 1), TRUE, 1, "ok"),
      request(create_invite(0, 1, 3, 1), TRUE, 2, "malformed"),
      request(revoke_invite(0, 1, 1), TRUE, 1, "ok"),
      request(revoke_invite(0, 1, 0), TRUE, 0, "ok"),
      request(accept_invite(1, 3, 3), TRUE, 0, "ok"),
      request(accept_invite(1, 2, 3), TRUE, 0, "ok"),
      request(accept_invite(1, 3, 3), TRUE, 0, "fields"),
      request(accept_invite(3, 3, 3), TRUE, 0, "fields"),
      request(accept_invite(1, 3, 3), TRUE, 0, "malformed") }

DepartureOrDemotion == { leave_service(2), change_member_role(1, 1, 2, "member") }

NoCalls == {}
===============================================================================
