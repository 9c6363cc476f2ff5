------------------------------- MODULE MCService -------------------------------
(***************************************************************************)
(* Crosswise leavers beside a post and a sign-in of one of them: channel 1 *)
(* belongs to the organization in which person 2 is active.                *)
(***************************************************************************)
EXTENDS MCTenancy, Service

Crowd == { Database(CrosswiseRows, None, {}, 1 :> [org |-> 2, team |-> 0, name |-> 1], {}) }

CrowdEmails == [a \in Actors |-> a]

CrowdHashes == [a \in Actors |-> [form |-> "whole", of |-> "right"]]

NoInvites == { [i \in InviteIds |-> NoInvite] }
NoSessions == { [k \in Tokens |-> NoSession] }
NoMessages == { [i \in MessageIds |-> NoMessage] }

CrowdLeaves == { leave_service(1), leave_service(2) }

CrowdPosts == { post_message(2, 2, 1, 1, TRUE) }

CrowdRequests == { request(sign_in(2, "right", 1), TRUE, 0, "ok") }

NoCalls == {}
===============================================================================
