---------------------------------- MODULE Web ----------------------------------
(***************************************************************************)
(* crates/app: the HTTP routes in front of the session and invite          *)
(* operations.  A request is checked for its Origin, then its session in a *)
(* transaction of its own, then its body; what the session said may be     *)
(* stale when the operation begins.  Accepting an invite asks whether the  *)
(* invite is usable, hashes the password outside all transactions and only *)
(* then begins.                                                            *)
(***************************************************************************)
EXTENDS Sessions

CONSTANT WebRequests    \* the requests a run may make

(***************************************************************************)
(* A request is the call its handler makes and what the handler reads      *)
(* before: whether the Origin is the public one, whether it asks for a     *)
(* WebSocket, the session cookie (0: none), the body ("fields": the token  *)
(* is a string, another field is invalid).  Organization or invite 0: a    *)
(* path segment that is not a UUID.                                        *)
(***************************************************************************)
request(c, origin, cookie, body) ==
    [f \in DOMAIN c \cup {"origin", "upgrade", "cookie", "body"} |->
        CASE f = "origin" -> origin [] f = "upgrade" -> FALSE
          [] f = "cookie" -> cookie [] f = "body" -> body
          [] OTHER -> c[f]]

\* The same with an "Upgrade: websocket" header.
handshake(r) == [r EXCEPT !.upgrade = TRUE]

\* A JSON object; with all its fields there, of their types and within their limits.
object(r) == r.body # "malformed"
well_formed(r) == r.body = "ok"

\* A path segment that is a UUID of 36 characters.
path_identifier(segment) == segment # 0

NeedsSession == {"revoke_session", "me", "create_invite", "revoke_invite"}

changes_state(r) == r.op # "me"

\* Mutant of checks_origin: the method alone decides.
checks_origin_of_changes(r) == changes_state(r)

\* protect: whose Origin must be the public one
checks_origin(r) == changes_state(r) \/ r.upgrade

Routes == NeedsSession \cup {"sign_in", "accept_invite"}

\* What the types of a request say: of the call, and of what the handler reads before.
ASSUME WebRequestsAssumption ==
    \A r \in WebRequests :
        /\ r.op \in Routes /\ InviteCallOK(r)
        /\ {"origin", "upgrade", "cookie", "body"} \subseteq DOMAIN r
        /\ r.origin \in BOOLEAN /\ r.upgrade \in BOOLEAN /\ r.cookie \in Tokens \cup {0}
        /\ r.op = "sign_in" => /\ {"email", "password", "token"} \subseteq DOMAIN r
                               /\ r.email \in Emails /\ r.token \in Tokens
        /\ r.op = "revoke_session" => "token" \in DOMAIN r /\ r.token \in Tokens

\* protect
Receive(t) ==
    \E r \in WebRequests :
        LET refused == checks_origin(r) /\ ~r.origin
        IN /\ pc[t] = "idle" /\ FreshToken(r) /\ FreshInvite(r)
           /\ call' = [call EXCEPT ![t] = r]
           /\ pc' = [pc EXCEPT ![t] = IF refused THEN "done"
                        ELSE IF r.op \in NeedsSession THEN "web_session" ELSE "web_body"]
           /\ result' = [result EXCEPT ![t] = IF refused THEN "BadOrigin" ELSE "none"]
           /\ UNCHANGED <<tables, blind, locks, loc, ivars, session>>

\* What a handler refuses once it knows the actor: create's body, then the path.
HandlerRefusal(r) ==
    IF r.op = "create_invite" /\ ~well_formed(r) THEN "InvalidBody"
    ELSE IF r.op \in Inviting /\ ~path_identifier(r.org) THEN "NoIdentifier" ELSE "none"

\* The handler begins its operation as this actor.
BeginOperation(t, a) ==
    /\ call' = [call EXCEPT ![t].by = a]
    /\ pc' = [pc EXCEPT ![t] = "begin"]
    /\ UNCHANGED <<tables, blind, locks, loc, result, ivars, session>>

Refuse(t, r) == Answer(t, r) /\ UNCHANGED session

\* Authenticated::from_request_parts
Authenticate(t) ==
    LET r == call[t]
        a == IF r.cookie = 0 THEN 0 ELSE resolve_session(r.cookie)
    IN /\ pc[t] = "web_session"
       /\ \/ a = 0 /\ Refuse(t, "NoSession")
          \/ a # 0 /\ HandlerRefusal(r) # "none" /\ Refuse(t, HandlerRefusal(r))
          \/ a # 0 /\ HandlerRefusal(r) = "none" /\ BeginOperation(t, a)

ReadSignIn(t) ==
    /\ At(t, "web_body", "sign_in")
    /\ \/ ~well_formed(call[t]) /\ Refuse(t, "InvalidBody")
       \/ well_formed(call[t]) /\ BeginOperation(t, 0)

\* Mutant of AcceptanceRefusal: all fields are checked before the token is looked up.
AcceptanceRefusalFieldsFirst(r) ==
    IF ~well_formed(r) THEN "InvalidBody"
    ELSE IF ~Usable(r.invite) THEN "InviteUnusable" ELSE "none"

AcceptanceRefusal(r) ==
    IF ~object(r) THEN "InvalidBody"
    ELSE IF ~Usable(r.invite) THEN "InviteUnusable"
    ELSE IF ~well_formed(r) THEN "InvalidBody" ELSE "none"

\* accept: the usable-token filter
FilterAcceptance(t) ==
    LET refusal == AcceptanceRefusal(call[t])
    IN /\ At(t, "web_body", "accept_invite")
       /\ \/ refusal # "none" /\ Refuse(t, refusal)
          \/ refusal = "none" /\ GoOn(t, "web_hash", KeyShare, {}) /\ UNCHANGED session

\* auth::hash_password
HashPassword(t) ==
    /\ At(t, "web_hash", "accept_invite")
    /\ Refuse(t, "HashFailed") \/ BeginOperation(t, call[t].by)

----------------------------------------------------------------------------
(* The handlers' map_err, and their answers.                               *)

session_error(r) == IF r = "NoSession" THEN 401 ELSE 500
sign_in_error(r) == IF r = "InvalidCredentials" THEN 401 ELSE 500
create_error(r) == CASE r = "NotAMember" -> 404 [] r = "Forbidden" -> 403 [] OTHER -> 500
revoke_error(r) ==
    CASE r \in {"NotAMember", "NotFound"} -> 404 [] r = "Forbidden" -> 403 [] OTHER -> 500
\* Mutant of accept_error: only the filter before is expected to find invites unusable.
accept_error_of_email(r) == IF r = "EmailTaken" THEN 409 ELSE 500
accept_error(r) == CASE r = "InviteUnusable" -> 404 [] r = "EmailTaken" -> 409 [] OTHER -> 500

Success(op) == CASE op = "create_invite" -> 201 [] op = "me" -> 200 [] OTHER -> 204

\* 0: the client has gone
Status(op, r) ==
    IF r = "Ok" THEN Success(op)
    ELSE IF r = "Cancelled" THEN 0
    ELSE IF r = "BadOrigin" THEN 403
    ELSE IF r = "InvalidBody" THEN 422
    ELSE IF r = "NoIdentifier" THEN 404
    ELSE IF r = "NoSession" \/ op \in {"me", "revoke_session"} THEN session_error(r)
    ELSE CASE op = "sign_in" -> sign_in_error(r)
           [] op = "create_invite" -> create_error(r)
           [] op = "revoke_invite" -> revoke_error(r)
           [] op = "accept_invite" -> accept_error(r)

WebStep(t) ==
    Authenticate(t) \/ ReadSignIn(t) \/ FilterAcceptance(t) \/ HashPassword(t)

WebNext == SessionsNext \/ \E t \in Tx : Receive(t) \/ WebStep(t)

WebSpec == SessionsInit /\ [][WebNext]_sessionVars

----------------------------------------------------------------------------
\* What handlers refuse before an operation
WebResults == {"BadOrigin", "InvalidBody", "NoIdentifier", "HashFailed"}

WebTypeOK ==
    /\ SessionTablesTypeOK
    /\ result \in [Tx -> Results \cup InviteResults \cup SessionResults \cup WebResults]

Answered(t) == call'[t].op \in Routes /\ result[t] = "none" /\ result'[t] # "none"

\* HTTP.md: the statuses of each route, and 403 where a GET asks for a WebSocket;
\* 0 is no answer
Documented(r) ==
    {0, 500} \cup
    CASE r.op = "sign_in" -> {204, 403, 422, 401}
      [] r.op = "revoke_session" -> {204, 403, 401}
      [] r.op = "me" -> {200, 401} \cup (IF r.upgrade THEN {403} ELSE {})
      [] r.op = "create_invite" -> {201, 403, 401, 422, 404}
      [] r.op = "revoke_invite" -> {204, 403, 401, 404}
      [] r.op = "accept_invite" -> {204, 403, 422, 404, 409}

(***************************************************************************)
(* HTTP.md: every route answers with a status its table lists, or 403 for  *)
(* a WebSocket handshake, whatever happened since the session or the       *)
(* invite was looked at, and 500 only where randomness or a worker failed  *)
(* or waits went in a circle.                                              *)
(***************************************************************************)
AnswersAsDocumented ==
    [][\A t \in Tx :
          LET r == result'[t]
              s == Status(call'[t].op, r)
          IN Answered(t) =>
                /\ s \in Documented(call'[t])
                /\ s = 500 => \/ r \in {"TokenUnavailable", "HashFailed", "WorkerCrashed"}
                              \/ \E S \in SUBSET Tx : t \in S /\ Circle(S)]_sessionVars

(***************************************************************************)
(* A request is served as somebody only while that person is there: one    *)
(* who left between the session lookup and the operation gets 401 or 404.  *)
(***************************************************************************)
DepartedAreNotServed ==
    [][\A t \in Tx :
          Answered(t) /\ call[t].op \in NeedsSession /\ result'[t] \in {"Ok", "Forbidden"}
              => actor[call[t].by] = "live" /\ call[t].by \in users]_sessionVars

(***************************************************************************)
(* HTTP.md: "Checks run in this order; the first failure wins", origin,    *)
(* credential, body, operation; of an acceptance, whether the token is     *)
(* usable before the other fields.  "GET routes [...] need no Origin,      *)
(* except for a WebSocket upgrade."                                        *)
(***************************************************************************)
FirstFailureWins ==
    [][\A t \in Tx :
          LET r == call'[t]
              s == Status(r.op, result'[t])
          IN Answered(t) =>
                /\ (s = 403 /\ result'[t] # "Forbidden")
                       <=> (~r.origin /\ (r.op = "me" => r.upgrade))
                /\ s = 422 /\ r.op \in NeedsSession => resolve_session(r.cookie) # 0
                /\ s \in {201, 404, 500} /\ r.op = "create_invite" => r.body = "ok"
                /\ s = 422 /\ r.op = "accept_invite" /\ r.body = "fields" => Usable(r.invite)
                /\ s = 409 => r.body = "ok"]_sessionVars
===============================================================================
