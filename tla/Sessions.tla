------------------------------- MODULE Sessions --------------------------------
(***************************************************************************)
(* sessions.rs: signing in, resolving and revoking a session, and me.      *)
(* sign_in verifies the password with the transaction open and nothing     *)
(* locked; only then it locks the actor, which queues it behind a          *)
(* departure, and looks for the users row again.                           *)
(*                                                                         *)
(* leave_service deletes the users row and, by cascade, its sessions.  The *)
(* locks on those rows are left out: whoever deletes them holds the actor  *)
(* FOR UPDATE, and a revocation takes nothing after its session row.       *)
(***************************************************************************)
EXTENDS Invites, Credentials

CONSTANTS
    Tokens,         \* session tokens, each with its hash
    StoredHash,     \* password_hash of each person
    InitialSessions \* the sessions a run may start with

VARIABLE session    \* sessions, by token

sessionVars == <<inviteVars, session>>

NoSession == [actor |-> 0, revoked |-> FALSE, expired |-> FALSE]

\* The context's actor (by) is known once the email has been looked up.
sign_in(e, password, k) ==
    [op |-> "sign_in", by |-> 0, email |-> e, password |-> password, token |-> k]
revoke_session(by, k) == [op |-> "revoke_session", by |-> by, token |-> k]
me(by) == [op |-> "me", by |-> by]

SessionRows == {NoSession} \cup [actor : Actors, revoked : BOOLEAN, expired : BOOLEAN]

\* users.password_hash of everybody, whatever became of the text
ASSUME StoredHashAssumption == StoredHash \in [Actors -> PHCs]

\* A run starts with sessions of people who are there.
ASSUME InitialSessionsAssumption ==
    \A s \in InitialSessions :
        /\ s \in [Tokens -> SessionRows]
        /\ \A db \in Initial, k \in Tokens : s[k] # NoSession => s[k].actor \in db.users

SessionsInit == InvitesInit /\ session \in InitialSessions

\* auth::new_session_token: 32 random bytes
FreshToken(c) ==
    c.op = "sign_in" =>
        session[c.token] = NoSession /\ \A u \in Tx : call[u].op = c.op => call[u].token # c.token

----------------------------------------------------------------------------
(* sign_in.                                                                *)

\* SELECT actor_id, password_hash: the context becomes the person's, if there is one.
ReadPerson(t) ==
    /\ At(t, "begin", "sign_in")
    /\ \E person \in Actors \cup {0} :
           /\ IF person = 0 THEN \A a \in Actors : email[a] # call[t].email
              ELSE email[person] = call[t].email
           /\ call' = [call EXCEPT ![t].by = person]
    /\ pc' = [pc EXCEPT ![t] = "verify"]
    /\ UNCHANGED <<tables, blind, locks, loc, result, ivars, session>>

\* The hash a sign-in verifies: the dummy where there is no person
HashFor(c) == IF c.by = 0 THEN DUMMY_PASSWORD_HASH ELSE StoredHash[c.by]

Accepted(c) == c.by # 0 /\ verify_with(c.password, HashFor(c)).ok

\* Mutant of Verify: the actor is not locked.
VerifyUnlocked(t) ==
    /\ At(t, "verify", "sign_in")
    /\ \/ ~Accepted(call[t]) /\ Answer(t, "InvalidCredentials")
       \/ Accepted(call[t]) /\ GoOn(t, "sign_in_actor", Share, {})
    /\ UNCHANGED session

\* Argon2 is done, or its worker has crashed; then lock_actor.
Verify(t) ==
    LET seen == {a \in {call[t].by} : SeesActor(a, a)}
    IN /\ At(t, "verify", "sign_in")
       /\ \/ Answer(t, "WorkerCrashed")
          \/ ~Accepted(call[t]) /\ Answer(t, "InvalidCredentials")
          \/ Accepted(call[t]) /\ GoOn(t, "sign_in_actor", Share, {ActorRow(a) : a \in seen})
       /\ UNCHANGED session

\* Under the lock: a departure that won the race is seen.  Then the token.
RereadPerson(t) ==
    LET gone == actor[call[t].by] # "live" \/ call[t].by \notin users
    IN /\ At(t, "sign_in_actor", "sign_in")
       /\ \/ gone /\ Answer(t, "InvalidCredentials")
          \/ ~gone /\ Answer(t, "TokenUnavailable")
          \/ ~gone /\ GoOn(t, "sign_in_insert", KeyShare, {})
       /\ UNCHANGED session

\* INSERT INTO sessions: its foreign key asks for the users row.
InsertSession(t) ==
    /\ At(t, "sign_in_insert", "sign_in")
    /\ \/ call[t].by \notin users /\ Answer(t, "Database") /\ UNCHANGED session
       \/ /\ call[t].by \in users /\ Answer(t, "Ok")
          /\ session' = [session EXCEPT ![call[t].token] = [NoSession EXCEPT !.actor = call[t].by]]

----------------------------------------------------------------------------
\* resolve_session: the actor of a session that is neither revoked nor expired, or 0
resolve_session(k) ==
    IF session[k].revoked \/ session[k].expired THEN 0 ELSE session[k].actor

\* UPDATE sessions: a repeated revocation keeps its time and succeeds too
RevokeSession(t) ==
    LET c == call[t]
        found == session[c.token].actor = c.by
    IN /\ At(t, "begin", "revoke_session")
       /\ \/ ~found /\ Answer(t, "NoSession") /\ UNCHANGED session
          \/ /\ found /\ Answer(t, "Ok")
             /\ session' = [session EXCEPT ![c.token].revoked = TRUE]

\* Mutant of ReadMe: deleted_at is not asked for.
ReadMeDeparted(t) ==
    At(t, "begin", "me") /\ Answer(t, "Ok") /\ UNCHANGED session

ReadMe(t) ==
    /\ At(t, "begin", "me")
    /\ Answer(t, IF actor[call[t].by] = "live" THEN "Ok" ELSE "NoSession")
    /\ UNCHANGED session

ExpireSession(k) ==
    /\ session[k] # NoSession /\ ~session[k].expired
    /\ session' = [session EXCEPT ![k].expired = TRUE]
    /\ UNCHANGED inviteVars

----------------------------------------------------------------------------
SessionsStep(t) ==
    \/ ReadPerson(t) \/ Verify(t) \/ RereadPerson(t) \/ InsertSession(t)
    \/ RevokeSession(t) \/ ReadMe(t)

\* Mutants of Cascade: the sessions stay; ON DELETE SET NULL.
CascadeNothing == UNCHANGED session
CascadeSetNull ==
    session' = [k \in Tokens |-> IF session[k].actor \in users \ users'
                                 THEN [session[k] EXCEPT !.actor = 0] ELSE session[k]]

\* ON DELETE CASCADE: a users row that goes takes its sessions along.
Cascade ==
    session' = [k \in Tokens |-> IF session[k].actor \in users \ users'
                                 THEN NoSession ELSE session[k]]

TenantStep(t) == ((Step(t) /\ KeepInvites) \/ InvitesStep(t)) /\ Cascade

\* The steps of the tenant and of session operations; Web begins the latter.
SessionsNext ==
    \/ InvitesNext /\ Cascade
    \/ \E t \in Tx : SessionsStep(t)
    \/ \E k \in Tokens : ExpireSession(k)

----------------------------------------------------------------------------
\* SignInError, SessionError
SessionResults ==
    {"InvalidCredentials", "TokenUnavailable", "NoSession", "WorkerCrashed"}

SessionTablesTypeOK ==
    /\ InviteTablesTypeOK
    /\ session \in [Tokens -> SessionRows]

\* auth: "a stored hash that cannot be used costs what a wrong password costs", and so
\* does an email nobody has: whatever became of the hash, argon2 runs once.
VerificationsCostTheSame ==
    \A t \in Tx : At(t, "verify", "sign_in") =>
        \A f \in Forms :
            verify_with(call[t].password, [HashFor(call[t]) EXCEPT !.form = f]).work = 1

\* HTTP.md: "A person who has left cannot sign in and has no sessions", whatever runs
\* at the same time: every session belongs to a person who is there.
SessionsHavePeople ==
    \A k \in Tokens : session[k] # NoSession =>
        session[k].actor \in users /\ actor[session[k].actor] = "live"

(***************************************************************************)
(* sessions.rs: the departure that commits between the two reads of a      *)
(* sign-in must not turn a 401 into a 500.  A sign-in fails as a database  *)
(* error only in a circle of waits, is refused only for a wrong password   *)
(* or a person who is not there, and makes a token for nobody else.        *)
(***************************************************************************)
SignInsAreAnsweredTruly ==
    [][\A t \in Tx :
          LET c == call[t]
              told(r) == c.op = "sign_in" /\ result[t] = "none" /\ result'[t] = r
              there == /\ c.by \in users /\ email[c.by] = c.email
                       /\ StoredHash[c.by] = [form |-> "whole", of |-> c.password]
          IN /\ told("Ok") \/ told("TokenUnavailable") => there
             /\ told("InvalidCredentials") => ~there
             /\ told("Database") => \E S \in SUBSET Tx : t \in S /\ Circle(S)]_sessionVars
===============================================================================
