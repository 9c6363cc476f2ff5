-------------------------------- MODULE Server --------------------------------
(***************************************************************************)
(* main.rs, http::run, shutdown.rs and connection.rs: the process from its *)
(* start to its exit.  The signals are registered before the listener is   *)
(* bound and announced; a signal stops the listener and lets the requests  *)
(* in flight finish; only then the connection pool is closed.              *)
(*                                                                         *)
(* A request holds at most one connection of the pool, for one transaction *)
(* at a time, and waits for a free one no longer than acquire_timeout.     *)
(***************************************************************************)
EXTENDS Naturals, FiniteSets

CONSTANTS
    Clients,        \* one request each
    MaxConnections, \* of the pool: 10 in the code
    MaxBegins       \* transactions a handler begins: session or invite lookup, operation

ASSUME PoolAssumption == MaxConnections \in Nat \ {0} /\ MaxBegins \in Nat

VARIABLES
    phase,      \* how far main has come
    registered, \* the signal handlers are installed
    announced,  \* the listener is bound and said so
    signalled,  \* a signal has arrived and its handler knows
    pool,       \* "none", "open" or "closed"
    req,        \* each request: where it is
    begins      \* each request: the transactions it may still begin

process == <<phase, registered, announced, signalled, pool>>
svars == <<process, req, begins>>

Over == {"succeeded", "failed", "killed"}
Phases == {"configure", "connect", "register", "bind", "serve", "drain", "close",
           "closing"} \cup Over

\* In flight: accepted and not answered.
InFlight == {"handling", "waiting", "holding"}

ServerInit ==
    /\ phase = "configure" /\ pool = "none"
    /\ registered = FALSE /\ announced = FALSE /\ signalled = FALSE
    /\ req = [c \in Clients |-> "unsent"] /\ begins = [c \in Clients |-> MaxBegins]

\* telemetry::init, bind_address, public_origin, database_url: each may refuse
Configure ==
    /\ phase = "configure" /\ phase' \in {"connect", "failed"}
    /\ UNCHANGED <<registered, announced, signalled, pool, req, begins>>

\* db::connect, with its round trip
Connect ==
    /\ phase = "connect"
    /\ \/ phase' = "failed" /\ UNCHANGED pool
       \/ phase' = "register" /\ pool' = "open"
    /\ UNCHANGED <<registered, announced, signalled, req, begins>>

\* Mutant of Register: the handlers are left for later.
RegisterLate ==
    /\ phase = "register" /\ phase' = "bind"
    /\ UNCHANGED <<registered, announced, signalled, pool, req, begins>>

\* shutdown::register; where it fails, run returns the error
Register ==
    /\ phase = "register"
    /\ \/ phase' = "close" /\ UNCHANGED registered
       \/ phase' = "bind" /\ registered' = TRUE
    /\ UNCHANGED <<announced, signalled, pool, req, begins>>

\* TcpListener::bind; an address in use ends run with an error
Bind ==
    /\ phase = "bind"
    /\ \/ phase' = "close" /\ UNCHANGED announced
       \/ phase' = "serve" /\ announced' = TRUE
    /\ UNCHANGED <<registered, signalled, pool, req, begins>>

\* SIGINT or SIGTERM: without a handler it ends the process
Signal ==
    /\ phase \notin Over
    /\ \/ registered /\ signalled' = TRUE /\ UNCHANGED phase
       \/ ~registered /\ phase' = "killed" /\ UNCHANGED signalled
    /\ UNCHANGED <<registered, announced, pool, req, begins>>

\* with_graceful_shutdown: the listener takes no more connections
StopListening ==
    /\ phase = "serve" /\ signalled /\ phase' = "drain"
    /\ UNCHANGED <<registered, announced, signalled, pool, req, begins>>

\* Mutants of Drained: nobody is waited for; a client that sent nothing is too.
DrainedAtOnce ==
    /\ phase = "drain" /\ phase' = "close"
    /\ UNCHANGED <<registered, announced, signalled, pool, req, begins>>
DrainedOfAll ==
    /\ phase = "drain" /\ \A c \in Clients : req[c] \notin InFlight \cup {"unsent"}
    /\ phase' = "close"
    /\ UNCHANGED <<registered, announced, signalled, pool, req, begins>>

Drained ==
    /\ phase = "drain" /\ \A c \in Clients : req[c] \notin InFlight
    /\ phase' = "close"
    /\ UNCHANGED <<registered, announced, signalled, pool, req, begins>>

\* pool.close: no connection is given any more; it returns once all are back.
ClosePool ==
    /\ phase = "close" /\ phase' = "closing" /\ pool' = "closed"
    /\ UNCHANGED <<registered, announced, signalled, req, begins>>

\* main returns what run returned: Ok only after a drain.
Exit ==
    /\ phase = "closing" /\ \A c \in Clients : req[c] # "holding"
    /\ phase' = IF announced THEN "succeeded" ELSE "failed"
    /\ UNCHANGED <<registered, announced, signalled, pool, req, begins>>

----------------------------------------------------------------------------
Move(c, from, to) ==
    /\ phase \notin Over
    /\ req[c] \in from /\ req' = [req EXCEPT ![c] = to]
    /\ UNCHANGED process

Accept(c) == phase = "serve" /\ Move(c, {"unsent"}, "handling") /\ UNCHANGED begins

\* health, every refusal before an operation, and the answer after the last one
AnswerRequest(c) == Move(c, {"handling"}, "answered") /\ UNCHANGED begins

\* Mutants of WantConnection: a handler that tries again and again; one transaction more.
WantConnectionAgain(c) == Move(c, {"handling"}, "waiting") /\ UNCHANGED begins
WantConnectionMore(c) ==
    /\ Move(c, {"handling"}, "waiting") /\ begins' = [begins EXCEPT ![c] = @ - 1]

\* pool.begin()
WantConnection(c) ==
    /\ begins[c] > 0 /\ Move(c, {"handling"}, "waiting")
    /\ begins' = [begins EXCEPT ![c] = @ - 1]

Free == Cardinality({c \in Clients : req[c] = "holding"}) < MaxConnections

AcquireConnection(c) ==
    pool = "open" /\ Free /\ Move(c, {"waiting"}, "holding") /\ UNCHANGED begins

\* acquire_timeout, or a pool that is closed: a database error, 500
AcquireTimeout(c) ==
    (~Free \/ pool # "open") /\ Move(c, {"waiting"}, "failed") /\ UNCHANGED begins

\* Commit or rollback
Release(c) == Move(c, {"holding"}, "handling") /\ UNCHANGED begins

\* The client hangs up: its handler is dropped, and its transaction with it.
HangUp(c) == Move(c, InFlight, "gone") /\ UNCHANGED begins

ServerStep ==
    Configure \/ Connect \/ Register \/ Bind \/ StopListening \/ Drained \/ ClosePool \/ Exit

RequestStep(c) ==
    \/ AnswerRequest(c) \/ WantConnection(c) \/ AcquireConnection(c)
    \/ AcquireTimeout(c) \/ Release(c)

ServerNext ==
    ServerStep \/ Signal \/ \E c \in Clients : Accept(c) \/ RequestStep(c) \/ HangUp(c)

ServerSpec == ServerInit /\ [][ServerNext]_svars

\* The process and each of its requests go on by themselves; signals, new requests
\* and clients that hang up are the outside's.
FairServer ==
    /\ ServerSpec /\ WF_svars(ServerStep)
    /\ \A c \in Clients : WF_svars(RequestStep(c))

----------------------------------------------------------------------------
ServerTypeOK ==
    /\ phase \in Phases /\ pool \in {"none", "open", "closed"}
    /\ registered \in BOOLEAN /\ announced \in BOOLEAN /\ signalled \in BOOLEAN
    /\ req \in [Clients -> {"unsent", "answered", "failed", "gone"} \cup InFlight]
    /\ begins \in [Clients -> 0..MaxBegins]

\* http.rs: "Register before announcing the listener so an immediate signal is
\* handled": once requests may come, no signal ends the process under them.
AnnouncedSurvivesSignals == announced => phase # "killed"

\* main.rs closes the pool after run has drained: no request in flight ever finds the
\* pool closed, waits for it, or is abandoned by a process that exits.
PoolOutlivesRequests ==
    pool = "closed" \/ phase \in Over => \A c \in Clients : req[c] \notin InFlight

\* connection.rs and with_graceful_shutdown: a request that was accepted ends, also
\* when the pool is exhausted by the others or a signal arrives meanwhile.
RequestsEnd == \A c \in Clients : req[c] \in InFlight ~> req[c] \notin InFlight

\* shutdown.rs: a signal that was handled ends the process, which reports success
\* once it had announced itself.
SignalEndsProcess == signalled ~> phase = (IF announced THEN "succeeded" ELSE "failed")
===============================================================================
