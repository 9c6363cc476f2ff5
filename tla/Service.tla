-------------------------------- MODULE Service --------------------------------
(***************************************************************************)
(* All transactions of the service on one database: the tenant operations, *)
(* the message operations and the requests that come through HTTP contend  *)
(* for the same rows.                                                      *)
(***************************************************************************)
EXTENDS Web, Messages

serviceVars == <<sessionVars, mvars>>

ServiceInit == SessionsInit /\ MessagesInit

\* Message operations keep people, invites and sessions, and the others the messages.
PostStep(t) == MessagesStep(t) /\ UNCHANGED <<ivars, session>>

ServiceNext ==
    \/ WebNext /\ UNCHANGED mvars
    \/ \E t \in Tx : PostStep(t) \/ (CallMessages(t) /\ UNCHANGED <<ivars, session>>)

ServiceSpec == ServiceInit /\ [][ServiceNext]_serviceVars

\* What goes on by itself once its client has called.
RunningStep(t) ==
    ((TenantStep(t) \/ SessionsStep(t) \/ WebStep(t)) /\ UNCHANGED mvars) \/ PostStep(t)

\* The server and PostgreSQL run a transaction that can go on; nobody must call.
FairService == ServiceSpec /\ \A t \in Tx : WF_serviceVars(RunningStep(t))
===============================================================================
