------------------------------- MODULE MCServer --------------------------------
(***************************************************************************)
(* The process with three clients and a pool of two connections: all of    *)
(* them can be held while a request waits for one.                         *)
(***************************************************************************)
EXTENDS Server

CONSTANTS c1, c2, c3

ThreeClients == {c1, c2, c3}
TwoConnections == 2

\* authenticate or look the invite up, then the operation.
TransactionsOfAHandler == 2
===============================================================================
