-------------------------------- MODULE MCOrigin -------------------------------
(***************************************************************************)
(* Hosts and ports for Origin: names, loopback addresses, the default      *)
(* ports, and the numbers at the end of u16.                               *)
(***************************************************************************)
EXTENDS Origin

Same(n) == [name |-> n, sent |-> n]

\* The last is an address a browser writes in a shorter form.
SomeHosts == { Same("chat.example.com"), Same("localhost"), Same("[::1]"),
    [name |-> "[0:0:0:0:0:0:0:1]", sent |-> "[::1]"] }

SomePorts == {0, 80, 443, 8080, 65535, 65536}
===============================================================================
