-------------------------- MODULE MCServerThreads ---------------------------
(* Small instances of ServerThreads: three clients, served by the main      *)
(* thread, by threads of their own, or some by one and some by the other.   *)
EXTENDS ServerThreads

CONSTANTS c1, c2, c3, red, blue
=============================================================================
