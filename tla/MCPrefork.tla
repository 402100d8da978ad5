------------------------------ MODULE MCPrefork ------------------------------
(***************************************************************************)
(* Prefork with three children, one more than main.c:109 forks, and few    *)
(* enough descriptors that a worker can run out of them.                   *)
(***************************************************************************)
EXTENDS Prefork

CONSTANTS a, b, c, d

FourConns == {a, b, c, d}

==============================================================================
