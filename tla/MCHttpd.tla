------------------------------- MODULE MCHttpd -------------------------------
(***************************************************************************)
(* Httpd with pipes of one byte and room for one client and its two pipes. *)
(***************************************************************************)
EXTENDS Httpd

CONSTANTS a, b, c

ThreeConns == {a, b, c}

==============================================================================
