-------------------------------- MODULE MCEcho --------------------------------
(***************************************************************************)
(* Echo with the client program and one other client.  Descriptors 4 and 5 *)
(* are below FD_SETSIZE + 1: with the first one free both connections are  *)
(* kept; otherwise the second one is closed, or there is no descriptor     *)
(* for it.                                                                 *)
(***************************************************************************)
EXTENDS Echo

CONSTANTS prog, other

Connections == {prog, other}
Bytes == {"a", "\n"}
Newline == "\n"
Text == <<"a", "\n">>
Starts == {4, 5}
DescriptorLimits == {6, 8}

==============================================================================
