----------------------------- MODULE MCChatRelay -----------------------------
(***************************************************************************)
(* ChatRelay on small instances.  After fork() and epoll_create() a worker *)
(* holds descriptors 0 to 4, 3 being the listening socket: accept()        *)
(* returns 5 first, as in the repository's README, or 0 once 0 is free.    *)
(***************************************************************************)
EXTENDS ChatRelay, TLC

CONSTANTS a, b, c

TwoConns == {a, b}
ThreeConns == {a, b, c}
Descriptors == {0, 5, 6}
Numbers == {0, 5, 6}
TextOrSix == {0, 6}
Symmetry == Permutations(Conn)

==============================================================================
