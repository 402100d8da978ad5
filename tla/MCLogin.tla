-------------------------------- MODULE MCLogin --------------------------------
(***************************************************************************)
(* Login with the two users of auth_database.sql that differ in kind:      *)
(* "ash" with a password and "root" without one; users type these or a     *)
(* wrong password.  Two clients.  Every pair of flags comes with zeros     *)
(* behind the received bytes, and flags 0 also with what can be parsed as  *)
(* a code, as another password, and as a yes.                              *)
(***************************************************************************)
EXTENDS Login, TLC

CONSTANTS a, b

Clients == {a, b}
ash == [username |-> <<97>>, password |-> <<112>>]
root == [username |-> <<114>>, password |-> << >>]
Rows == {ash, root}
Logins == {ash, root, [username |-> <<114>>, password |-> <<112>>]}
Waiting == {"none", "waitall"}
FlagPairs ==
  [server_n : Waiting, client_n : {"none", "peek", "dontwait", "waitall"}]
    \cup [server_n : {"dontwait"}, client_n : {"waitall"}]
Zeros == [c \in Clients |-> {<< >>}]
Behind ==
  (a :> {<< >>, <<26, 1, 120>>})
    @@ (b :> {<< >>, <<10, 3, 26, 1, 112>>, <<18, 2, 8, 1>>})
Contents ==
  {[server_n |-> f.server_n, client_n |-> f.client_n, buf |-> Zeros] : f \in FlagPairs}
    \cup {[server_n |-> "none", client_n |-> "none", buf |-> Behind]}

==============================================================================
