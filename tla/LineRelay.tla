------------------------------ MODULE LineRelay ------------------------------
(***************************************************************************)
(* What a chat relay promises about the lines its clients type, whatever   *)
(* descriptors, maps and events it uses to do so: a line is handed on at   *)
(* most once, to one client, and the lines of one sender reach a receiver  *)
(* in the order they were typed.  Lines may be lost: the relay takes       *)
(* everything a client has typed so far and passes on a prefix of it,      *)
(* which may end inside a line.                                            *)
(*                                                                         *)
(* ChatRelay.tla is shown to implement this module.                        *)
(***************************************************************************)
EXTENDS Naturals, Sequences

CONSTANTS
  Conn,     \* the connections, as senders and as receivers
  Number,   \* what a line says, as atoi() reads it
  Part      \* what a line says of which only the beginning was passed on

VARIABLES
  pending,   \* pending[c]: lines typed on c that the relay has not taken yet
  sent,      \* sent[c]: how many lines were typed on c
  delivered  \* delivered[c]: lines handed to the client at the end of c

vars == <<pending, sent, delivered>>

LineOf(c, i, n) == [from |-> c, seq |-> i, num |-> n]

Line == [from : Conn, seq : Nat, num : Number]
Piece == [from : Conn, seq : Nat, num : Number \cup {Part}]

\* The beginnings of the lines s: the first k of them, the last one in part.
Beginnings(s) ==
  {SubSeq(s, 1, k) : k \in 0 .. Len(s)}
    \cup {[SubSeq(s, 1, k) EXCEPT ![k].num = Part] : k \in 1 .. Len(s)}

Init ==
  /\ pending = [c \in Conn |-> << >>]
  /\ sent = [c \in Conn |-> 0]
  /\ delivered = [c \in Conn |-> << >>]

Type(c, n) ==
  /\ pending' = [pending EXCEPT ![c] = Append(@, LineOf(c, sent[c] + 1, n))]
  /\ sent' = [sent EXCEPT ![c] = @ + 1]
  /\ UNCHANGED delivered

\* All of c's pending lines are taken, and some beginning of them reaches d.
Pass(c, d, s) ==
  /\ pending' = [pending EXCEPT ![c] = << >>]
  /\ delivered' = [delivered EXCEPT ![d] = @ \o s]
  /\ UNCHANGED sent

Next ==
  \/ \E c \in Conn, n \in Number : Type(c, n)
  \/ \E c, d \in Conn : \E s \in Beginnings(pending[c]) : Pass(c, d, s)

Spec == Init /\ [][Next]_vars

------------------------------------------------------------------------------
TypeOK ==
  /\ pending \in [Conn -> Seq(Line)]
  /\ sent \in [Conn -> Nat]
  /\ delivered \in [Conn -> Seq(Piece)]

(***************************************************************************)
(* Two lines of one sender reach a receiver in the order they were typed,  *)
(* and no line reaches it twice.                                           *)
(***************************************************************************)
DeliveredInOrder ==
  \A d \in Conn : \A i, j \in 1 .. Len(delivered[d]) :
    i < j /\ delivered[d][i].from = delivered[d][j].from
      => delivered[d][i].seq < delivered[d][j].seq

(***************************************************************************)
(* No line reaches two clients.                                            *)
(***************************************************************************)
OneRecipient ==
  \A d, e \in Conn :
    \A i \in 1 .. Len(delivered[d]), j \in 1 .. Len(delivered[e]) :
      /\ delivered[d][i].from = delivered[e][j].from
      /\ delivered[d][i].seq = delivered[e][j].seq
      => d = e

==============================================================================
