---------------------------- MODULE ProtobufProofs ----------------------------
(***************************************************************************)
(* For any objects, any database, any number of clients and anything typed *)
(* by their users: what the messages of protobufTest carry, and whom the   *)
(* two servers let in.                                                     *)
(***************************************************************************)
EXTENDS Login, Messages, FiniteSetTheorems, SequenceTheorems, TLAPS

LEMMA AllNumbers ==
  ASSUME NEW T \in SUBSET Nat, 0 \in T, \A n \in T : n + 1 \in T
  PROVE  T = Nat
<1> SUFFICES ASSUME NEW n \in Nat, n \notin T PROVE FALSE
  OBVIOUS
<1> DEFINE U == (0 .. n) \ T
           f == [m \in U |-> m - 1]
<1>1. IsFiniteSet(U)
  <2>1. IsFiniteSet(0 .. n)
    BY FS_Interval
  <2> QED
    BY <2>1, FS_Subset, U \subseteq 0 .. n
<1>2. n \in U
  OBVIOUS
<1>3. /\ IsFiniteSet(U \ {n})
      /\ Cardinality(U \ {n}) = Cardinality(U) - 1 /\ Cardinality(U) \in Nat
  BY <1>1, <1>2, FS_RemoveElement, FS_CardinalityType
<1>4. ASSUME NEW m \in U PROVE m - 1 \in U \ {n}
  <2>1. m # 0 /\ m - 1 \in Nat /\ m - 1 + 1 = m /\ m \notin T
    OBVIOUS
  <2>2. m - 1 \notin T
    BY <2>1
  <2> QED
    BY <2>1, <2>2
<1>5. f \in [U -> U \ {n}]
  BY <1>4
<1>6. Cardinality(U \ {n}) < Cardinality(U)
  BY <1>3
<1> HIDE DEF U
<1>7. \E x, y \in U : x # y /\ f[x] = f[y]
  <2> HIDE DEF f
  <2> QED
    BY <1>1, <1>3, <1>5, <1>6, FS_PigeonHole
<1> QED
  BY <1>7 DEF U

------------------------------------------------------------------------------
(* The parser is defined: for each start there is a function that satisfies *)
(* the equation of TakeAll.                                                *)

Front(s) == SubSeq(s, 1, Len(s) - 1)

Equation(p, g, s) ==
  IF s = << >> THEN p ELSE Take[g[Front(s)]][s[Len(s)]]

Short(n) == {s \in Seq(Nat) : Len(s) <= n}

\* f is the parser behind the sequences of up to n bytes.
ReadUpTo(p, f, n) == f = [s \in Short(n) |-> Equation(p, f, s)]

LEMMA FrontFacts ==
  ASSUME NEW s \in Seq(Nat), s # << >>
  PROVE  Front(s) \in Seq(Nat) /\ Len(Front(s)) = Len(s) - 1 /\ Len(s) \in Nat \ {0}
<1>1. Len(s) \in Nat \ {0}
  OBVIOUS
<1> DEFINE n == Len(s) - 1
<1>2. n \in Int /\ 1 \in Int /\ \A i \in 1 .. n : s[i] \in Nat
  BY <1>1
<1>3. /\ SubSeq(s, 1, n) \in Seq(Nat)
      /\ Len(SubSeq(s, 1, n)) = IF 1 <= n THEN n - 1 + 1 ELSE 0
  <2> HIDE DEF n
  <2> QED
    BY <1>2, SubSeqProperties
<1>4. /\ Front(s) \in Seq(Nat)
      /\ Len(Front(s)) = IF 1 <= n THEN n - 1 + 1 ELSE 0
  BY <1>3 DEF Front
<1>5. n \in Nat /\ Len(s) - 1 = n
  BY <1>1
<1>6. Len(Front(s)) = n
  <2> HIDE DEF n
  <2> QED
    BY <1>4, <1>5
<1> QED
  BY <1>1, <1>4, <1>6

LEMMA ReadUpToExists == \A p : \A n \in Nat : \E f : ReadUpTo(p, f, n)
<1> TAKE p
<1> DEFINE T == {n \in Nat : \E f : ReadUpTo(p, f, n)}
<1>1. 0 \in T
  <2> DEFINE f == [s \in Short(0) |-> p]
  <2>1. \A s \in Short(0) : s = << >>
    BY DEF Short
  <2>2. ReadUpTo(p, f, 0)
    BY <2>1 DEF ReadUpTo, Equation
  <2> QED
    BY <2>2
<1>2. ASSUME NEW n \in T PROVE n + 1 \in T
  <2>1. PICK f : ReadUpTo(p, f, n)
    OBVIOUS
  <2> DEFINE g == [s \in Short(n + 1) |-> Equation(p, f, s)]
  <2>2. ASSUME NEW s \in Short(n + 1) PROVE Equation(p, f, s) = Equation(p, g, s)
    <3>1. CASE s = << >>
      BY <3>1 DEF Equation
    <3>2. CASE s # << >>
      <4>1. Front(s) \in Short(n) /\ Front(s) \in Short(n + 1)
        BY <3>2, FrontFacts DEF Short
      <4>2. g[Front(s)] = f[Front(s)]
        BY <2>1, <4>1 DEF ReadUpTo
      <4> QED
        BY <4>2 DEF Equation
    <3> QED
      BY <3>1, <3>2
  <2>3. ReadUpTo(p, g, n + 1)
    BY <2>2 DEF ReadUpTo
  <2> QED
    BY <2>3
<1> HIDE DEF T
<1>3. T = Nat
  BY <1>1, <1>2, AllNumbers, T \in SUBSET Nat DEF T
<1> QED
  BY <1>3 DEF T

LEMMA ReadUpToUnique ==
  ASSUME NEW p, NEW m \in Nat, NEW n \in Nat, NEW f, NEW g,
         ReadUpTo(p, f, m), ReadUpTo(p, g, n),
         NEW t \in Short(m) \cap Short(n)
  PROVE  f[t] = g[t]
<1> DEFINE T == {k \in Nat : \A s \in Short(m) \cap Short(n) :
                               Len(s) <= k => f[s] = g[s]}
<1>1. ASSUME NEW s \in Short(m) \cap Short(n)
      PROVE  f[s] = Equation(p, f, s) /\ g[s] = Equation(p, g, s)
  BY DEF ReadUpTo
<1>2. 0 \in T
  <2>1. ASSUME NEW s \in Short(m) \cap Short(n), Len(s) <= 0 PROVE f[s] = g[s]
    <3>1. s = << >>
      BY <2>1 DEF Short
    <3>2. Equation(p, f, s) = p /\ Equation(p, g, s) = p
      BY <3>1 DEF Equation
    <3> QED
      BY <1>1, <3>2
  <2> QED
    BY <2>1
<1>3. ASSUME NEW k \in T PROVE k + 1 \in T
  <2>1. ASSUME NEW s \in Short(m) \cap Short(n), Len(s) <= k + 1, s # << >>
        PROVE  f[s] = g[s]
    <3>1. Front(s) \in Short(m) \cap Short(n) /\ Len(Front(s)) <= k
      BY <2>1, FrontFacts DEF Short
    <3>2. f[Front(s)] = g[Front(s)]
      BY <3>1
    <3> QED
      BY <3>2, <1>1 DEF Equation
  <2>2. ASSUME NEW s \in Short(m) \cap Short(n), s = << >>
        PROVE  f[s] = g[s]
    BY <1>1, <2>2 DEF Equation
  <2> QED
    BY <2>1, <2>2
<1> HIDE DEF T
<1>4. T = Nat
  BY <1>2, <1>3, AllNumbers, T \in SUBSET Nat DEF T
<1>5. Len(t) \in Nat
  BY DEF Short
<1> QED
  BY <1>4, <1>5 DEF T

LEMMA TakeAllEquation ==
  \A p : \A s \in Seq(Nat) :
    TakeAll(p, s) = IF s = << >> THEN p ELSE Take[TakeAll(p, Front(s))][s[Len(s)]]
<1> TAKE p
<1> DEFINE upTo(n) == CHOOSE f : ReadUpTo(p, f, n)
           h == [s \in Seq(Nat) |-> upTo(Len(s))[s]]
           behind == CHOOSE g : g = [s \in Seq(Nat) |-> Equation(p, g, s)]
<1>1. \A n \in Nat : ReadUpTo(p, upTo(n), n)
  BY ReadUpToExists
<1>2. ASSUME NEW s \in Seq(Nat) PROVE upTo(Len(s))[s] = Equation(p, h, s)
  <2>1. s \in Short(Len(s)) /\ Len(s) \in Nat
    BY DEF Short
  <2>2. upTo(Len(s))[s] = Equation(p, upTo(Len(s)), s)
    BY <1>1, <2>1 DEF ReadUpTo
  <2>3. CASE s = << >>
    BY <2>2, <2>3 DEF Equation
  <2>4. CASE s # << >>
    <3>1. /\ Front(s) \in Seq(Nat) /\ Len(Front(s)) \in Nat
          /\ Front(s) \in Short(Len(s)) \cap Short(Len(Front(s)))
      BY <2>4, FrontFacts DEF Short
    <3>2. /\ ReadUpTo(p, upTo(Len(s)), Len(s))
          /\ ReadUpTo(p, upTo(Len(Front(s))), Len(Front(s)))
      BY <1>1, <2>1, <3>1
    <3>3. upTo(Len(s))[Front(s)] = upTo(Len(Front(s)))[Front(s)]
      <4> HIDE DEF upTo
      <4> QED
        BY <3>1, <2>1, <3>2, ReadUpToUnique
    <3>4. h[Front(s)] = upTo(Len(s))[Front(s)]
      BY <3>1, <3>3
    <3>5. Equation(p, h, s) = Equation(p, upTo(Len(s)), s)
      <4> HIDE DEF h, upTo
      <4> QED
        BY <2>4, <3>4 DEF Equation
    <3> QED
      BY <2>2, <3>5
  <2> QED
    BY <2>3, <2>4
<1>3. h = [s \in Seq(Nat) |-> Equation(p, h, s)]
  BY <1>2
<1>4. \A bytes : TakeAll(p, bytes) = behind[bytes]
  BY DEF TakeAll, Equation, Front
<1> HIDE DEF h, upTo
<1>5. behind = [s \in Seq(Nat) |-> Equation(p, behind, s)]
  BY <1>3
<1> HIDE DEF behind
<1> TAKE s \in Seq(Nat)
<1>6. behind[s] = Equation(p, behind, s)
  BY <1>5
<1> QED
  BY <1>4, <1>6 DEF Equation

------------------------------------------------------------------------------
(* What the parser keeps: an object without values behind unset bits, and  *)
(* a field that belongs to the message being read.                         *)

Clean(m) ==
  /\ \A f \in m.has : Parent(f) \subseteq m.has
  /\ \A f \in StringField \ m.has : m.str[f] = << >>
  /\ \A f \in NumberField \ m.has : m.num[f] = 0

Good(p) ==
  /\ p \in Parser
  /\ Clean(p.msg)
  /\ p.ok =>
       /\ p.message # "header" => p.message \in p.msg.has
       /\ p.want # "tag" =>
            Parent(p.field) = IF p.message = "header" THEN {} ELSE {p.message}
       /\ p.want = "value" => p.field \in NumberField
       /\ p.want = "length" => p.field \in p.msg.has \ NumberField
       /\ p.want = "bytes" =>
            p.field \in StringField \cap p.msg.has /\ p.left > 0

LEMMA Parents ==
  /\ Parent("login_packet") = {} /\ Parent("connected_packet") = {}
  /\ Parent("auth_code") = {}
  /\ Parent("username") = {"login_packet"} /\ Parent("password") = {"login_packet"}
  /\ Parent("version") = {"login_packet"}
  /\ Parent("connected") = {"connected_packet"}
  /\ Parent("character_list") = {"connected_packet"}
BY DEF Parent, HeaderField, Nested, LoginField, ConnectedField

LEMMA Kinds ==
  /\ HeaderField = {"login_packet", "connected_packet", "auth_code"}
  /\ NumberField = {"version", "connected"}
  /\ StringField = {"username", "password", "character_list", "auth_code"}
  /\ Field = {"login_packet", "connected_packet", "auth_code", "username",
              "password", "version", "connected", "character_list"}
  /\ Field = StringField \cup NumberField \cup {"login_packet", "connected_packet"}
BY DEF HeaderField, NumberField, StringField, Field, LoginField, ConnectedField

LEMMA Cases ==
  ASSUME NEW b \in Nat,
         NEW message \in {"header", "login_packet", "connected_packet"},
         NEW f \in FieldWithTag(message, b)
  PROVE  /\ FieldWithTag(message, b) = {f}
         /\ f \in Field
         /\ Parent(f) = IF message = "header" THEN {} ELSE {message}
<1>1. CASE message = "header"
  BY <1>1, Parents, Kinds DEF FieldWithTag, HeaderCase
<1>2. CASE message = "login_packet"
  BY <1>2, Parents, Kinds DEF FieldWithTag, LoginCase
<1>3. CASE message = "connected_packet"
  BY <1>3, Parents, Kinds DEF FieldWithTag, ConnectedCase
<1> QED
  BY <1>1, <1>2, <1>3

LEMMA TakeIs ==
  ASSUME NEW p \in Parser, NEW b \in Nat
  PROVE  /\ ~p.ok => Take[p][b] = p
         /\ p.ok /\ p.want = "tag" => Take[p][b] = Within(p, TakeTag(p, b))
         /\ p.ok /\ p.want = "value" => Take[p][b] = Within(p, TakeValue(p, b))
         /\ p.ok /\ p.want = "length" => Take[p][b] = Within(p, TakeLength(p, b))
         /\ p.ok /\ p.want = "bytes" => Take[p][b] = Within(p, TakeByte(p, b))
<1>1. Take[p][b] = IF ~p.ok THEN p
                   ELSE Within(p, CASE p.want = "tag" -> TakeTag(p, b)
                                    [] p.want = "value" -> TakeValue(p, b)
                                    [] p.want = "length" -> TakeLength(p, b)
                                    [] p.want = "bytes" -> TakeByte(p, b))
  BY DEF Take
<1> QED
  BY <1>1

LEMMA ParserFields ==
  ASSUME NEW p \in Parser
  PROVE  /\ p.ok \in BOOLEAN /\ p.msg \in Message /\ p.room \in Nat
         /\ p.message \in {"header", "login_packet", "connected_packet"}
         /\ p.want \in {"tag", "value", "length", "bytes"}
         /\ p.field \in Field /\ p.left \in Nat
         /\ p.msg.has \subseteq Field
         /\ p.msg.str \in [StringField -> Seq(Nat)]
         /\ p.msg.num \in [NumberField -> Nat]
         /\ p = [ok |-> p.ok, msg |-> p.msg, message |-> p.message, room |-> p.room,
                 want |-> p.want, field |-> p.field, left |-> p.left]
         /\ p.msg = [has |-> p.msg.has, str |-> p.msg.str, num |-> p.msg.num]
BY DEF Parser, Message

LEMMA GoodTag ==
  ASSUME NEW p, Good(p), p.ok, p.want = "tag", NEW b \in Nat
  PROVE  /\ Good(TakeTag(p, b))
         /\ TakeTag(p, b).message = p.message /\ TakeTag(p, b).room = p.room
<1> DEFINE q == TakeTag(p, b)
<1>1. p \in Parser /\ Clean(p.msg)
  BY DEF Good
<1>2. CASE FieldWithTag(p.message, b) = {}
  BY <1>1, <1>2 DEF TakeTag, Good, Parser
<1>3. CASE FieldWithTag(p.message, b) # {}
  <2> DEFINE f == CHOOSE g \in FieldWithTag(p.message, b) : TRUE
  <2>1. f \in FieldWithTag(p.message, b)
    BY <1>3
  <2>2. p.message \in {"header", "login_packet", "connected_packet"}
    BY <1>1, ParserFields
  <2>3. f \in Field /\ Parent(f) = IF p.message = "header" THEN {} ELSE {p.message}
    <3> HIDE DEF f
    <3> QED
      BY <2>1, <2>2, Cases
  <2>4. CASE f \in NumberField
    <3>1. q = [p EXCEPT !.field = f, !.want = "value"]
      BY <1>3, <2>4 DEF TakeTag
    <3> HIDE DEF f, q
    <3>2. /\ q \in Parser /\ q.msg = p.msg /\ q.ok = p.ok /\ q.message = p.message /\ q.room = p.room
          /\ q.field = f /\ q.want = "value"
      BY <3>1, <1>1, <2>3 DEF Parser
    <3> QED
      BY <3>2, <1>1, <2>3, <2>4 DEF Good, q
  <2>5. CASE f \notin NumberField
    <3>1. q = [p EXCEPT !.field = f, !.want = "length",
                        !.msg.has = @ \cup {f}]
      BY <1>3, <2>5 DEF TakeTag
    <3> HIDE DEF f, q
    <3>2. /\ q \in Parser /\ q.ok = p.ok /\ q.message = p.message /\ q.room = p.room
          /\ q.field = f /\ q.want = "length"
          /\ q.msg.has = p.msg.has \cup {f}
          /\ q.msg.str = p.msg.str /\ q.msg.num = p.msg.num
      BY <3>1, <1>1, <2>3 DEF Parser, Message
    <3>3. Parent(f) \subseteq p.msg.has
      BY <2>3 DEF Good
    <3>4. Clean(q.msg)
      BY <3>2, <3>3, <1>1 DEF Clean
    <3> QED
      BY <3>2, <3>4, <2>3, <2>5 DEF Good, q
  <2> QED
    BY <2>4, <2>5
<1> QED
  BY <1>2, <1>3

LEMMA GoodValue ==
  ASSUME NEW p, Good(p), p.ok, p.want = "value", NEW b \in Nat
  PROVE  /\ Good(TakeValue(p, b))
         /\ TakeValue(p, b).message = p.message /\ TakeValue(p, b).room = p.room
<1> DEFINE q == TakeValue(p, b)
<1>1. p \in Parser /\ Clean(p.msg) /\ p.field \in NumberField
  BY DEF Good
<1>2. /\ q \in Parser /\ q.ok = p.ok /\ q.message = p.message /\ q.room = p.room
      /\ q.want = "tag"
      /\ q.msg.has = p.msg.has \cup {p.field}
      /\ q.msg.str = p.msg.str
      /\ q.msg.num = [p.msg.num EXCEPT ![p.field] = b]
  BY <1>1 DEF TakeValue, Parser, Message
<1> HIDE DEF q
<1>3. Parent(p.field) \subseteq p.msg.has
  BY DEF Good
<1>4. p.msg.num \in [NumberField -> Nat]
  BY <1>1, ParserFields
<1>5. Clean(q.msg)
  BY <1>1, <1>2, <1>3, <1>4 DEF Clean
<1> QED
  BY <1>2, <1>3, <1>5 DEF Good, q

LEMMA GoodLength ==
  ASSUME NEW p, Good(p), p.ok, p.want = "length", NEW b \in Nat
  PROVE  /\ Good(TakeLength(p, b))
         /\ p.message # "header" =>
              TakeLength(p, b).message = p.message /\ TakeLength(p, b).room = p.room
<1> DEFINE q == TakeLength(p, b)
<1>1. p \in Parser /\ Clean(p.msg) /\ p.field \in p.msg.has \ NumberField
  BY DEF Good
<1>2. /\ p.field \in Field
      /\ Parent(p.field) = IF p.message = "header" THEN {} ELSE {p.message}
  BY <1>1, ParserFields DEF Good
<1>3. CASE p.field \in StringField
  <2>1. /\ q.ok = p.ok /\ q.message = p.message /\ q.room = p.room
        /\ q.field = p.field /\ q.left = b
        /\ q.want = IF b = 0 THEN "tag" ELSE "bytes"
        /\ q.msg.has = p.msg.has /\ q.msg.num = p.msg.num
        /\ q.msg.str = [p.msg.str EXCEPT ![p.field] = << >>]
    BY <1>1, <1>3 DEF TakeLength, Parser, Message
  <2>4. q \in Parser
    <3>1. q = [p EXCEPT !.msg.str[p.field] = << >>, !.left = b,
                        !.want = IF b = 0 THEN "tag" ELSE "bytes"]
      BY <1>3 DEF TakeLength
    <3>2. p.msg.str \in [StringField -> Seq(Nat)]
      BY <1>1, ParserFields
    <3>3. [p.msg.str EXCEPT ![p.field] = << >>] \in [StringField -> Seq(Nat)]
      <4> DEFINE none == << >>
      <4>1. none \in Seq(Nat)
        OBVIOUS
      <4> HIDE DEF none
      <4>2. [p.msg.str EXCEPT ![p.field] = none] \in [StringField -> Seq(Nat)]
        BY <3>2, <4>1
      <4> QED
        BY <4>2 DEF none
    <3> DEFINE str == [p.msg.str EXCEPT ![p.field] = << >>]
    <3>4. q = [p EXCEPT !.msg = [@ EXCEPT !.str = str], !.left = b,
                        !.want = IF b = 0 THEN "tag" ELSE "bytes"]
      BY <3>1, <1>1 DEF Parser, Message
    <3> HIDE DEF str
    <3>5. [p.msg EXCEPT !.str = str] \in Message
      BY <3>3, <1>1 DEF Parser, Message, str
    <3> QED
      BY <3>4, <3>5, <1>1 DEF Parser
  <2> HIDE DEF q
  <2>2. p.msg.str \in [StringField -> Seq(Nat)]
    BY <1>1, ParserFields
  <2>3. Clean(q.msg)
    BY <1>1, <2>1, <2>2 DEF Clean
  <2> QED
    BY <2>1, <2>3, <2>4, <1>1, <1>2, <1>3 DEF Good, q
<1>4. CASE p.field \notin StringField
  <2>1. p.field \in {"login_packet", "connected_packet"}
    BY <1>1, <1>2, <1>4, Kinds
  <2>2. /\ q \in Parser /\ q.ok = p.ok /\ q.msg = p.msg
        /\ q.want = "tag" /\ q.message = IF b = 0 THEN "header" ELSE p.field
    BY <1>1, <1>4, <2>1 DEF TakeLength, Parser
  <2>3. p.message = "header"
    BY <2>1, <1>2, Parents
  <2> HIDE DEF q
  <2> QED
    BY <2>1, <2>2, <2>3, <1>1 DEF Good, q
<1> QED
  BY <1>3, <1>4

LEMMA GoodByte ==
  ASSUME NEW p, Good(p), p.ok, p.want = "bytes", NEW b \in Nat
  PROVE  /\ Good(TakeByte(p, b))
         /\ TakeByte(p, b).message = p.message /\ TakeByte(p, b).room = p.room
<1> DEFINE q == TakeByte(p, b)
<1>1. /\ p \in Parser /\ Clean(p.msg)
      /\ p.field \in StringField \cap p.msg.has /\ p.left > 0
      /\ Parent(p.field) = IF p.message = "header" THEN {} ELSE {p.message}
  BY DEF Good
<1>2. p.msg.str \in [StringField -> Seq(Nat)] /\ p.left \in Nat
  BY <1>1, ParserFields
<1>3. Append(p.msg.str[p.field], b) \in Seq(Nat) /\ p.left - 1 \in Nat
  BY <1>1, <1>2
<1>4. /\ q \in Parser /\ q.ok = p.ok /\ q.message = p.message /\ q.room = p.room
      /\ q.field = p.field /\ q.left = p.left - 1
      /\ q.want = IF p.left = 1 THEN "tag" ELSE "bytes"
      /\ q.msg.has = p.msg.has /\ q.msg.num = p.msg.num
      /\ q.msg.str = [p.msg.str EXCEPT ![p.field] = Append(@, b)]
  BY <1>1, <1>3 DEF TakeByte, Parser, Message
<1> HIDE DEF q
<1>5. Clean(q.msg)
  BY <1>1, <1>2, <1>4 DEF Clean
<1>6. q.want = "bytes" => q.left > 0
  BY <1>4, <1>2, <1>1
<1> QED
  BY <1>1, <1>4, <1>5, <1>6 DEF Good, q

LEMMA GoodWithin ==
  ASSUME NEW p, Good(p), p.ok, NEW q, Good(q),
         p.message # "header" => q.message = p.message /\ q.room = p.room
  PROVE  Good(Within(p, q))
<1> DEFINE r == Within(p, q)
<1>1. p \in Parser /\ q \in Parser
  BY DEF Good
<1>2. p.room \in Nat /\ q.room \in Nat /\ q.ok \in BOOLEAN
  BY <1>1, ParserFields
<1>3. CASE p.message = "header"
  BY <1>3 DEF Within
<1>4. CASE p.message # "header" /\ p.room > 1
  <2>1. r = [q EXCEPT !.room = q.room - 1] /\ q.room - 1 \in Nat
    BY <1>2, <1>4 DEF Within
  <2>2. /\ r \in Parser /\ r.ok = q.ok /\ r.msg = q.msg /\ r.message = q.message
        /\ r.want = q.want /\ r.field = q.field /\ r.left = q.left
    BY <2>1, <1>1 DEF Parser
  <2> HIDE DEF r
  <2> QED
    BY <2>2 DEF Good, r
<1>5. CASE p.message # "header" /\ ~(p.room > 1)
  <2> DEFINE ok == q.ok /\ q.want = "tag"
  <2>1. r = [q EXCEPT !.room = 0, !.message = "header", !.ok = ok]
    BY <1>5 DEF Within
  <2>2. ok \in BOOLEAN /\ (ok => q.want = "tag")
    OBVIOUS
  <2> HIDE DEF ok
  <2>3. r \in Parser
    <3>1. r = [ok |-> ok, msg |-> q.msg, message |-> "header", room |-> 0,
               want |-> q.want, field |-> q.field, left |-> q.left]
      BY <2>1, <1>1 DEF Parser
    <3> HIDE DEF r
    <3> QED
      BY <3>1, <2>2, <1>1, ParserFields DEF Parser
  <2>4. r.msg = q.msg /\ r.message = "header" /\ r.want = q.want /\ r.ok = ok
    BY <2>1, <1>1 DEF Parser
  <2> HIDE DEF r
  <2> QED
    BY <2>2, <2>3, <2>4 DEF Good, r
<1> QED
  BY <1>3, <1>4, <1>5

LEMMA GoodTake ==
  ASSUME NEW p, Good(p), NEW b \in Nat
  PROVE  Good(Take[p][b])
<1>1. p \in Parser /\ p.want \in {"tag", "value", "length", "bytes"}
  BY ParserFields DEF Good
<1>2. CASE ~p.ok
  BY <1>1, <1>2, TakeIs
<1>3. CASE p.ok /\ p.want = "tag"
  <2>1. Take[p][b] = Within(p, TakeTag(p, b))
    BY <1>1, <1>3, TakeIs
  <2> QED
    BY <2>1, <1>3, GoodTag, GoodWithin
<1>4. CASE p.ok /\ p.want = "value"
  <2>1. Take[p][b] = Within(p, TakeValue(p, b))
    BY <1>1, <1>4, TakeIs
  <2> QED
    BY <2>1, <1>4, GoodValue, GoodWithin
<1>5. CASE p.ok /\ p.want = "length"
  <2>1. Take[p][b] = Within(p, TakeLength(p, b))
    BY <1>1, <1>5, TakeIs
  <2> QED
    BY <2>1, <1>5, GoodLength, GoodWithin
<1>6. CASE p.ok /\ p.want = "bytes"
  <2>1. Take[p][b] = Within(p, TakeByte(p, b))
    BY <1>1, <1>6, TakeIs
  <2> QED
    BY <2>1, <1>6, GoodByte, GoodWithin
<1> QED
  BY <1>1, <1>2, <1>3, <1>4, <1>5, <1>6

------------------------------------------------------------------------------
(* Reading on: no byte, one byte more, two strings.                        *)

LEMMA Appended ==
  ASSUME NEW S, NEW s \in Seq(S), NEW b \in S
  PROVE  /\ Append(s, b) \in Seq(S) /\ Append(s, b) # << >>
         /\ Len(Append(s, b)) = Len(s) + 1
         /\ Append(s, b)[Len(Append(s, b))] = b
         /\ \A i \in 1 .. Len(s) : Append(s, b)[i] = s[i]
OBVIOUS

LEMMA FrontOfAppend ==
  ASSUME NEW s \in Seq(Nat), NEW b \in Nat
  PROVE  Front(Append(s, b)) = s
<1> DEFINE t == Append(s, b)
<1>1. t \in Seq(Nat) /\ Len(t) = Len(s) + 1 /\ t[Len(t)] = b /\ t # << >>
  OBVIOUS
<1> HIDE DEF t
<1>2. Front(t) \in Seq(Nat) /\ Len(Front(t)) = Len(s)
  BY <1>1, FrontFacts
<1>3. ASSUME NEW i \in 1 .. Len(s) PROVE Front(t)[i] = s[i]
  BY <1>1 DEF Front, t
<1>4. Front(t) = s
  BY <1>2, <1>3, SeqEqual
<1> QED
  BY <1>4 DEF t

LEMMA TakeAllNothing == \A p : TakeAll(p, << >>) = p
<1> TAKE p
<1>1. << >> \in Seq(Nat)
  OBVIOUS
<1> QED
  BY <1>1, TakeAllEquation

LEMMA TakeAllAppend ==
  ASSUME NEW p, NEW s \in Seq(Nat), NEW b \in Nat
  PROVE  TakeAll(p, Append(s, b)) = Take[TakeAll(p, s)][b]
<1> DEFINE t == Append(s, b)
<1>1. t \in Seq(Nat) /\ t # << >> /\ t[Len(t)] = b
  BY Appended
<1>2. Front(t) = s
  BY FrontOfAppend
<1> HIDE DEF t
<1>3. TakeAll(p, t) = Take[TakeAll(p, s)][b]
  BY <1>1, <1>2, TakeAllEquation
<1> QED
  BY <1>3 DEF t

\* A set of strings that holds the empty one and with each string those that
\* are longer by a byte holds them all.
LEMMA AllStrings ==
  ASSUME NEW S, NEW T \in SUBSET Seq(S), << >> \in T,
         \A s \in T : \A b \in S : Append(s, b) \in T
  PROVE  T = Seq(S)
<1> DEFINE N == {n \in Nat : \A s \in Seq(S) : Len(s) = n => s \in T}
<1>1. 0 \in N
  <2>1. ASSUME NEW s \in Seq(S), Len(s) = 0 PROVE s \in T
    BY <2>1, s = << >>
  <2> QED
    BY <2>1
<1>2. ASSUME NEW n \in N PROVE n + 1 \in N
  <2>1. ASSUME NEW s \in Seq(S), Len(s) = n + 1 PROVE s \in T
    <3> DEFINE f == [i \in 1 .. n |-> s[i]]
    <3>1. f \in Seq(S) /\ Len(f) = n /\ \A i \in 1 .. n : f[i] = s[i]
      BY <2>1
    <3>2. s[n + 1] \in S
      BY <2>1
    <3> HIDE DEF f
    <3>3. f \in T /\ Append(f, s[n + 1]) \in T
      BY <3>1, <3>2
    <3>4. s = Append(f, s[n + 1])
      <4> DEFINE t == Append(f, s[n + 1])
      <4>1. /\ t \in Seq(S) /\ Len(t) = n + 1 /\ t[n + 1] = s[n + 1]
            /\ \A i \in 1 .. n : t[i] = s[i]
        <5>1. Len(f) \in Nat /\ n \in Nat
          OBVIOUS
        <5>2. /\ t \in Seq(S) /\ Len(t) = Len(f) + 1 /\ t[Len(t)] = s[n + 1]
              /\ \A i \in 1 .. Len(f) : t[i] = f[i]
          <6> DEFINE b == s[n + 1]
          <6>1. f \in Seq(S) /\ b \in S
            BY <3>1, <3>2
          <6> HIDE DEF b
          <6>2. /\ Append(f, b) \in Seq(S) /\ Len(Append(f, b)) = Len(f) + 1
                /\ Append(f, b)[Len(Append(f, b))] = b
                /\ \A i \in 1 .. Len(f) : Append(f, b)[i] = f[i]
            BY <6>1, Appended
          <6> QED
            BY <6>2 DEF b
        <5> HIDE DEF t
        <5> QED
          BY <5>2, <3>1
      <4> HIDE DEF t
      <4>2. ASSUME NEW i \in 1 .. n + 1 PROVE t[i] = s[i]
        <5>1. n \in Nat /\ (i \in 1 .. n \/ i = n + 1)
          OBVIOUS
        <5> QED
          BY <4>1, <5>1
      <4>3. s = t
        BY <4>1, <4>2, <2>1, SeqEqual
      <4> QED
        BY <4>3 DEF t
    <3> QED
      BY <3>3, <3>4
  <2> QED
    BY <2>1
<1> HIDE DEF N
<1>3. N = Nat
  BY <1>1, <1>2, AllNumbers, N \in SUBSET Nat DEF N
<1>4. ASSUME NEW s \in Seq(S) PROVE s \in T
  BY <1>3, Len(s) \in Nat DEF N
<1> QED
  BY <1>4

LEMMA GoodTakeAll ==
  ASSUME NEW p, Good(p), NEW s \in Seq(Nat)
  PROVE  Good(TakeAll(p, s))
<1> DEFINE T == {t \in Seq(Nat) : Good(TakeAll(p, t))}
<1>1. << >> \in T
  BY TakeAllNothing
<1>2. ASSUME NEW t \in T, NEW b \in Nat PROVE Append(t, b) \in T
  <2>1. t \in Seq(Nat) /\ Good(TakeAll(p, t))
    OBVIOUS
  <2>2. Append(t, b) \in Seq(Nat)
    BY <2>1, Appended
  <2>3. Good(Take[TakeAll(p, t)][b])
    BY <2>1, GoodTake
  <2>4. TakeAll(p, Append(t, b)) = Take[TakeAll(p, t)][b]
    BY <2>1, TakeAllAppend
  <2> QED
    BY <2>2, <2>3, <2>4
<1> HIDE DEF T
<1>3. T = Seq(Nat)
  BY <1>1, <1>2, AllStrings, T \in SUBSET Seq(Nat) DEF T
<1> QED
  BY <1>3 DEF T

LEMMA ConcatAppend ==
  ASSUME NEW s \in Seq(Nat), NEW t \in Seq(Nat), NEW b \in Nat
  PROVE  s \o Append(t, b) = Append(s \o t, b) /\ s \o t \in Seq(Nat)
OBVIOUS

LEMMA TakeAllConcat ==
  ASSUME NEW p, NEW s \in Seq(Nat), NEW u \in Seq(Nat)
  PROVE  TakeAll(p, s \o u) = TakeAll(TakeAll(p, s), u)
<1> DEFINE T == {t \in Seq(Nat) :
                   TakeAll(p, s \o t) = TakeAll(TakeAll(p, s), t)}
<1>1. << >> \in T
  <2>1. s \o << >> = s /\ << >> \in Seq(Nat)
    OBVIOUS
  <2> QED
    BY <2>1, TakeAllNothing
<1>2. ASSUME NEW t \in T, NEW b \in Nat PROVE Append(t, b) \in T
  <2>1. t \in Seq(Nat) /\ TakeAll(p, s \o t) = TakeAll(TakeAll(p, s), t)
    OBVIOUS
  <2>2. TakeAll(p, s \o Append(t, b)) = Take[TakeAll(p, s \o t)][b]
    <3> DEFINE v == s \o t
    <3>1. v \in Seq(Nat) /\ s \o Append(t, b) = Append(v, b)
      BY <2>1, ConcatAppend
    <3> HIDE DEF v
    <3>2. TakeAll(p, Append(v, b)) = Take[TakeAll(p, v)][b]
      BY <3>1, TakeAllAppend
    <3> QED
      BY <3>1, <3>2 DEF v
  <2>3. TakeAll(TakeAll(p, s), Append(t, b)) = Take[TakeAll(TakeAll(p, s), t)][b]
    BY <2>1, TakeAllAppend
  <2> QED
    BY <2>1, <2>2, <2>3, Appended
<1> HIDE DEF T
<1>3. T = Seq(Nat)
  BY <1>1, <1>2, AllStrings, T \in SUBSET Seq(Nat) DEF T
<1> QED
  BY <1>3 DEF T

------------------------------------------------------------------------------
(* The operations on objects keep defaults behind unset bits.              *)

Whole(m) == m \in Message /\ Clean(m)

LEMMA MessageFields ==
  ASSUME NEW m \in Message
  PROVE  /\ m.has \subseteq Field
         /\ m.str \in [StringField -> Seq(Nat)]
         /\ m.num \in [NumberField -> Nat]
         /\ m = [has |-> m.has, str |-> m.str, num |-> m.num]
BY DEF Message

LEMMA MessageEqual ==
  ASSUME NEW m \in Message, NEW n \in Message, m.has = n.has,
         \A f \in StringField : m.str[f] = n.str[f],
         \A f \in NumberField : m.num[f] = n.num[f]
  PROVE  m = n
<1>1. m.str = n.str
  BY MessageFields
<1>2. m.num = n.num
  BY MessageFields
<1> QED
  BY <1>1, <1>2, MessageFields

LEMMA EmptyIs ==
  /\ Empty \in Message /\ Empty.has = {}
  /\ \A f \in StringField : Empty.str[f] = << >>
  /\ \A f \in NumberField : Empty.num[f] = 0
<1>1. << >> \in Seq(Nat)
  OBVIOUS
<1>2. [f \in StringField |-> << >>] \in [StringField -> Seq(Nat)]
  BY <1>1
<1>3. [f \in NumberField |-> 0] \in [NumberField -> Nat]
  OBVIOUS
<1>4. /\ Empty.has = {} /\ Empty.str = [f \in StringField |-> << >>]
      /\ Empty.num = [f \in NumberField |-> 0]
  BY DEF Empty
<1>5. Empty \in Message
  BY <1>2, <1>3 DEF Empty, Message
<1> QED
  BY <1>4, <1>5

LEMMA EmptyWhole == Whole(Empty)
BY EmptyIs DEF Whole, Clean

LEMMA GoodReading ==
  ASSUME NEW m, Whole(m)
  PROVE  Good(Reading(m))
<1>1. /\ Reading(m) \in Parser /\ Reading(m).msg = m
      /\ Reading(m).message = "header" /\ Reading(m).want = "tag"
  BY Kinds DEF Whole, Reading, Parser
<1> QED
  BY <1>1 DEF Good, Whole

LEMMA ClearInIs ==
  ASSUME NEW m, Whole(m), NEW F \in SUBSET Field
  PROVE  /\ ClearIn(m, F) \in Message
         /\ ClearIn(m, F).has = m.has \ F
         /\ \A f \in StringField :
              ClearIn(m, F).str[f] = IF f \in F THEN << >> ELSE m.str[f]
         /\ \A f \in NumberField :
              ClearIn(m, F).num[f] = IF f \in F THEN 0 ELSE m.num[f]
<1> DEFINE r == ClearIn(m, F)
<1>1. m \in Message /\ Clean(m) /\ m.has \subseteq Field
  BY MessageFields DEF Whole
<1>2. m.str \in [StringField -> Seq(Nat)] /\ m.num \in [NumberField -> Nat]
  BY <1>1, MessageFields
<1>3. /\ r.has = m.has \ F
      /\ r.str = [f \in StringField |->
                    IF f \in F \cap m.has THEN << >> ELSE m.str[f]]
      /\ r.num = [f \in NumberField |->
                    IF f \in F /\ F \cap m.has # {} THEN 0 ELSE m.num[f]]
      /\ r = [has |-> r.has, str |-> r.str, num |-> r.num]
  BY DEF ClearIn
<1> HIDE DEF r
<1>4. ASSUME NEW f \in StringField
      PROVE  r.str[f] = IF f \in F THEN << >> ELSE m.str[f]
  BY <1>1, <1>3 DEF Clean
<1>5. ASSUME NEW f \in NumberField
      PROVE  r.num[f] = IF f \in F THEN 0 ELSE m.num[f]
  <2>1. r.num[f] = IF f \in F /\ F \cap m.has # {} THEN 0 ELSE m.num[f]
    BY <1>3
  <2>2. f \in F /\ F \cap m.has = {} => m.num[f] = 0
    BY <1>1 DEF Clean
  <2> QED
    BY <2>1, <2>2
<1>6. r.has \in SUBSET Field
  BY <1>1, <1>3
<1>7. r.str \in [StringField -> Seq(Nat)]
  <2>1. << >> \in Seq(Nat)
    OBVIOUS
  <2>2. \A f \in StringField : r.str[f] \in Seq(Nat)
    BY <2>1, <1>2, <1>4
  <2> QED
    BY <2>2, <1>3
<1>8. r.num \in [NumberField -> Nat]
  <2>1. \A f \in NumberField : r.num[f] \in Nat
    BY <1>2, <1>5
  <2> QED
    BY <2>1, <1>3
<1>9. r \in Message
  BY <1>3, <1>6, <1>7, <1>8 DEF Message
<1> QED
  BY <1>3, <1>4, <1>5, <1>9 DEF r

LEMMA NestedFields ==
  /\ LoginField = {"username", "password", "version"}
  /\ ConnectedField = {"connected", "character_list"}
  /\ \A f \in LoginField : Parent(f) = {"login_packet"}
  /\ \A f \in ConnectedField : Parent(f) = {"connected_packet"}
  /\ \A f \in HeaderField : Parent(f) = {}
  /\ Field = HeaderField \cup LoginField \cup ConnectedField
<1>1. /\ LoginField = {"username", "password", "version"}
      /\ ConnectedField = {"connected", "character_list"}
  BY DEF LoginField, ConnectedField
<1> QED
  BY <1>1, Parents, Kinds

LEMMA ClearNested ==
  ASSUME NEW m, Whole(m), NEW F \in {LoginField, ConnectedField}
  PROVE  Whole(ClearIn(m, F))
<1> DEFINE r == ClearIn(m, F)
<1>1. F \in SUBSET Field /\ \A f \in F : f \notin HeaderField
  BY NestedFields, Kinds
<1>2. /\ r \in Message /\ r.has = m.has \ F
      /\ \A f \in StringField : r.str[f] = IF f \in F THEN << >> ELSE m.str[f]
      /\ \A f \in NumberField : r.num[f] = IF f \in F THEN 0 ELSE m.num[f]
  BY <1>1, ClearInIs
<1> HIDE DEF r
<1>3. ASSUME NEW f \in r.has PROVE Parent(f) \subseteq r.has
  <2>1. Parent(f) \subseteq m.has /\ Parent(f) \subseteq HeaderField
    BY <1>2 DEF Whole, Clean, Parent
  <2> QED
    BY <2>1, <1>1, <1>2
<1>4. ASSUME NEW f \in StringField \ r.has PROVE r.str[f] = << >>
  BY <1>2 DEF Whole, Clean
<1>5. ASSUME NEW f \in NumberField \ r.has PROVE r.num[f] = 0
  BY <1>2 DEF Whole, Clean
<1>6. Whole(r)
  BY <1>2, <1>3, <1>4, <1>5 DEF Whole, Clean
<1> QED
  BY <1>6 DEF r

\* Without the bit of a message, none of its fields is there.
LEMMA NoParentNoField ==
  ASSUME NEW m, Whole(m)
  PROVE  /\ "login_packet" \notin m.has => m.has \cap LoginField = {}
         /\ "connected_packet" \notin m.has => m.has \cap ConnectedField = {}
BY NestedFields DEF Whole, Clean

(***************************************************************************)
(* Clear() looks only at what is set, and leaves a new object all the same *)
(* if the object has its defaults behind unset bits (packet.pb.cc:217,     *)
(* 487, 811).                                                              *)
(***************************************************************************)
THEOREM ClearEmpties ==
  \A m \in Message : Clean(m) => Clear(m) = Empty
<1> SUFFICES ASSUME NEW m \in Message, Clean(m) PROVE Clear(m) = Empty
  OBVIOUS
<1> DEFINE login == IF "login_packet" \in m.has THEN ClearLogin(m) ELSE m
           both == IF "connected_packet" \in m.has THEN ClearConnected(login)
                   ELSE login
<1>1. Whole(m)
  BY DEF Whole
<1>2. LoginField \in SUBSET Field /\ ConnectedField \in SUBSET Field
      /\ HeaderField \in SUBSET Field
  BY NestedFields
<1>3. /\ Whole(login) /\ login.has \cap LoginField = {}
      /\ "connected_packet" \in login.has <=> "connected_packet" \in m.has
  <2>1. CASE "login_packet" \in m.has
    <3>1. login = ClearIn(m, LoginField)
      BY <2>1 DEF ClearLogin
    <3>2. login.has = m.has \ LoginField
      BY <3>1, <1>1, <1>2, ClearInIs
    <3>3. Whole(login)
      BY <3>1, <1>1, ClearNested
    <3> QED
      BY <3>2, <3>3, NestedFields
  <2>2. CASE "login_packet" \notin m.has
    BY <2>2, <1>1, NoParentNoField
  <2> QED
    BY <2>1, <2>2
<1> HIDE DEF login
<1>4. Whole(both) /\ both.has \cap (LoginField \cup ConnectedField) = {}
  <2>1. CASE "connected_packet" \in m.has
    <3>1. both = ClearIn(login, ConnectedField)
      BY <2>1 DEF ClearConnected
    <3>2. both.has = login.has \ ConnectedField
      BY <3>1, <1>2, <1>3, ClearInIs
    <3>3. Whole(both)
      BY <3>1, <1>3, ClearNested
    <3> QED
      BY <3>2, <3>3, <1>3
  <2>2. CASE "connected_packet" \notin m.has
    BY <2>2, <1>3, NoParentNoField
  <2> QED
    BY <2>1, <2>2
<1>5. Clear(m) = ClearIn(both, HeaderField)
  BY DEF Clear, login
<1> HIDE DEF both
<1> DEFINE r == ClearIn(both, HeaderField)
<1>6. /\ r \in Message /\ r.has = both.has \ HeaderField
      /\ \A f \in StringField :
           r.str[f] = IF f \in HeaderField THEN << >> ELSE both.str[f]
      /\ \A f \in NumberField :
           r.num[f] = IF f \in HeaderField THEN 0 ELSE both.num[f]
  BY <1>2, <1>4, ClearInIs
<1> HIDE DEF r
<1>7. both.has \subseteq Field /\ r.has = {}
  BY <1>4, <1>6, NestedFields, MessageFields DEF Whole
<1>8. \A f \in StringField : r.str[f] = << >>
  BY <1>4, <1>6, <1>7 DEF Whole, Clean
<1>9. \A f \in NumberField : r.num[f] = 0
  BY <1>4, <1>6, <1>7 DEF Whole, Clean
<1>10. r = Empty
  <2>1. /\ r \in Message /\ Empty \in Message /\ r.has = Empty.has
        /\ \A f \in StringField : r.str[f] = Empty.str[f]
        /\ \A f \in NumberField : r.num[f] = Empty.num[f]
    BY <1>6, <1>7, <1>8, <1>9, EmptyIs
  <2> HIDE DEF Message
  <2> QED
    BY ONLY <2>1, MessageEqual
<1> QED
  BY <1>5, <1>10 DEF r

LEMMA SetStringWhole ==
  ASSUME NEW m, Whole(m), NEW f \in StringField, NEW v \in Seq(Nat)
  PROVE  /\ Whole(SetString(m, f, v))
         /\ SetString(m, f, v).has = m.has \cup {f} \cup Parent(f)
         /\ SetString(m, f, v).str = [m.str EXCEPT ![f] = v]
         /\ SetString(m, f, v).num = m.num
<1> DEFINE r == SetString(m, f, v)
<1>1. m \in Message /\ Clean(m) /\ f \in Field /\ Parent(f) \subseteq Field
  BY Kinds DEF Whole, Parent
<1>2. m.str \in [StringField -> Seq(Nat)]
  BY <1>1, MessageFields
<1>3. /\ r \in Message /\ r.has = m.has \cup {f} \cup Parent(f)
      /\ r.str = [m.str EXCEPT ![f] = v] /\ r.num = m.num
  BY <1>1, <1>2 DEF SetString, Message
<1> HIDE DEF r
<1>4. \A g \in Parent(f) : Parent(g) = {}
  BY NestedFields DEF Parent
<1>5. Clean(r)
  BY <1>1, <1>2, <1>3, <1>4 DEF Clean
<1> QED
  BY <1>3, <1>5 DEF Whole, r

LEMMA SetNumberWhole ==
  ASSUME NEW m, Whole(m), NEW f \in NumberField, NEW v \in Nat
  PROVE  /\ Whole(SetNumber(m, f, v))
         /\ SetNumber(m, f, v).has = m.has \cup {f} \cup Parent(f)
         /\ SetNumber(m, f, v).num = [m.num EXCEPT ![f] = v]
         /\ SetNumber(m, f, v).str = m.str
<1> DEFINE r == SetNumber(m, f, v)
<1>1. m \in Message /\ Clean(m) /\ f \in Field /\ Parent(f) \subseteq Field
  BY Kinds DEF Whole, Parent
<1>2. m.num \in [NumberField -> Nat]
  BY <1>1, MessageFields
<1>3. /\ r \in Message /\ r.has = m.has \cup {f} \cup Parent(f)
      /\ r.num = [m.num EXCEPT ![f] = v] /\ r.str = m.str
  BY <1>1, <1>2 DEF SetNumber, Message
<1> HIDE DEF r
<1>4. \A g \in Parent(f) : Parent(g) = {}
  BY NestedFields DEF Parent
<1>5. Clean(r)
  BY <1>1, <1>2, <1>3, <1>4 DEF Clean
<1> QED
  BY <1>3, <1>5 DEF Whole, r

LEMMA SetMessageWhole ==
  ASSUME NEW m, Whole(m), NEW f \in {"login_packet", "connected_packet"}
  PROVE  /\ Whole(SetMessage(m, f)) /\ SetMessage(m, f).has = m.has \cup {f}
         /\ SetMessage(m, f).str = m.str /\ SetMessage(m, f).num = m.num
<1> DEFINE r == SetMessage(m, f)
<1>1. m \in Message /\ Clean(m) /\ f \in Field /\ Parent(f) = {}
  BY Kinds, Parents DEF Whole
<1>2. /\ r \in Message /\ r.has = m.has \cup {f}
      /\ r.str = m.str /\ r.num = m.num
  BY <1>1 DEF SetMessage, Message
<1> HIDE DEF r
<1>3. Clean(r)
  BY <1>1, <1>2 DEF Clean
<1> QED
  BY <1>2, <1>3 DEF Whole, r

\* clear_<f>() through mutable_<message>().
LEMMA ClearFieldWhole ==
  ASSUME NEW m, Whole(m), NEW f \in StringField \cup NumberField
  PROVE  Whole([ClearField(m, f) EXCEPT !.has = @ \cup Parent(f)])
<1> DEFINE r == [ClearField(m, f) EXCEPT !.has = @ \cup Parent(f)]
           str == [g \in StringField |-> IF g = f THEN << >> ELSE m.str[g]]
           num == [g \in NumberField |-> IF g = f THEN 0 ELSE m.num[g]]
<1>1. m \in Message /\ Clean(m) /\ f \in Field /\ Parent(f) \subseteq Field
  BY Kinds DEF Whole, Parent
<1>2. m.str \in [StringField -> Seq(Nat)] /\ m.num \in [NumberField -> Nat]
      /\ m.has \subseteq Field
  BY <1>1, MessageFields
<1>3. str \in [StringField -> Seq(Nat)]
  <2>1. << >> \in Seq(Nat)
    OBVIOUS
  <2>2. ASSUME NEW g \in StringField
        PROVE  (IF g = f THEN << >> ELSE m.str[g]) \in Seq(Nat)
    BY <2>1, <1>2
  <2> QED
    BY <2>2
<1>4. num \in [NumberField -> Nat]
  BY <1>2
<1>5. /\ \A g \in StringField : str[g] = IF g = f THEN << >> ELSE m.str[g]
      /\ \A g \in NumberField : num[g] = IF g = f THEN 0 ELSE m.num[g]
  OBVIOUS
<1>6. ClearField(m, f) = [m EXCEPT !.has = @ \ {f}, !.str = str, !.num = num]
  BY DEF ClearField
<1> HIDE DEF str, num
<1>7. /\ r.has = (m.has \ {f}) \cup Parent(f) /\ r.str = str /\ r.num = num
      /\ r \in Message
  BY <1>1, <1>2, <1>3, <1>4, <1>6 DEF Message
<1> HIDE DEF r
<1>8. ASSUME NEW g \in r.has PROVE Parent(g) \subseteq r.has
  <2>1. f \notin {"login_packet", "connected_packet"}
    BY Kinds
  <2>2. \A h \in Field : Parent(h) \subseteq {"login_packet", "connected_packet"}
    BY NestedFields
  <2>3. CASE g \in m.has
    <3>1. Parent(g) \subseteq m.has /\ g \in Field
      BY <2>3, <1>1, <1>2 DEF Clean
    <3> QED
      BY <3>1, <2>1, <2>2, <1>7
  <2>4. CASE g \in Parent(f)
    <3>1. Parent(g) = {}
      BY <2>4, NestedFields DEF Parent
    <3> QED
      BY <3>1
  <2> QED
    BY <2>3, <2>4, <1>7
<1>9. ASSUME NEW g \in StringField \ r.has PROVE r.str[g] = << >>
  BY <1>1, <1>5, <1>7 DEF Clean
<1>10. ASSUME NEW g \in NumberField \ r.has PROVE r.num[g] = 0
  BY <1>1, <1>5, <1>7 DEF Clean
<1>11. Whole(r)
  BY <1>7, <1>8, <1>9, <1>10 DEF Whole, Clean
<1> QED
  BY <1>11 DEF r

LEMMA ClearMessageWhole ==
  ASSUME NEW m, Whole(m), NEW f \in {"login_packet", "connected_packet"}
  PROVE  Whole(ClearMessage(m, f))
<1> DEFINE F == IF f = "login_packet" THEN LoginField ELSE ConnectedField
           n == ClearIn(m, F)
           r == [n EXCEPT !.has = @ \ {f}]
<1>1. /\ F \in {LoginField, ConnectedField} /\ F \in SUBSET Field
      /\ \A g \in Field \ F : f \notin Parent(g)
      /\ \A g \in Field : Parent(g) \subseteq {"login_packet", "connected_packet"}
      /\ f \notin F
  BY NestedFields, Kinds
<1>2. ClearMessage(m, f) = r
  BY DEF ClearMessage, ClearLogin, ClearConnected
<1> HIDE DEF F
<1>3. Whole(n) /\ n.has = m.has \ F
  BY <1>1, ClearNested, ClearInIs
<1> HIDE DEF n
<1>4. n \in Message /\ Clean(n) /\ n.has \subseteq Field
  BY <1>3, MessageFields DEF Whole
<1>5. /\ r.has = n.has \ {f} /\ r.str = n.str /\ r.num = n.num
      /\ r \in Message
  BY <1>4 DEF Message
<1> HIDE DEF r
<1>6. ASSUME NEW g \in r.has PROVE Parent(g) \subseteq r.has
  <2>1. g \in n.has /\ g \in Field \ F
    BY <1>3, <1>4, <1>5
  <2> QED
    BY <2>1, <1>1, <1>4, <1>5 DEF Clean
<1>7. f \notin StringField /\ f \notin NumberField
  BY Kinds
<1>8. Whole(r)
  BY <1>4, <1>5, <1>6, <1>7 DEF Whole, Clean
<1> QED
  BY <1>2, <1>8

LEMMA MergeInIs ==
  ASSUME NEW m \in Message, NEW from \in Message, NEW F \in SUBSET Field
  PROVE  /\ MergeIn(m, from, F) \in Message
         /\ MergeIn(m, from, F).has = m.has \cup (F \cap from.has)
         /\ \A f \in StringField : MergeIn(m, from, F).str[f] =
              IF f \in F \cap from.has THEN from.str[f] ELSE m.str[f]
         /\ \A f \in NumberField : MergeIn(m, from, F).num[f] =
              IF f \in F \cap from.has THEN from.num[f] ELSE m.num[f]
<1> DEFINE r == MergeIn(m, from, F)
           G == F \cap from.has
<1>1. /\ m.has \subseteq Field /\ m.str \in [StringField -> Seq(Nat)]
      /\ m.num \in [NumberField -> Nat]
      /\ from.has \subseteq Field /\ from.str \in [StringField -> Seq(Nat)]
      /\ from.num \in [NumberField -> Nat]
  BY MessageFields
<1>2. /\ r.has = m.has \cup G
      /\ r.str = [f \in StringField |-> IF f \in G THEN from.str[f] ELSE m.str[f]]
      /\ r.num = [f \in NumberField |-> IF f \in G THEN from.num[f] ELSE m.num[f]]
      /\ r = [has |-> r.has, str |-> r.str, num |-> r.num]
  BY DEF MergeIn
<1> HIDE DEF r
<1>3. /\ r.has \in SUBSET Field
      /\ r.str \in [StringField -> Seq(Nat)]
      /\ r.num \in [NumberField -> Nat]
  BY <1>1, <1>2
<1>4. r \in Message
  BY <1>2, <1>3 DEF Message
<1> QED
  BY <1>2, <1>4 DEF r

\* A part is merged whose message is there in both.
LEMMA MergePart ==
  ASSUME NEW m, Whole(m), NEW from, Whole(from), NEW F \in SUBSET Field,
         \A f \in F : Parent(f) \subseteq m.has
  PROVE  /\ Whole(MergeIn(m, from, F))
         /\ m.has \subseteq MergeIn(m, from, F).has
<1> DEFINE r == MergeIn(m, from, F)
<1>1. /\ m \in Message /\ from \in Message /\ Clean(m) /\ Clean(from)
      /\ m.has \subseteq Field
  BY MessageFields DEF Whole
<1>2. /\ r \in Message /\ r.has = m.has \cup (F \cap from.has)
      /\ \A f \in StringField :
           r.str[f] = IF f \in F \cap from.has THEN from.str[f] ELSE m.str[f]
      /\ \A f \in NumberField :
           r.num[f] = IF f \in F \cap from.has THEN from.num[f] ELSE m.num[f]
  BY <1>1, MergeInIs
<1> HIDE DEF r
<1>3. ASSUME NEW f \in r.has PROVE Parent(f) \subseteq r.has
  BY <1>1, <1>2 DEF Clean
<1>4. /\ \A f \in StringField \ r.has : r.str[f] = << >>
      /\ \A f \in NumberField \ r.has : r.num[f] = 0
  BY <1>1, <1>2 DEF Clean
<1>5. Whole(r)
  BY <1>2, <1>3, <1>4 DEF Whole, Clean
<1> QED
  BY <1>2, <1>5 DEF r

LEMMA MergeFromWhole ==
  ASSUME NEW m, Whole(m), NEW from, Whole(from)
  PROVE  Whole(MergeFrom(m, from))
<1> DEFINE login == IF "login_packet" \in from.has
                    THEN MergeLogin(SetMessage(m, "login_packet"), from) ELSE m
           both == IF "connected_packet" \in from.has
                   THEN MergeConnected(SetMessage(login, "connected_packet"), from)
                   ELSE login
<1>1. /\ LoginField \in SUBSET Field /\ ConnectedField \in SUBSET Field
      /\ {"auth_code"} \in SUBSET Field
  BY NestedFields, Kinds
<1>2. Whole(login)
  <2> DEFINE n == SetMessage(m, "login_packet")
  <2>1. Whole(n) /\ "login_packet" \in n.has
    BY SetMessageWhole
  <2> HIDE DEF n
  <2>2. \A f \in LoginField : Parent(f) \subseteq n.has
    BY <2>1, NestedFields
  <2>3. Whole(MergeIn(n, from, LoginField))
    BY <2>1, <2>2, <1>1, MergePart
  <2> QED
    BY <2>3 DEF MergeLogin, n
<1> HIDE DEF login
<1>3. Whole(both)
  <2> DEFINE n == SetMessage(login, "connected_packet")
  <2>1. Whole(n) /\ "connected_packet" \in n.has
    BY <1>2, SetMessageWhole
  <2> HIDE DEF n
  <2>2. \A f \in ConnectedField : Parent(f) \subseteq n.has
    BY <2>1, NestedFields
  <2>3. Whole(MergeIn(n, from, ConnectedField))
    BY <2>1, <2>2, <1>1, MergePart
  <2> QED
    BY <2>3, <1>2 DEF MergeConnected, n
<1>4. MergeFrom(m, from) = MergeIn(both, from, {"auth_code"})
  BY DEF MergeFrom, login
<1> HIDE DEF both
<1>5. \A f \in {"auth_code"} : Parent(f) \subseteq both.has
  BY Parents
<1> QED
  BY <1>1, <1>3, <1>4, <1>5, MergePart

------------------------------------------------------------------------------
(* Bytes and what they are parsed to.                                      *)

LEMMA StringBytesType ==
  ASSUME NEW m \in Message, NEW tag \in Nat, NEW f \in StringField
  PROVE  StringBytes(m, tag, f) \in Seq(Nat)
<1>1. m.str[f] \in Seq(Nat) /\ Len(m.str[f]) \in Nat
  BY MessageFields
<1>2. <<tag, Len(m.str[f])>> \in Seq(Nat) /\ << >> \in Seq(Nat)
  BY <1>1
<1>3. <<tag, Len(m.str[f])>> \o m.str[f] \in Seq(Nat)
  BY <1>1, <1>2, ConcatProperties
<1> QED
  BY <1>2, <1>3 DEF StringBytes

LEMMA NumberBytesType ==
  ASSUME NEW m \in Message, NEW tag \in Nat, NEW f \in NumberField
  PROVE  NumberBytes(m, tag, f) \in Seq(Nat)
<1>1. m.num[f] \in Nat
  BY MessageFields
<1>2. <<tag, m.num[f]>> \in Seq(Nat) /\ << >> \in Seq(Nat)
  BY <1>1
<1> QED
  BY <1>2 DEF NumberBytes

LEMMA StringSizeType ==
  ASSUME NEW m, NEW f, m.str[f] \in Seq(Nat)
  PROVE  StringSize(m, f) \in Nat
<1>1. Len(m.str[f]) \in Nat
  OBVIOUS
<1> QED
  BY <1>1 DEF StringSize

LEMMA LoginBytesType ==
  ASSUME NEW m \in Message
  PROVE  LoginBytes(m) \in Seq(Nat) /\ LoginSize(m) \in Nat
<1>1. /\ StringBytes(m, 18, "username") \in Seq(Nat)
      /\ StringBytes(m, 26, "password") \in Seq(Nat)
      /\ NumberBytes(m, 32, "version") \in Seq(Nat)
  BY Kinds, StringBytesType, NumberBytesType
<1>2. m.str["username"] \in Seq(Nat) /\ m.str["password"] \in Seq(Nat)
  BY Kinds, MessageFields
<1>3. LoginSize(m) \in Nat
  <2>1. /\ StringSize(m, "username") \in Nat /\ StringSize(m, "password") \in Nat
        /\ NumberSize(m, "version") \in Nat
    BY <1>2, StringSizeType DEF NumberSize
  <2> QED
    BY <2>1 DEF LoginSize
<1>4. StringBytes(m, 18, "username") \o StringBytes(m, 26, "password") \in Seq(Nat)
  BY <1>1, ConcatProperties
<1> QED
  BY <1>1, <1>3, <1>4, ConcatProperties DEF LoginBytes

LEMMA ConnectedBytesType ==
  ASSUME NEW m \in Message
  PROVE  ConnectedBytes(m) \in Seq(Nat) /\ ConnectedSize(m) \in Nat
<1>1. /\ NumberBytes(m, 8, "connected") \in Seq(Nat)
      /\ StringBytes(m, 18, "character_list") \in Seq(Nat)
  BY Kinds, StringBytesType, NumberBytesType
<1>2. m.str["character_list"] \in Seq(Nat)
  BY Kinds, MessageFields
<1>3. ConnectedSize(m) \in Nat
  <2>1. /\ StringSize(m, "character_list") \in Nat
        /\ NumberSize(m, "connected") \in Nat
    BY <1>2, StringSizeType DEF NumberSize
  <2> QED
    BY <2>1 DEF ConnectedSize
<1> QED
  BY <1>1, <1>3, ConcatProperties DEF ConnectedBytes

\* The parts of what is sent.
LoginPart(m) ==
  IF "login_packet" \in m.has THEN <<10, LoginSize(m)>> \o LoginBytes(m) ELSE << >>

ConnectedPart(m) ==
  IF "connected_packet" \in m.has
  THEN <<18, ConnectedSize(m)>> \o ConnectedBytes(m) ELSE << >>

CodePart(m) == StringBytes(m, 26, "auth_code")

LEMMA Parts ==
  ASSUME NEW m \in Message
  PROVE  /\ LoginPart(m) \in Seq(Nat) /\ ConnectedPart(m) \in Seq(Nat)
         /\ CodePart(m) \in Seq(Nat)
         /\ LoginPart(m) \o ConnectedPart(m) \in Seq(Nat)
         /\ SerializeToString(m) = LoginPart(m) \o ConnectedPart(m) \o CodePart(m)
         /\ SerializeToString(m) \in Seq(Nat)
<1>1. << >> \in Seq(Nat)
  OBVIOUS
<1>2. LoginPart(m) \in Seq(Nat)
  <2>1. LoginBytes(m) \in Seq(Nat) /\ <<10, LoginSize(m)>> \in Seq(Nat)
    BY LoginBytesType
  <2> QED
    BY <1>1, <2>1, ConcatProperties DEF LoginPart
<1>3. ConnectedPart(m) \in Seq(Nat)
  <2>1. ConnectedBytes(m) \in Seq(Nat) /\ <<18, ConnectedSize(m)>> \in Seq(Nat)
    BY ConnectedBytesType
  <2> QED
    BY <1>1, <2>1, ConcatProperties DEF ConnectedPart
<1>4. CodePart(m) \in Seq(Nat)
  BY Kinds, StringBytesType DEF CodePart
<1>5. SerializeToString(m) = LoginPart(m) \o ConnectedPart(m) \o CodePart(m)
  BY DEF SerializeToString, LoginPart, ConnectedPart, CodePart
<1>6. LoginPart(m) \o ConnectedPart(m) \in Seq(Nat)
  BY <1>2, <1>3, ConcatProperties
<1> QED
  BY <1>2, <1>3, <1>4, <1>5, <1>6, ConcatProperties

LEMMA Prefix ==
  ASSUME NEW s \in Seq(Nat), NEW k \in 0 .. Len(s)
  PROVE  SubSeq(s, 1, k) \in Seq(Nat) /\ Len(SubSeq(s, 1, k)) = k
         /\ \A i \in 1 .. k : SubSeq(s, 1, k)[i] = s[i]
<1>1. Len(s) \in Nat /\ k \in Int /\ 1 \in Int /\ \A i \in 1 .. k : s[i] \in Nat
  OBVIOUS
<1>2. /\ SubSeq(s, 1, k) \in Seq(Nat)
      /\ Len(SubSeq(s, 1, k)) = IF 1 <= k THEN k - 1 + 1 ELSE 0
      /\ \A i \in 1 .. k - 1 + 1 : SubSeq(s, 1, k)[i] = s[1 + i - 1]
  BY <1>1, SubSeqProperties
<1> QED
  BY <1>1, <1>2

LEMMA ParseWhole ==
  ASSUME NEW m, Whole(m), NEW bytes \in Seq(Nat)
  PROVE  /\ ParseFromString(m, bytes) = TakeAll(Reading(Empty), bytes).msg
         /\ Whole(ParseFromString(m, bytes))
<1>1. Clear(m) = Empty
  BY ClearEmpties DEF Whole
<1>2. Good(TakeAll(Reading(Empty), bytes))
  BY EmptyWhole, GoodReading, GoodTakeAll
<1>3. TakeAll(Reading(Empty), bytes) \in Parser
  BY <1>2 DEF Good
<1> QED
  BY <1>1, <1>2, <1>3, ParserFields DEF ParseFromString, Good, Whole

------------------------------------------------------------------------------
(* Two objects.                                                            *)

ObjectsWhole ==
  /\ obj \in [Object -> Message]
  /\ \A o \in Object : Clean(obj[o])

LEMMA BecomesKeeps ==
  ASSUME ObjectsWhole, NEW o \in Object, NEW m, Whole(m), Becomes(o, m)
  PROVE  ObjectsWhole'
BY DEF ObjectsWhole, Whole, Becomes

LEMMA OtherObject == \A o \in Object : TheOther(o) \in Object
<1> TAKE o \in Object
<1>1. Cardinality(Object) = 2
  BY MessagesAssumption
<1>2. \E p \in Object : p # o
  <2> SUFFICES ASSUME \A p \in Object : p = o PROVE FALSE
    OBVIOUS
  <2>1. Object = {o}
    OBVIOUS
  <2> QED
    BY <1>1, <2>1, FS_Singleton
<1> QED
  BY <1>2 DEF TheOther

LEMMA ObjectsWholeInit == MessagesInit => ObjectsWhole
<1> SUFFICES ASSUME MessagesInit PROVE ObjectsWhole
  OBVIOUS
<1>1. Empty \in Message /\ Clean(Empty)
  BY EmptyWhole DEF Whole
<1> QED
  BY <1>1 DEF MessagesInit, ObjectsWhole

LEMMA SwapKeeps ==
  ASSUME ObjectsWhole, Swap
  PROVE  ObjectsWhole'
BY OtherObject DEF ObjectsWhole, Swap

LEMMA OperationKeeps ==
  ASSUME ObjectsWhole, NEW o \in Object,
         Set(o) \/ Unset(o) \/ ClearAll(o) \/ Merge(o) \/ Copy(o) \/ Parse(o)
  PROVE  ObjectsWhole'
<1> DEFINE m == obj[o]
           from == obj[TheOther(o)]
<1>1. Whole(m) /\ Whole(from)
  BY OtherObject DEF ObjectsWhole, Whole
<1>2. ASSUME NEW n, Whole(n), Becomes(o, n) PROVE ObjectsWhole'
  BY <1>2, BecomesKeeps
<1>3. CASE Set(o)
  <2>1. ASSUME NEW f \in StringField, NEW v \in Text[f],
               Becomes(o, SetString(m, f, v))
        PROVE  ObjectsWhole'
    <3>1. v \in Seq(Nat)
      BY MessagesAssumption
    <3> QED
      BY <3>1, <2>1, <1>1, <1>2, SetStringWhole
  <2>2. ASSUME NEW f \in NumberField, NEW v \in Number,
               Becomes(o, SetNumber(m, f, v))
        PROVE  ObjectsWhole'
    <3>1. v \in Nat
      BY MessagesAssumption
    <3> QED
      BY <3>1, <2>2, <1>1, <1>2, SetNumberWhole
  <2>3. ASSUME NEW f \in {"login_packet", "connected_packet"},
               Becomes(o, SetMessage(m, f))
        PROVE  ObjectsWhole'
    BY <2>3, <1>1, <1>2, SetMessageWhole
  <2> HIDE DEF m
  <2> QED
    BY <1>3, <2>1, <2>2, <2>3 DEF Set, m
<1>4. CASE Unset(o)
  <2>1. ASSUME NEW f \in StringField \cup NumberField,
               Becomes(o, [ClearField(m, f) EXCEPT !.has = @ \cup Parent(f)])
        PROVE  ObjectsWhole'
    BY <2>1, <1>1, <1>2, ClearFieldWhole
  <2>2. ASSUME NEW f \in {"login_packet", "connected_packet"},
               Becomes(o, ClearMessage(m, f))
        PROVE  ObjectsWhole'
    BY <2>2, <1>1, <1>2, ClearMessageWhole
  <2> QED
    BY <1>4, <2>1, <2>2 DEF Unset
<1>5. CASE ClearAll(o)
  BY <1>1, <1>2, <1>5, ClearEmpties, EmptyWhole DEF ClearAll, Whole
<1>6. CASE Merge(o)
  BY <1>1, <1>2, <1>6, MergeFromWhole DEF Merge
<1>7. CASE Copy(o)
  <2>1. Clear(m) = Empty
    BY <1>1, ClearEmpties DEF Whole
  <2>2. Whole(CopyFrom(m, from))
    BY <2>1, <1>1, EmptyWhole, MergeFromWhole DEF CopyFrom
  <2> QED
    BY <2>2, <1>2, <1>7 DEF Copy
<1>8. CASE Parse(o)
  <2> DEFINE bytes == SerializeToString(from)
  <2>1. bytes \in Seq(Nat)
    BY <1>1, Parts DEF Whole
  <2>2. PICK k \in 0 .. Len(bytes) :
          Becomes(o, ParseFromString(m, SubSeq(bytes, 1, k)))
    BY <1>8 DEF Parse
  <2> HIDE DEF bytes
  <2>3. SubSeq(bytes, 1, k) \in Seq(Nat)
    BY <2>1, Prefix
  <2>4. Whole(ParseFromString(m, SubSeq(bytes, 1, k)))
    BY <2>3, <1>1, ParseWhole
  <2> QED
    BY <2>2, <2>4, <1>2
<1> QED
  BY <1>3, <1>4, <1>5, <1>6, <1>7, <1>8

LEMMA ObjectsAlwaysWhole == MessagesSpec => []ObjectsWhole
<1>1. ASSUME ObjectsWhole, [MessagesNext]_obj PROVE ObjectsWhole'
  <2>1. CASE UNCHANGED obj
    BY <1>1, <2>1 DEF ObjectsWhole
  <2>2. CASE MessagesNext
    BY <1>1, <2>2, SwapKeeps, OperationKeeps DEF MessagesNext
  <2> QED
    BY <1>1, <2>1, <2>2
<1> QED
  BY <1>1, ObjectsWholeInit, PTL DEF MessagesSpec

(***************************************************************************)
(* The objects of packet.pb.h stay objects: values have their types        *)
(* whatever is set, merged and parsed.                                     *)
(***************************************************************************)
THEOREM MessagesTypeCorrect == MessagesSpec => []MessagesTypeOK
<1>1. ObjectsWhole => MessagesTypeOK
  BY DEF ObjectsWhole, MessagesTypeOK
<1> QED
  BY <1>1, ObjectsAlwaysWhole, PTL

(***************************************************************************)
(* No operation of the message classes, and no message that arrives in     *)
(* part, leaves a value behind a bit that is not set, or a field of a      *)
(* nested message that is not there (packet.pb.cc:217, 487, 811).          *)
(***************************************************************************)
THEOREM DefaultsCorrect == MessagesSpec => []DefaultsBehindBits
<1>1. ObjectsWhole => DefaultsBehindBits
  BY DEF ObjectsWhole, DefaultsBehindBits, Clean
<1> QED
  BY <1>1, ObjectsAlwaysWhole, PTL

------------------------------------------------------------------------------
(* A char array up to its first 0 byte.                                    *)

FirstNul(s, n) ==
  /\ n \in 0 .. Len(s)
  /\ \A i \in 1 .. n : s[i] # 0
  /\ n < Len(s) => s[n + 1] = 0

LEMMA FirstNulIsOne ==
  ASSUME NEW s \in Seq(Nat), NEW m, FirstNul(s, m), NEW n, FirstNul(s, n)
  PROVE  m = n
<1>1. m \in Nat /\ n \in Nat /\ Len(s) \in Nat
  BY DEF FirstNul
<1>2. ~(m < n)
  <2> SUFFICES ASSUME m < n PROVE FALSE
    OBVIOUS
  <2>1. m < Len(s) /\ m + 1 \in 1 .. n
    BY <1>1 DEF FirstNul
  <2> QED
    BY <2>1 DEF FirstNul
<1>3. ~(n < m)
  <2> SUFFICES ASSUME n < m PROVE FALSE
    OBVIOUS
  <2>1. n < Len(s) /\ n + 1 \in 1 .. m
    BY <1>1 DEF FirstNul
  <2> QED
    BY <2>1 DEF FirstNul
<1> QED
  BY <1>1, <1>2, <1>3

LEMMA FirstNulExists == \A s \in Seq(Nat) : \E n : FirstNul(s, n)
<1> DEFINE T == {s \in Seq(Nat) : \E n : FirstNul(s, n)}
<1>1. << >> \in T
  <2>1. FirstNul(<< >>, 0)
    BY DEF FirstNul
  <2> QED
    BY <2>1
<1>2. ASSUME NEW s \in T, NEW b \in Nat PROVE Append(s, b) \in T
  <2> DEFINE t == Append(s, b)
  <2>1. /\ t \in Seq(Nat) /\ Len(t) = Len(s) + 1 /\ t[Len(t)] = b
        /\ \A i \in 1 .. Len(s) : t[i] = s[i]
    BY Appended
  <2>2. PICK n : FirstNul(s, n)
    OBVIOUS
  <2>3. Len(s) \in Nat /\ n \in 0 .. Len(s)
    BY <2>2 DEF FirstNul
  <2> HIDE DEF t
  <2>4. CASE n < Len(s) \/ b = 0
    <3>0. /\ \A i \in 1 .. n : s[i] # 0
          /\ n < Len(s) => s[n + 1] = 0
      BY <2>2 DEF FirstNul
    <3>1. n < Len(t) /\ t[n + 1] = 0
      <4>1. CASE n < Len(s)
        <5>1. n + 1 \in 1 .. Len(s) /\ n < Len(t)
          BY <4>1, <2>1, <2>3
        <5> QED
          BY <5>1, <4>1, <3>0, <2>1
      <4>2. CASE n = Len(s)
        <5>1. b = 0
          BY <4>2, <2>4, <2>3
        <5> QED
          BY <5>1, <4>2, <2>1, <2>3
      <4> QED
        BY <4>1, <4>2, <2>3
    <3>2. \A i \in 1 .. n : t[i] # 0
      <4>1. \A i \in 1 .. n : i \in 1 .. Len(s)
        BY <2>3
      <4> QED
        BY <4>1, <3>0, <2>1
    <3>3. FirstNul(t, n)
      BY <3>1, <3>2, <2>1, <2>3 DEF FirstNul
    <3> QED
      BY <3>3, <2>1 DEF t
  <2>5. CASE n = Len(s) /\ b # 0
    <3>1. \A i \in 1 .. n + 1 : t[i] # 0
      BY <2>1, <2>2, <2>3, <2>5 DEF FirstNul
    <3>2. FirstNul(t, n + 1)
      BY <3>1, <2>1, <2>3, <2>5 DEF FirstNul
    <3> QED
      BY <3>2, <2>1 DEF t
  <2> QED
    BY <2>3, <2>4, <2>5
<1> HIDE DEF T
<1>3. T = Seq(Nat)
  BY <1>1, <1>2, AllStrings, T \in SUBSET Seq(Nat) DEF T
<1> QED
  BY <1>3 DEF T

LEMMA CStringIs ==
  ASSUME NEW s \in Seq(Nat)
  PROVE  FirstNul(s, CString(s))
<1>1. CString(s) = CHOOSE n \in 0 .. Len(s) : FirstNul(s, n)
  BY DEF CString, FirstNul
<1>2. \E n \in 0 .. Len(s) : FirstNul(s, n)
  BY FirstNulExists DEF FirstNul
<1> QED
  BY <1>1, <1>2

LEMMA UpToNulIs ==
  ASSUME NEW s \in Seq(Nat)
  PROVE  /\ UpToNul(s) \in Seq(Nat)
         /\ CString(s) \in 0 .. Len(s) /\ Len(UpToNul(s)) = CString(s)
         /\ \A i \in 1 .. CString(s) : UpToNul(s)[i] = s[i] /\ s[i] # 0
BY CStringIs, Prefix DEF UpToNul, FirstNul

LEMMA PacketTypes ==
  /\ \A u \in Seq(Nat), p \in Seq(Nat) : login_packet(u, p, 1) \in Seq(Nat)
  /\ \A v \in Seq(Nat) : auth_code_packet(v) \in Seq(Nat)
  /\ \A conn : connected_packet(conn) \in Seq(Nat)
<1>1. ASSUME NEW m, Whole(m) PROVE SerializeToString(m) \in Seq(Nat)
  BY <1>1, Parts DEF Whole
<1>2. ASSUME NEW u \in Seq(Nat), NEW p \in Seq(Nat)
      PROVE  login_packet(u, p, 1) \in Seq(Nat)
  <2> DEFINE m1 == SetMessage(Empty, "login_packet")
             m2 == SetString(m1, "username", u)
             m3 == SetString(m2, "password", p)
             m4 == SetNumber(m3, "version", 1)
  <2>1. Whole(m1)
    BY EmptyWhole, SetMessageWhole
  <2> HIDE DEF m1
  <2>2. Whole(m2)
    BY <2>1, SetStringWhole, Kinds
  <2> HIDE DEF m2
  <2>3. Whole(m3)
    BY <2>2, SetStringWhole, Kinds
  <2> HIDE DEF m3
  <2>4. Whole(m4)
    BY <2>3, SetNumberWhole, Kinds
  <2>5. login_packet(u, p, 1) = SerializeToString(m4)
    BY DEF login_packet, m1, m2, m3
  <2> QED
    BY <1>1, <2>4, <2>5
<1>3. ASSUME NEW v \in Seq(Nat) PROVE auth_code_packet(v) \in Seq(Nat)
  <2>1. Whole(SetString(Empty, "auth_code", v))
    BY EmptyWhole, SetStringWhole, Kinds
  <2> QED
    BY <2>1, <1>1 DEF auth_code_packet
<1>4. ASSUME NEW conn PROVE connected_packet(conn) \in Seq(Nat)
  <2>1. Whole(SetNumber(Empty, "connected", 1))
    BY EmptyWhole, SetNumberWhole, Kinds
  <2>2. Whole(SetMessage(Empty, "connected_packet"))
    BY EmptyWhole, SetMessageWhole
  <2>3. /\ SerializeToString(SetNumber(Empty, "connected", 1)) \in Seq(Nat)
        /\ SerializeToString(SetMessage(Empty, "connected_packet")) \in Seq(Nat)
    BY <2>1, <2>2, <1>1
  <2>4. \/ connected_packet(conn) = SerializeToString(SetNumber(Empty, "connected", 1))
        \/ connected_packet(conn) = SerializeToString(SetMessage(Empty, "connected_packet"))
    BY DEF connected_packet
  <2> QED
    BY <2>3, <2>4
<1> QED
  BY <1>2, <1>3, <1>4

\* What a received buffer is parsed to.
LEMMA ReceivedWhole ==
  ASSUME NEW bytes \in Seq(Nat)
  PROVE  /\ Whole(ParseFromString(Empty, UpToNul(bytes)))
         /\ ParseFromString(Empty, UpToNul(bytes)) =
              TakeAll(Reading(Empty), UpToNul(bytes)).msg
BY EmptyWhole, ParseWhole, UpToNulIs

\* With zeros behind the bytes, and with anything.
LEMMA ParsedIs ==
  ASSUME NEW bytes \in Seq(Nat), NEW g \in Seq(Nat)
  PROVE  /\ Whole(Parsed(bytes, g))
         /\ Parsed(bytes, << >>) = ParseFromString(Empty, UpToNul(bytes))
<1>1. bytes \o g \in Seq(Nat) /\ bytes \o << >> = bytes
  OBVIOUS
<1> QED
  BY <1>1, ReceivedWhole DEF Parsed

LEMMA StraysIs ==
  ASSUME stray \subseteq Client, NEW c \in Client, NEW bytes \in Seq(Nat),
         NEW g, stray' = Strays(c, bytes, g)
  PROVE  /\ stray \subseteq stray' /\ stray' \subseteq Client
         /\ c \notin stray' =>
              Parsed(bytes, g) = ParseFromString(Empty, UpToNul(bytes))
<1>1. << >> \in Seq(Nat)
  OBVIOUS
<1>2. Parsed(bytes, << >>) = ParseFromString(Empty, UpToNul(bytes))
  BY <1>1, ParsedIs
<1> QED
  BY <1>2 DEF Strays

LEMMA GarbageIs ==
  ASSUME TypeOK, NEW c \in Client
  PROVE  stack.buf[c] \subseteq Seq(Nat) /\ << >> \in stack.buf[c]
<1>1. stack \in Stack
  BY DEF TypeOK
<1>2. stack.buf \in [Client -> SUBSET Seq(Nat)] /\ << >> \in stack.buf[c]
  BY <1>1, LoginAssumption
<1> QED
  BY <1>2

------------------------------------------------------------------------------
(* What each step of the three programs changes, client by client.         *)

LEMMA UpdateOne ==
  ASSUME NEW V, NEW X \in [Server -> [Client -> V]],
         NEW s \in Server, NEW c \in Client, NEW v
  PROVE  /\ [X EXCEPT ![s][c] = v][s][c] = v
         /\ \A r \in Server, d \in Client :
              r # s \/ d # c => [X EXCEPT ![s][c] = v][r][d] = X[r][d]
         /\ v \in V => [X EXCEPT ![s][c] = v] \in [Server -> [Client -> V]]
OBVIOUS

\* Nothing of client d and its threads changes.
Kept(d) ==
  /\ \A s \in Server : link'[s][d] = link[s][d] /\ thread'[s][d] = thread[s][d]
  /\ phase'[d] = phase[d] /\ typed'[d] = typed[d] /\ code'[d] = code[d]

OthersKept(c) == \A d \in Client \ {c} : Kept(d)

LinkType == link \in [Server -> [Client -> Link]]

ThreadType == thread \in [Server -> [Client -> Thread]]

LEMMA LinkFields ==
  ASSUME TypeOK, NEW s \in Server, NEW c \in Client
  PROVE  /\ link[s][c] \in Link /\ link[s][c].state \in LinkState
         /\ link[s][c].up \in Seq(Nat) /\ link[s][c].down \in Seq(Nat)
         /\ link[s][c] = [state |-> link[s][c].state, up |-> link[s][c].up,
                          down |-> link[s][c].down]
         /\ thread[s][c] \in Thread /\ thread[s][c].header \in Message
         /\ thread[s][c].found \in BOOLEAN /\ thread[s][c].resp \in Seq(Nat)
         /\ thread[s][c].zeroed \in BOOLEAN
         /\ thread[s][c].pc \in {"none", "recv", "check", "select", "answer",
                                 "update", "send"}
<1>1. link[s][c] \in Link /\ thread[s][c] \in Thread
  BY DEF TypeOK
<1>2. /\ link[s][c].state \in LinkState
      /\ link[s][c].up \in Seq(Nat) /\ link[s][c].down \in Seq(Nat)
      /\ link[s][c] = [state |-> link[s][c].state, up |-> link[s][c].up,
                       down |-> link[s][c].down]
  BY <1>1 DEF Link
<1>3. /\ thread[s][c].header \in Message
      /\ thread[s][c].found \in BOOLEAN /\ thread[s][c].resp \in Seq(Nat)
      /\ thread[s][c].zeroed \in BOOLEAN
      /\ thread[s][c].pc \in {"none", "recv", "check", "select", "answer",
                              "update", "send"}
  BY <1>1 DEF Thread
<1> QED
  BY <1>1, <1>2, <1>3

LEMMA EndedIs ==
  ASSUME NEW l \in Link
  PROVE  /\ Ended(l) \in Link /\ Ended(l).up = l.up
         /\ l.state # "open" => Ended(l) = l
         /\ l.state = "open" =>
              Ended(l).state \in {"closed", "reset"} /\ Ended(l).down = << >>
<1>1. CASE l.state # "open"
  BY <1>1 DEF Ended
<1>2. CASE l.state = "open"
  <2> DEFINE e == Ended(l)
             st == IF l.down = << >> THEN "closed" ELSE "reset"
  <2>1. e = [l EXCEPT !.state = st, !.down = << >>]
    BY <1>2 DEF Ended
  <2>2. st \in {"closed", "reset"} /\ st \in LinkState
    BY DEF LinkState
  <2>3. << >> \in Seq(Nat)
    OBVIOUS
  <2> HIDE DEF st, e
  <2>4. e.state = st /\ e.up = l.up /\ e.down = << >>
        /\ e = [state |-> st, up |-> l.up, down |-> << >>]
    BY <2>1 DEF Link
  <2>5. e \in Link
    BY <2>2, <2>3, <2>4 DEF Link
  <2> QED
    BY <1>2, <2>2, <2>4, <2>5 DEF e
<1> QED
  BY <1>1, <1>2

LEMMA LinksEndedIs ==
  ASSUME NEW L \in [Server -> [Client -> Link]], NEW c \in Client
  PROVE  /\ LinksEnded(L, c) \in [Server -> [Client -> Link]]
         /\ \A s \in Server : LinksEnded(L, c)[s][c] = Ended(L[s][c])
         /\ \A s \in Server, d \in Client :
              d # c => LinksEnded(L, c)[s][d] = L[s][d]
<1>1. \A s \in Server : LinksEnded(L, c)[s] = [L[s] EXCEPT ![c] = Ended(@)]
  BY DEF LinksEnded
<1>2. \A s \in Server : L[s] \in [Client -> Link] /\ Ended(L[s][c]) \in Link
  BY EndedIs
<1>3. ASSUME NEW s \in Server
      PROVE  /\ LinksEnded(L, c)[s] \in [Client -> Link]
             /\ LinksEnded(L, c)[s][c] = Ended(L[s][c])
             /\ \A d \in Client : d # c => LinksEnded(L, c)[s][d] = L[s][d]
  <2> DEFINE e == Ended(L[s][c])
  <2>1. LinksEnded(L, c)[s] = [L[s] EXCEPT ![c] = e]
    BY <1>1
  <2>2. L[s] \in [Client -> Link] /\ e \in Link
    BY <1>2
  <2> HIDE DEF e
  <2> QED
    BY <2>1, <2>2 DEF e
<1>4. LinksEnded(L, c) \in [Server -> [Client -> Link]]
  BY <1>3 DEF LinksEnded
<1> QED
  BY <1>3, <1>4

LEMMA OpenedIs ==
  ASSUME NEW up \in Seq(Nat)
  PROVE  /\ Opened(up) \in Link /\ Opened(up).state = "open"
         /\ Opened(up).up = up /\ Opened(up).down = << >>
<1>1. << >> \in Seq(Nat) /\ "open" \in LinkState
  BY DEF LinkState
<1> QED
  BY <1>1 DEF Opened, Link

LEMMA DrainedIs ==
  ASSUME TypeOK, NEW s \in Server, NEW c \in Client
  PROVE  /\ Drained(s, c) \in [Server -> [Client -> Link]]
         /\ Drained(s, c)[s][c].state = link[s][c].state
         /\ Drained(s, c)[s][c].up = link[s][c].up
         /\ Drained(s, c)[s][c].down \in {<< >>, link[s][c].down}
         /\ \A r \in Server, d \in Client :
              r # s \/ d # c => Drained(s, c)[r][d] = link[r][d]
<1>1. link \in [Server -> [Client -> Link]]
  BY DEF TypeOK
<1>2. CASE stack.client_n = "peek"
  BY <1>1, <1>2 DEF Drained
<1>3. CASE stack.client_n # "peek"
  <2> DEFINE l == [link[s][c] EXCEPT !.down = << >>]
  <2>1. Drained(s, c) = [link EXCEPT ![s][c] = l]
    BY <1>1, <1>3 DEF Drained, Link
  <2>2. << >> \in Seq(Nat)
    OBVIOUS
  <2>3. l \in Link /\ l.state = link[s][c].state /\ l.up = link[s][c].up
        /\ l.down = << >>
    BY <2>2, LinkFields DEF Link
  <2> HIDE DEF l
  <2>4. /\ [link EXCEPT ![s][c] = l][s][c] = l
        /\ \A r \in Server, d \in Client :
             r # s \/ d # c => [link EXCEPT ![s][c] = l][r][d] = link[r][d]
        /\ l \in Link =>
             [link EXCEPT ![s][c] = l] \in [Server -> [Client -> Link]]
    BY <1>1, UpdateOne
  <2> QED
    BY <2>1, <2>3, <2>4
<1> QED
  BY <1>2, <1>3

Phase == {"login", "auth", "code", "game", "in", "failed", "refused",
          "no server", "gone"}

LEMMA ClientTypes ==
  ASSUME TypeOK, NEW c \in Client, UNCHANGED <<stack, serverVars>>, LinkType',
         phase' \in [Client -> Phase], typed' \in [Client -> Typed \cup {NoOne}],
         code' \in [Client -> Seq(Nat)], stray' \subseteq Client,
         \A s \in Server, d \in Client : Len(link'[s][d].down) <= SendSize
  PROVE  TypeOK'
BY DEF TypeOK, LinkType, Phase, serverVars

LEMMA Smaller ==
  ASSUME TypeOK, NEW l, NEW s \in Server, NEW c \in Client,
         l.down \in {<< >>, link[s][c].down}
  PROVE  Len(l.down) <= SendSize
<1>1. Len(<< >>) = 0 /\ SendSize \in Nat
  BY LoginAssumption
<1>2. Len(link[s][c].down) <= SendSize
  BY DEF TypeOK
<1> QED
  BY <1>1, <1>2

LEMMA LogInStep ==
  ASSUME TypeOK, NEW c \in Client, NEW t \in Typed, LogIn(c, t)
  PROVE  /\ TypeOK' /\ OthersKept(c)
         /\ UNCHANGED <<stack, status, thread, logged_in, busy, code, stray>>
         /\ phase[c] = "login" /\ typed'[c] = t
         /\ link'["game"][c] = link["game"][c]
         /\ \/ /\ Running("auth") /\ phase'[c] = "auth"
               /\ link'["auth"][c] = Opened(login_packet(t.username, t.password, 1))
            \/ /\ ~Running("auth") /\ phase'[c] = "no server" /\ link' = link
<1> DEFINE up == login_packet(t.username, t.password, 1)
           l == Opened(up)
<1>1. /\ LinkType /\ phase \in [Client -> Phase] /\ code \in [Client -> Seq(Nat)]
      /\ typed \in [Client -> Typed \cup {NoOne}]
  BY DEF TypeOK, LinkType, Phase
<1>2. t.username \in Seq(Nat) /\ t.password \in Seq(Nat)
  BY LoginAssumption
<1>3. up \in Seq(Nat)
  BY <1>2, PacketTypes
<1> HIDE DEF up
<1>4. l \in Link /\ l.down = << >>
  BY <1>3, OpenedIs
<1>5. /\ phase[c] = "login" /\ typed' = [typed EXCEPT ![c] = t] /\ code' = code
      /\ UNCHANGED <<stack, status, thread, logged_in, busy, stray>>
      /\ \/ /\ Running("auth") /\ phase' = [phase EXCEPT ![c] = "auth"]
            /\ link' = [link EXCEPT !["auth"][c] = l]
         \/ /\ ~Running("auth") /\ phase' = [phase EXCEPT ![c] = "no server"]
            /\ link' = link
  BY DEF LogIn, serverVars, up
<1> HIDE DEF l
<1>6. /\ typed' \in [Client -> Typed \cup {NoOne}] /\ phase' \in [Client -> Phase]
      /\ typed'[c] = t /\ \A d \in Client \ {c} : typed'[d] = typed[d]
      /\ \A d \in Client \ {c} : phase'[d] = phase[d]
      /\ phase'[c] = IF Running("auth") THEN "auth" ELSE "no server"
  BY <1>1, <1>5 DEF Phase
<1>7. /\ LinkType' /\ link'["game"][c] = link["game"][c]
      /\ Running("auth") => link'["auth"][c] = l
      /\ \A s \in Server : \A d \in Client \ {c} : link'[s][d] = link[s][d]
  <2>1. CASE Running("auth")
    <3>1. link' = [link EXCEPT !["auth"][c] = l]
      BY <1>5, <2>1
    <3>2. "auth" \in Server /\ "game" \in Server
      BY DEF Server
    <3>3. /\ [link EXCEPT !["auth"][c] = l]["auth"][c] = l
          /\ \A r \in Server, d \in Client :
               r # "auth" \/ d # c => [link EXCEPT !["auth"][c] = l][r][d] = link[r][d]
          /\ [link EXCEPT !["auth"][c] = l] \in [Server -> [Client -> Link]]
      BY <1>1, <1>4, <3>2, UpdateOne DEF LinkType
    <3> QED
      BY <3>1, <3>2, <3>3 DEF LinkType
  <2>2. CASE ~Running("auth")
    BY <1>1, <1>5, <2>2 DEF LinkType
  <2> QED
    BY <2>1, <2>2
<1>8. \A s \in Server, d \in Client : Len(link'[s][d].down) <= SendSize
  <2> TAKE s \in Server, d \in Client
  <2>1. link'[s][d].down \in {<< >>, link[s][d].down}
    BY <1>4, <1>5, <1>7 DEF Server
  <2> QED
    BY <2>1, Smaller
<1>9. OthersKept(c)
  BY <1>5, <1>6, <1>7 DEF OthersKept, Kept
<1>10. TypeOK'
  <2>1. stray' \subseteq Client
    BY <1>5 DEF TypeOK
  <2> QED
    BY <1>1, <1>5, <1>6, <1>7, <1>8, <2>1, ClientTypes DEF serverVars
<1> QED
  BY <1>5, <1>6, <1>7, <1>9, <1>10 DEF l, up

\* The client has read, or ended: what it has sent is still there.
Receded(new, old) ==
  /\ new.up = old.up
  /\ new.down \in {<< >>, old.down}
  /\ \/ new.state = old.state
     \/ old.state = "open" /\ new.state \in {"closed", "reset"}

ClientReceded(L, c) ==
  /\ L \in [Server -> [Client -> Link]]
  /\ \A s \in Server : Receded(L[s][c], link[s][c])
  /\ \A s \in Server : \A d \in Client \ {c} : L[s][d] = link[s][d]

LEMMA EndedReceded ==
  ASSUME TypeOK, NEW c \in Client, NEW L, ClientReceded(L, c)
  PROVE  ClientReceded(LinksEnded(L, c), c)
<1>1. L \in [Server -> [Client -> Link]]
  BY DEF ClientReceded
<1>2. /\ LinksEnded(L, c) \in [Server -> [Client -> Link]]
      /\ \A s \in Server : LinksEnded(L, c)[s][c] = Ended(L[s][c])
      /\ \A s \in Server, d \in Client : d # c => LinksEnded(L, c)[s][d] = L[s][d]
  BY <1>1, LinksEndedIs
<1>3. ASSUME NEW s \in Server PROVE Receded(LinksEnded(L, c)[s][c], link[s][c])
  <2> DEFINE l == L[s][c]
  <2>1. l \in Link /\ Receded(l, link[s][c])
    BY <1>1 DEF ClientReceded
  <2> HIDE DEF l
  <2>2. /\ Ended(l).up = l.up
        /\ l.state # "open" => Ended(l) = l
        /\ l.state = "open" =>
             Ended(l).state \in {"closed", "reset"} /\ Ended(l).down = << >>
    BY <2>1, EndedIs
  <2>3. Receded(Ended(l), link[s][c])
    BY <2>1, <2>2 DEF Receded
  <2> QED
    BY <1>2, <2>3 DEF l
<1> QED
  BY <1>2, <1>3 DEF ClientReceded

LEMMA SameReceded ==
  ASSUME TypeOK, NEW c \in Client
  PROVE  ClientReceded(link, c)
BY DEF TypeOK, ClientReceded, Receded

LEMMA DrainedReceded ==
  ASSUME TypeOK, NEW s \in Server, NEW c \in Client
  PROVE  ClientReceded(Drained(s, c), c)
<1>1. ASSUME NEW r \in Server PROVE Receded(Drained(s, c)[r][c], link[r][c])
  <2>1. CASE r = s
    BY <2>1, DrainedIs DEF Receded
  <2>2. CASE r # s
    BY <2>2, DrainedIs DEF Receded
  <2> QED
    BY <2>1, <2>2
<1> QED
  BY <1>1, DrainedIs DEF ClientReceded

LEMMA ClientMoved ==
  ASSUME TypeOK, NEW c \in Client, UNCHANGED <<stack, serverVars, typed>>,
         ClientReceded(link', c), NEW x \in Phase, phase' = [phase EXCEPT ![c] = x],
         code' \in [Client -> Seq(Nat)], stray' \subseteq Client,
         \A d \in Client \ {c} : code'[d] = code[d]
  PROVE  TypeOK' /\ OthersKept(c) /\ phase'[c] = x
<1>1. /\ phase \in [Client -> Phase] /\ typed \in [Client -> Typed \cup {NoOne}]
  BY DEF TypeOK, Phase
<1>2. /\ phase' \in [Client -> Phase] /\ phase'[c] = x
      /\ \A d \in Client \ {c} : phase'[d] = phase[d]
  BY <1>1
<1>3. \A s \in Server, d \in Client : Len(link'[s][d].down) <= SendSize
  <2> TAKE s \in Server, d \in Client
  <2>1. link'[s][d].down \in {<< >>, link[s][d].down}
    BY DEF ClientReceded, Receded
  <2> QED
    BY <2>1, Smaller
<1>4. LinkType'
  BY DEF LinkType, ClientReceded
<1>5. TypeOK'
  BY <1>1, <1>2, <1>3, <1>4, ClientTypes
<1>6. OthersKept(c)
  BY <1>2 DEF OthersKept, Kept, ClientReceded, serverVars
<1> QED
  BY <1>2, <1>5, <1>6

\* What the client makes of an answer with zeros behind it.
Received(s, c) == ParseFromString(Empty, UpToNul(link[s][c].down))

\* The packet that recv() and ParseFromString() leave.
LEMMA PacketIs ==
  ASSUME TypeOK, NEW c \in Client, NEW bytes \in Seq(Nat), NEW g \in stack.buf[c],
         stray' = Strays(c, bytes, g)
  PROVE  /\ Whole(Parsed(bytes, g)) /\ Parsed(bytes, g).str["auth_code"] \in Seq(Nat)
         /\ stray \subseteq stray' /\ stray' \subseteq Client
         /\ c \notin stray' =>
              Parsed(bytes, g) = ParseFromString(Empty, UpToNul(bytes))
<1>1. g \in Seq(Nat) /\ stray \subseteq Client
  BY GarbageIs DEF TypeOK
<1>2. Whole(Parsed(bytes, g))
  BY <1>1, ParsedIs
<1>3. Parsed(bytes, g).str["auth_code"] \in Seq(Nat)
  BY <1>2, MessageFields, Kinds DEF Whole
<1> QED
  BY <1>1, <1>2, <1>3, StraysIs

\* What a step of client c that is not LogIn does; Join may open a link.
ClientChange(c) ==
  /\ TypeOK' /\ OthersKept(c) /\ stray \subseteq stray'
  /\ UNCHANGED <<stack, status, thread, logged_in, busy, typed>>

\* Steps that end the client, or take it to the next phase.
LEMMA PhaseMoved ==
  ASSUME TypeOK, NEW c \in Client, UNCHANGED <<stack, serverVars, typed, code>>,
         stray \subseteq stray', stray' \subseteq Client,
         ClientReceded(link', c), NEW x \in Phase, phase' = [phase EXCEPT ![c] = x]
  PROVE  ClientChange(c) /\ phase'[c] = x
<1>1. code' \in [Client -> Seq(Nat)] /\ \A d \in Client \ {c} : code'[d] = code[d]
  BY DEF TypeOK
<1>2. TypeOK' /\ OthersKept(c) /\ phase'[c] = x
  BY <1>1, ClientMoved
<1> QED
  BY <1>2 DEF ClientChange, serverVars

LEMMA TakeCodeStep ==
  ASSUME TypeOK, NEW c \in Client, UNCHANGED <<stack, serverVars, typed>>,
         stray \subseteq stray', stray' \subseteq Client,
         NEW pck, pck.str["auth_code"] \in Seq(Nat),
         NEW L, ClientReceded(L, c), TakeCode(c, pck, L)
  PROVE  /\ ClientChange(c) /\ ClientReceded(link', c)
         /\ \/ /\ "auth_code" \in pck.has /\ phase'[c] = "code"
               /\ code'[c] = pck.str["auth_code"]
            \/ /\ "auth_code" \notin pck.has /\ phase'[c] = "failed"
               /\ code' = code
<1>1. code \in [Client -> Seq(Nat)]
  BY DEF TypeOK
<1>2. CASE "auth_code" \in pck.has
  <2>1. /\ code' = [code EXCEPT ![c] = pck.str["auth_code"]]
        /\ phase' = [phase EXCEPT ![c] = "code"] /\ link' = L
    BY <1>2 DEF TakeCode
  <2>2. /\ code' \in [Client -> Seq(Nat)] /\ code'[c] = pck.str["auth_code"]
        /\ \A d \in Client \ {c} : code'[d] = code[d]
    BY <1>1, <2>1
  <2>3. "code" \in Phase
    BY DEF Phase
  <2>4. TypeOK' /\ OthersKept(c) /\ phase'[c] = "code"
    BY <2>1, <2>2, <2>3, ClientMoved
  <2> QED
    BY <1>2, <2>1, <2>2, <2>4 DEF ClientChange, serverVars
<1>3. CASE "auth_code" \notin pck.has
  <2>1. /\ code' = code /\ phase' = [phase EXCEPT ![c] = "failed"]
        /\ link' = LinksEnded(L, c)
    BY <1>3 DEF TakeCode
  <2>2. "failed" \in Phase /\ ClientReceded(link', c)
    BY <2>1, EndedReceded DEF Phase
  <2>3. ClientChange(c) /\ phase'[c] = "failed"
    BY <2>1, <2>2, PhaseMoved
  <2> QED
    BY <1>3, <2>1, <2>2, <2>3
<1> QED
  BY <1>2, <1>3

LEMMA GetCodeStep ==
  ASSUME TypeOK, NEW c \in Client, GetCode(c)
  PROVE  /\ ClientChange(c) /\ ClientReceded(link', c)
         /\ phase[c] = "auth" /\ link["auth"][c].down # << >>
         /\ phase'[c] \in {"code", "failed"}
         /\ c \notin stray' =>
              \/ /\ "auth_code" \in Received("auth", c).has
                 /\ phase'[c] = "code"
                 /\ code'[c] = Received("auth", c).str["auth_code"]
              \/ /\ "auth_code" \notin Received("auth", c).has
                 /\ phase'[c] = "failed" /\ code' = code
<1> DEFINE d == link["auth"][c].down
           D == Drained("auth", c)
<1>1. /\ phase[c] = "auth" /\ d # << >> /\ UNCHANGED <<stack, serverVars, typed>>
  BY DEF GetCode, HasData
<1>2. ClientReceded(D, c) /\ d \in Seq(Nat)
  BY DrainedReceded, LinkFields, "auth" \in Server DEF Server
<1>3. PICK g \in stack.buf[c] :
        TakeCode(c, Parsed(d, g), D) /\ stray' = Strays(c, d, g)
  BY DEF GetCode
<1> DEFINE pck == Parsed(d, g)
<1>4. /\ pck.str["auth_code"] \in Seq(Nat)
      /\ stray \subseteq stray' /\ stray' \subseteq Client
      /\ c \notin stray' => pck = Received("auth", c)
  BY <1>2, <1>3, PacketIs DEF Received
<1> HIDE DEF pck, D
<1>5. TakeCode(c, pck, D)
  BY <1>3 DEF pck
<1> HIDE DEF d
<1>6. /\ ClientChange(c) /\ ClientReceded(link', c)
      /\ \/ /\ "auth_code" \in pck.has /\ phase'[c] = "code"
            /\ code'[c] = pck.str["auth_code"]
         \/ /\ "auth_code" \notin pck.has /\ phase'[c] = "failed" /\ code' = code
  BY <1>1, <1>2, <1>4, <1>5, TakeCodeStep
<1> QED
  BY <1>1, <1>4, <1>6 DEF d

LEMMA NoCodeStep ==
  ASSUME TypeOK, NEW c \in Client, NoCode(c)
  PROVE  /\ ClientChange(c) /\ link' = link /\ code' = code
         /\ phase[c] = "auth" /\ phase'[c] = "code"
         /\ ~Running("auth") /\ link["auth"][c].down = << >>
<1>1. ClientReceded(link', c) /\ "code" \in Phase
  BY SameReceded DEF NoCode, Phase
<1>2. UNCHANGED <<stack, serverVars, typed, code, stray>>
      /\ phase' = [phase EXCEPT ![c] = "code"]
  BY DEF NoCode
<1>3. stray' \subseteq Client
  BY <1>2 DEF TypeOK
<1> QED
  BY <1>1, <1>2, <1>3, PhaseMoved DEF NoCode

\* What is parsed when nothing was received.
LEMMA NothingReceived == ParseFromString(Empty, UpToNul(<< >>)) = Empty
<1> DEFINE e == << >>
<1>1. e \in Seq(Nat) /\ Len(e) = 0
  OBVIOUS
<1> HIDE DEF e
<1>2. UpToNul(e) \in Seq(Nat) /\ Len(UpToNul(e)) = 0
  <2>1. /\ UpToNul(e) \in Seq(Nat) /\ CString(e) \in 0 .. Len(e)
        /\ Len(UpToNul(e)) = CString(e)
    BY <1>1, UpToNulIs
  <2> QED
    BY <1>1, <2>1
<1>3. UpToNul(e) = e
  BY <1>1, <1>2
<1>4. ParseFromString(Empty, UpToNul(e)) = TakeAll(Reading(Empty), UpToNul(e)).msg
  BY <1>1, ReceivedWhole
<1>5. TakeAll(Reading(Empty), e) = Reading(Empty)
  BY TakeAllNothing DEF e
<1>6. ParseFromString(Empty, UpToNul(e)) = Reading(Empty).msg
  BY <1>3, <1>4, <1>5
<1> QED
  BY <1>6 DEF e, Reading

LEMMA NoAnswerStep ==
  ASSUME TypeOK, NEW c \in Client, NoAnswer(c)
  PROVE  /\ ClientChange(c) /\ ClientReceded(link', c)
         /\ phase[c] = "auth" /\ phase'[c] \in {"code", "failed"}
         /\ c \notin stray' => phase'[c] = "failed" /\ code' = code
         /\ stack.client_n = "dontwait" \/ ~Running("auth")
<1> DEFINE e == << >>
<1>1. /\ phase[c] = "auth" /\ UNCHANGED <<stack, serverVars, typed>>
      /\ stack.client_n = "dontwait" \/ ~Running("auth")
  BY DEF NoAnswer, NoData
<1>2. ClientReceded(link, c) /\ e \in Seq(Nat)
  BY SameReceded
<1>3. PICK g \in stack.buf[c] :
        TakeCode(c, Parsed(e, g), link) /\ stray' = Strays(c, e, g)
  BY DEF NoAnswer
<1> DEFINE pck == Parsed(e, g)
<1>4. /\ pck.str["auth_code"] \in Seq(Nat)
      /\ stray \subseteq stray' /\ stray' \subseteq Client
      /\ c \notin stray' => pck = ParseFromString(Empty, UpToNul(e))
  BY <1>2, <1>3, PacketIs
<1>5. c \notin stray' => pck = Empty
  BY <1>4, NothingReceived
<1> HIDE DEF pck, e
<1>6. TakeCode(c, pck, link)
  BY <1>3 DEF pck
<1>7. /\ ClientChange(c) /\ ClientReceded(link', c)
      /\ \/ /\ "auth_code" \in pck.has /\ phase'[c] = "code"
            /\ code'[c] = pck.str["auth_code"]
         \/ /\ "auth_code" \notin pck.has /\ phase'[c] = "failed" /\ code' = code
  BY <1>1, <1>2, <1>4, <1>6, TakeCodeStep
<1> QED
  BY <1>1, <1>5, <1>7, EmptyIs

LEMMA QuitStep ==
  ASSUME TypeOK, NEW c \in Client, Quit(c)
  PROVE  /\ ClientChange(c) /\ ClientReceded(link', c) /\ code' = code
         /\ phase[c] # "login" /\ phase'[c] = "gone"
<1>1. ClientReceded(link', c) /\ "gone" \in Phase
  BY SameReceded, EndedReceded DEF Quit, Phase
<1>2. UNCHANGED <<stack, serverVars, typed, code, stray>>
      /\ phase' = [phase EXCEPT ![c] = "gone"]
  BY DEF Quit
<1>3. stray' \subseteq Client
  BY <1>2 DEF TypeOK
<1> QED
  BY <1>1, <1>2, <1>3, PhaseMoved DEF Quit

LEMMA TakeConnectedStep ==
  ASSUME TypeOK, NEW c \in Client, UNCHANGED <<stack, serverVars, typed, code>>,
         stray \subseteq stray', stray' \subseteq Client, NEW pck,
         NEW L, ClientReceded(L, c), TakeConnected(c, pck, L)
  PROVE  /\ ClientChange(c) /\ ClientReceded(link', c)
         /\ \/ phase'[c] = phase[c]
            \/ "connected" \in pck.has /\ phase'[c] = "in"
            \/ /\ "connected_packet" \in pck.has /\ "connected" \notin pck.has
               /\ phase'[c] = "refused"
<1>1. phase \in [Client -> Phase]
  BY DEF TypeOK, Phase
<1>2. ClientReceded(LinksEnded(L, c), c)
  BY EndedReceded
<1>3. CASE "connected_packet" \notin pck.has
  <2>1. link' = L /\ phase' = phase
    BY <1>3 DEF TakeConnected
  <2>2. phase' = [phase EXCEPT ![c] = phase[c]] /\ phase[c] \in Phase
    BY <1>1, <2>1
  <2>3. ClientChange(c)
    BY <2>1, <2>2, PhaseMoved
  <2> QED
    BY <2>1, <2>3
<1>4. CASE "connected_packet" \in pck.has /\ "connected" \in pck.has
  <2>1. link' = L /\ phase' = [phase EXCEPT ![c] = "in"]
    BY <1>4 DEF TakeConnected, Admits
  <2>2. "in" \in Phase
    BY DEF Phase
  <2>3. ClientChange(c) /\ phase'[c] = "in"
    BY <2>1, <2>2, PhaseMoved
  <2> QED
    BY <1>4, <2>1, <2>3
<1>5. CASE "connected_packet" \in pck.has /\ "connected" \notin pck.has
  <2>1. link' = LinksEnded(L, c) /\ phase' = [phase EXCEPT ![c] = "refused"]
    BY <1>5 DEF TakeConnected, Admits
  <2>2. "refused" \in Phase
    BY DEF Phase
  <2>3. ClientChange(c) /\ phase'[c] = "refused"
    BY <1>2, <2>1, <2>2, PhaseMoved
  <2> QED
    BY <1>2, <1>5, <2>1, <2>3
<1> QED
  BY <1>3, <1>4, <1>5

LEMMA ReadDataStep ==
  ASSUME TypeOK, NEW c \in Client, ReadData(c)
  PROVE  /\ ClientChange(c) /\ ClientReceded(link', c) /\ code' = code
         /\ phase[c] \in {"game", "in"} /\ link["game"][c].down # << >>
         /\ phase'[c] \in {phase[c], "in", "refused"}
         /\ c \notin stray' =>
              \/ phase'[c] = phase[c]
              \/ "connected" \in Received("game", c).has /\ phase'[c] = "in"
              \/ /\ "connected_packet" \in Received("game", c).has
                 /\ "connected" \notin Received("game", c).has
                 /\ phase'[c] = "refused"
<1> DEFINE d == link["game"][c].down
           D == Drained("game", c)
<1>1. /\ phase[c] \in {"game", "in"} /\ d # << >>
      /\ UNCHANGED <<stack, serverVars, typed, code>>
  BY DEF ReadData, HasData
<1>2. ClientReceded(D, c) /\ d \in Seq(Nat)
  BY DrainedReceded, LinkFields, "game" \in Server DEF Server
<1>3. PICK g \in stack.buf[c] :
        TakeConnected(c, Parsed(d, g), D) /\ stray' = Strays(c, d, g)
  BY DEF ReadData
<1> DEFINE pck == Parsed(d, g)
<1>4. /\ stray \subseteq stray' /\ stray' \subseteq Client
      /\ c \notin stray' => pck = Received("game", c)
  BY <1>2, <1>3, PacketIs DEF Received
<1> HIDE DEF pck, D
<1>5. TakeConnected(c, pck, D)
  BY <1>3 DEF pck
<1> HIDE DEF d
<1>6. /\ ClientChange(c) /\ ClientReceded(link', c)
      /\ \/ phase'[c] = phase[c]
         \/ "connected" \in pck.has /\ phase'[c] = "in"
         \/ /\ "connected_packet" \in pck.has /\ "connected" \notin pck.has
            /\ phase'[c] = "refused"
  BY <1>1, <1>2, <1>4, <1>5, TakeConnectedStep
<1> QED
  BY <1>1, <1>4, <1>6 DEF d

LEMMA ReadNothingStep ==
  ASSUME TypeOK, NEW c \in Client, ReadNothing(c)
  PROVE  /\ ClientChange(c) /\ ClientReceded(link', c) /\ code' = code
         /\ phase[c] \in {"game", "in"}
         /\ phase'[c] \in {phase[c], "in", "refused"}
         /\ c \notin stray' => phase'[c] = phase[c]
<1> DEFINE e == << >>
<1>1. /\ phase[c] \in {"game", "in"} /\ UNCHANGED <<stack, serverVars, typed, code>>
  BY DEF ReadNothing
<1>2. ClientReceded(link, c) /\ e \in Seq(Nat)
  BY SameReceded
<1>3. PICK g \in stack.buf[c] :
        TakeConnected(c, Parsed(e, g), link) /\ stray' = Strays(c, e, g)
  BY DEF ReadNothing
<1> DEFINE pck == Parsed(e, g)
<1>4. /\ stray \subseteq stray' /\ stray' \subseteq Client
      /\ c \notin stray' => pck = ParseFromString(Empty, UpToNul(e))
  BY <1>2, <1>3, PacketIs
<1>5. c \notin stray' => pck = Empty
  BY <1>4, NothingReceived
<1> HIDE DEF pck, e
<1>6. TakeConnected(c, pck, link)
  BY <1>3 DEF pck
<1>7. /\ ClientChange(c) /\ ClientReceded(link', c)
      /\ \/ phase'[c] = phase[c]
         \/ "connected" \in pck.has /\ phase'[c] = "in"
         \/ /\ "connected_packet" \in pck.has /\ "connected" \notin pck.has
            /\ phase'[c] = "refused"
  BY <1>1, <1>2, <1>4, <1>6, TakeConnectedStep
<1> QED
  BY <1>1, <1>5, <1>7, EmptyIs

LEMMA JoinStep ==
  ASSUME TypeOK, NEW c \in Client, Join(c)
  PROVE  /\ ClientChange(c) /\ code' = code /\ phase[c] = "code"
         /\ \/ /\ phase'[c] = "game" /\ link'["auth"][c] = link["auth"][c]
               /\ link'["game"][c] = Opened(auth_code_packet(code[c]))
            \/ phase'[c] = "no server" /\ ClientReceded(link', c)
<1>1. /\ phase[c] = "code" /\ UNCHANGED <<stack, serverVars, typed, code, stray>>
      /\ stray' \subseteq Client
      /\ LinkType /\ phase \in [Client -> Phase] /\ "game" \in Server
      /\ code \in [Client -> Seq(Nat)] /\ typed \in [Client -> Typed \cup {NoOne}]
  BY DEF Join, TypeOK, LinkType, Phase, Server
<1>2. CASE Running("game")
  <2> DEFINE l == Opened(auth_code_packet(code[c]))
  <2>1. /\ link' = [link EXCEPT !["game"][c] = l]
        /\ phase' = [phase EXCEPT ![c] = "game"]
    BY <1>2 DEF Join
  <2>2. l \in Link /\ l.down = << >>
    BY <1>1, PacketTypes, OpenedIs
  <2> HIDE DEF l
  <2>3. /\ LinkType' /\ link'["game"][c] = l
        /\ \A r \in Server, d \in Client :
             r # "game" \/ d # c => link'[r][d] = link[r][d]
    BY <1>1, <2>1, <2>2, UpdateOne DEF LinkType
  <2>4. /\ phase' \in [Client -> Phase] /\ phase'[c] = "game"
        /\ \A d \in Client \ {c} : phase'[d] = phase[d]
    BY <1>1, <2>1 DEF Phase
  <2>5. \A s \in Server, d \in Client : Len(link'[s][d].down) <= SendSize
    <3> TAKE s \in Server, d \in Client
    <3>1. link'[s][d].down \in {<< >>, link[s][d].down}
      BY <2>2, <2>3
    <3> QED
      BY <3>1, Smaller
  <2>6. OthersKept(c) /\ link'["auth"][c] = link["auth"][c]
    BY <1>1, <2>3, <2>4 DEF OthersKept, Kept, serverVars, Server
  <2>7. TypeOK'
    BY <1>1, <2>3, <2>4, <2>5, ClientTypes
  <2> QED
    BY <1>1, <2>3, <2>4, <2>6, <2>7 DEF ClientChange, serverVars, l
<1>3. CASE ~Running("game")
  <2>1. link' = LinksEnded(link, c) /\ phase' = [phase EXCEPT ![c] = "no server"]
    BY <1>3 DEF Join
  <2>2. ClientReceded(link', c) /\ "no server" \in Phase
    BY <2>1, SameReceded, EndedReceded DEF Phase
  <2>3. ClientChange(c) /\ phase'[c] = "no server"
    BY <1>1, <2>1, <2>2, PhaseMoved
  <2> QED
    BY <1>1, <2>2, <2>3
<1> QED
  BY <1>2, <1>3

\* What a step of the thread of server s for client c does.
ServerChange(s, c) ==
  /\ TypeOK' /\ OthersKept(c) /\ stray \subseteq stray'
  /\ UNCHANGED <<stack, phase, typed, code>>
  /\ \A r \in Server \ {s} :
       link'[r][c] = link[r][c] /\ thread'[r][c] = thread[r][c]

Put(X, s, c, v) == [X EXCEPT ![s][c] = v]

LEMMA PutLink ==
  ASSUME NEW X \in [Server -> [Client -> Link]],
         NEW s \in Server, NEW c \in Client, NEW v \in Link
  PROVE  /\ Put(X, s, c, v)[s][c] = v
         /\ \A r \in Server, d \in Client :
              r # s \/ d # c => Put(X, s, c, v)[r][d] = X[r][d]
         /\ Put(X, s, c, v) \in [Server -> [Client -> Link]]
BY DEF Put

LEMMA PutThread ==
  ASSUME NEW X \in [Server -> [Client -> Thread]],
         NEW s \in Server, NEW c \in Client, NEW v \in Thread
  PROVE  /\ Put(X, s, c, v)[s][c] = v
         /\ \A r \in Server, d \in Client :
              r # s \/ d # c => Put(X, s, c, v)[r][d] = X[r][d]
         /\ Put(X, s, c, v) \in [Server -> [Client -> Thread]]
BY DEF Put

Stepped(s, c, l, th) ==
  /\ UNCHANGED <<stack, clientVars>>
  /\ l \in Link /\ (l.down = link[s][c].down \/ Len(l.down) <= SendSize)
  /\ link' = Put(link, s, c, l)
  /\ th \in Thread /\ thread' = Put(thread, s, c, th)
  /\ status' \in [Server -> {"running", "killed"}]
  /\ logged_in' \in [auth_login -> {<< >>, uniqueauthcode}]
  /\ busy' \subseteq Client
  /\ stray \subseteq stray' /\ stray' \subseteq Client

LEMMA ServerMoved ==
  ASSUME TypeOK, NEW s \in Server, NEW c \in Client, NEW l, NEW th,
         Stepped(s, c, l, th)
  PROVE  ServerChange(s, c) /\ link'[s][c] = l /\ thread'[s][c] = th
<1>1. /\ link \in [Server -> [Client -> Link]]
      /\ thread \in [Server -> [Client -> Thread]]
  BY DEF TypeOK
<1>2. /\ link'[s][c] = l /\ link' \in [Server -> [Client -> Link]]
      /\ \A r \in Server, d \in Client :
           r # s \/ d # c => link'[r][d] = link[r][d]
  <2>1. l \in Link /\ link' = Put(link, s, c, l)
    BY DEF Stepped
  <2> QED
    BY <2>1, <1>1, PutLink
<1>3. /\ thread'[s][c] = th /\ thread' \in [Server -> [Client -> Thread]]
      /\ \A r \in Server, d \in Client :
           r # s \/ d # c => thread'[r][d] = thread[r][d]
  <2>1. th \in Thread /\ thread' = Put(thread, s, c, th)
    BY DEF Stepped
  <2> DEFINE X == Put(thread, s, c, th)
  <2>2. X[s][c] = th
    BY <2>1, <1>1, PutThread
  <2>3. X \in [Server -> [Client -> Thread]]
    BY <2>1, <1>1, PutThread
  <2>4. \A r \in Server, d \in Client :
          r # s \/ d # c => X[r][d] = thread[r][d]
    BY <1>1 DEF Put
  <2> HIDE DEF X
  <2> QED
    BY <2>1, <2>2, <2>3, <2>4 DEF X
<1>4. ASSUME NEW r \in Server, NEW d \in Client
      PROVE  Len(link'[r][d].down) <= SendSize
  <2>1. Len(link[r][d].down) <= SendSize
    BY DEF TypeOK
  <2>2. CASE r = s /\ d = c
    BY <1>2, <2>1, <2>2 DEF Stepped
  <2>3. CASE r # s \/ d # c
    BY <1>2, <2>1, <2>3
  <2> QED
    BY <2>2, <2>3
<1>5. TypeOK'
  <2>1. /\ stack' = stack /\ phase' = phase /\ typed' = typed /\ code' = code
        /\ status' \in [Server -> {"running", "killed"}]
        /\ logged_in' \in [auth_login -> {<< >>, uniqueauthcode}]
        /\ busy' \subseteq Client /\ stray' \subseteq Client
    BY DEF Stepped, clientVars
  <2> QED
    BY <1>2, <1>3, <1>4, <2>1 DEF TypeOK
<1>6. OthersKept(c)
  BY <1>2, <1>3 DEF OthersKept, Kept, clientVars, Stepped
<1> QED
  BY <1>2, <1>3, <1>5, <1>6 DEF ServerChange, clientVars, Stepped

LEMMA SameLink ==
  ASSUME TypeOK, NEW s \in Server, NEW c \in Client, link' = link
  PROVE  link' = Put(link, s, c, link[s][c]) /\ link[s][c] \in Link
BY DEF TypeOK, Put

LEMMA ThreadMoved ==
  ASSUME TypeOK, NEW s \in Server, NEW c \in Client,
         UNCHANGED <<stack, status, logged_in, link, clientVars, stray>>,
         NEW th \in Thread, thread' = Put(thread, s, c, th),
         busy' \subseteq Client
  PROVE  ServerChange(s, c) /\ thread'[s][c] = th
<1>1. Stepped(s, c, link[s][c], th)
  BY SameLink DEF Stepped, TypeOK
<1> QED
  BY <1>1, ServerMoved

Pc == {"none", "recv", "check", "select", "answer", "update", "send"}

LEMMA ThreadEqual ==
  ASSUME NEW t \in Thread, NEW u \in Thread,
         t.pc = u.pc, t.zeroed = u.zeroed, t.header = u.header, t.found = u.found, t.resp = u.resp
  PROVE  t = u
BY DEF Thread

LEMMA AThread ==
  ASSUME NEW pc \in Pc, NEW zeroed \in BOOLEAN, NEW header \in Message,
         NEW found \in BOOLEAN, NEW resp \in Seq(Nat)
  PROVE  [pc |-> pc, zeroed |-> zeroed, header |-> header, found |-> found,
          resp |-> resp] \in Thread
BY DEF Thread, Pc

\* The thread with a new place, packet and outcome of the select.
With(th, pc, header, found) ==
  [pc |-> pc, zeroed |-> th.zeroed, header |-> header, found |-> found,
   resp |-> th.resp]

LEMMA WithIs ==
  ASSUME TypeOK, NEW s \in Server, NEW c \in Client, NEW pc \in Pc,
         NEW header \in Message, NEW found \in BOOLEAN
  PROVE  /\ With(thread[s][c], pc, header, found) \in Thread
         /\ With(thread[s][c], pc, header, found).pc = pc
         /\ With(thread[s][c], pc, header, found).header = header
         /\ With(thread[s][c], pc, header, found).found = found
         /\ With(thread[s][c], pc, header, found).resp = thread[s][c].resp
         /\ With(thread[s][c], pc, header, found).zeroed = thread[s][c].zeroed
<1>1. thread[s][c] \in Thread /\ thread \in [Server -> [Client -> Thread]]
  BY DEF TypeOK
<1>2. With(thread[s][c], pc, header, found) \in Thread
  BY LinkFields, AThread DEF With
<1>6. /\ With(thread[s][c], pc, header, found).pc = pc
      /\ With(thread[s][c], pc, header, found).header = header
      /\ With(thread[s][c], pc, header, found).found = found
      /\ With(thread[s][c], pc, header, found).resp = thread[s][c].resp
      /\ With(thread[s][c], pc, header, found).zeroed = thread[s][c].zeroed
  BY DEF With
<1> QED
  BY <1>2, <1>6

\* The thread is at another place with all it had.
LEMMA OnlyPc ==
  ASSUME TypeOK, NEW s \in Server, NEW c \in Client, NEW pc \in Pc
  PROVE  [thread EXCEPT ![s][c].pc = pc] = Put(thread, s, c,
           With(thread[s][c], pc, thread[s][c].header, thread[s][c].found))
<1>1. thread[s][c] \in Thread /\ thread \in [Server -> [Client -> Thread]]
  BY DEF TypeOK
<1> DEFINE th == thread[s][c]
           e == [th EXCEPT !.pc = pc]
<1>2. e = With(th, pc, th.header, th.found)
  <2> HIDE DEF th
  <2>1. th = [pc |-> th.pc, zeroed |-> th.zeroed, header |-> th.header,
              found |-> th.found, resp |-> th.resp]
    BY <1>1 DEF Thread, th
  <2> QED
    BY <2>1 DEF With
<1>3. [thread EXCEPT ![s][c].pc = pc] = [thread EXCEPT ![s][c] = e]
  BY <1>1
<1> HIDE DEF e
<1> QED
  BY Zenon, <1>2, <1>3 DEF th, Put

\* A step that takes the thread from one place to another, without a
\* packet, a select or an answer.
Moved(s, c, from, to) ==
  /\ thread[s][c].pc = from /\ thread'[s][c].pc = to
  /\ thread'[s][c].header = thread[s][c].header
  /\ thread'[s][c].found = thread[s][c].found
  /\ thread'[s][c].resp = thread[s][c].resp

LEMMA MovedStep ==
  ASSUME TypeOK, NEW s \in Server, NEW c \in Client,
         UNCHANGED <<stack, status, logged_in, link, clientVars, stray>>,
         NEW pc \in Pc, thread' = [thread EXCEPT ![s][c].pc = pc],
         busy' \subseteq Client
  PROVE  ServerChange(s, c) /\ Moved(s, c, thread[s][c].pc, pc)
<1> DEFINE th == With(thread[s][c], pc, thread[s][c].header, thread[s][c].found)
<1>1. thread[s][c].header \in Message /\ thread[s][c].found \in BOOLEAN
  BY LinkFields
<1>2. /\ th \in Thread /\ th.pc = pc /\ th.header = thread[s][c].header
      /\ th.found = thread[s][c].found /\ th.resp = thread[s][c].resp
  BY <1>1, WithIs
<1>3. thread' = Put(thread, s, c, th)
  BY OnlyPc
<1> HIDE DEF th
<1>4. ServerChange(s, c) /\ thread'[s][c] = th
  BY <1>2, <1>3, ThreadMoved
<1> QED
  BY <1>2, <1>4 DEF Moved

LEMMA AcceptStep ==
  ASSUME TypeOK, NEW s \in Server, NEW c \in Client, Accept(s, c)
  PROVE  /\ ServerChange(s, c) /\ UNCHANGED <<status, logged_in, busy, link>>
         /\ Moved(s, c, "none", "recv") /\ link[s][c].state # "none"
<1>1. "recv" \in Pc /\ busy \subseteq Client
  BY DEF Pc, TypeOK
<1> QED
  BY <1>1, MovedStep DEF Accept, At

LEMMA FinalizeStep ==
  ASSUME TypeOK, NEW s \in Server, NEW c \in Client, Finalize(s, c)
  PROVE  /\ ServerChange(s, c) /\ UNCHANGED <<status, logged_in, busy, link>>
         /\ Moved(s, c, "select", "answer")
<1>1. "answer" \in Pc /\ busy \subseteq Client
  BY DEF Pc, TypeOK
<1> QED
  BY <1>1, MovedStep DEF Finalize, At

LEMMA EmptyWantsNothing ==
  ASSUME NEW s \in Server
  PROVE  ~WantsCheck(s, Empty)
BY EmptyIs DEF WantsCheck

\* What a pass of the loop makes of the bytes received.
LEMMA PacketTaken ==
  ASSUME TypeOK, NEW s \in Server, NEW c \in Client, NEW bytes \in Seq(Nat),
         TakePacket(s, c, bytes)
  PROVE  /\ stray \subseteq stray' /\ stray' \subseteq Client
         /\ \E th \in Thread, H \in Message :
              /\ thread' = Put(thread, s, c, th)
              /\ th.pc = NextPc(s, c, H)
              /\ WantsCheck(s, H) => th.header = H
              /\ th.found = thread[s][c].found /\ th.resp = thread[s][c].resp
              /\ c \notin stray' => H = ParseFromString(Empty, UpToNul(bytes))
<1>1. PICK g \in BehindReceived(s, c) :
        /\ thread' = [thread EXCEPT
             ![s][c].pc = NextPc(s, c, Parsed(bytes, g)), ![s][c].zeroed = TRUE,
             ![s][c].header = IF WantsCheck(s, Parsed(bytes, g))
                              THEN Parsed(bytes, g) ELSE @]
        /\ stray' = Strays(c, bytes, g)
  BY DEF TakePacket
<1>2. g \in stack.buf[c]
  BY GarbageIs DEF BehindReceived
<1> DEFINE H == Parsed(bytes, g)
           t == thread[s][c]
           pc == NextPc(s, c, H)
           header == IF WantsCheck(s, H) THEN H ELSE t.header
           th == [t EXCEPT !.pc = pc, !.zeroed = TRUE, !.header = header]
<1>3. /\ Whole(H) /\ stray \subseteq stray' /\ stray' \subseteq Client
      /\ c \notin stray' => H = ParseFromString(Empty, UpToNul(bytes))
  BY <1>1, <1>2, PacketIs
<1>4. H \in Message
  BY <1>3 DEF Whole
<1>5. t \in Thread /\ t.header \in Message /\ thread \in [Server -> [Client -> Thread]]
  BY LinkFields DEF TypeOK
<1>6. thread' = [thread EXCEPT ![s][c] = th]
  <2> HIDE DEF H, pc
  <2>1. thread' = [thread EXCEPT ![s][c].pc = pc, ![s][c].zeroed = TRUE,
                                 ![s][c].header = header]
    BY <1>1, <1>5 DEF H, pc
  <2> HIDE DEF header
  <2> QED
    BY <2>1, <1>5
<1>7. pc \in Pc
  BY DEF NextPc, Pc
<1> HIDE DEF H, pc
<1>8. header \in Message /\ (WantsCheck(s, H) => header = H)
  BY <1>4, <1>5
<1> HIDE DEF header, t
<1>9. /\ th \in Thread /\ th.pc = pc /\ th.header = header
      /\ th.found = t.found /\ th.resp = t.resp
  BY <1>5, <1>7, <1>8 DEF Thread, Pc
<1> HIDE DEF th
<1>10. thread' = Put(thread, s, c, th)
  BY <1>6 DEF Put
<1> QED
  BY <1>3, <1>4, <1>8, <1>9, <1>10 DEF pc, t

\* What a recv() leaves of what was sent.
LEMMA RecvStep ==
  ASSUME TypeOK, NEW s \in Server, NEW c \in Client, Recv(s, c)
  PROVE  /\ ServerChange(s, c) /\ UNCHANGED <<status, logged_in, busy>>
         /\ thread[s][c].pc = "recv" /\ link[s][c].up # << >>
         /\ link'[s][c].state = link[s][c].state
         /\ link'[s][c].down = link[s][c].down
         /\ link'[s][c].up \in {<< >>, link[s][c].up}
         /\ stack.server_n # "peek" => link'[s][c].up = << >>
         /\ thread'[s][c].found = thread[s][c].found
         /\ thread'[s][c].resp = thread[s][c].resp
         /\ c \notin stray' =>
              LET header == ParseFromString(Empty, UpToNul(link[s][c].up))
              IN /\ thread'[s][c].pc = NextPc(s, c, header)
                 /\ WantsCheck(s, header) => thread'[s][c].header = header
<1> DEFINE up == IF stack.server_n = "peek" THEN link[s][c].up ELSE << >>
           l == [state |-> link[s][c].state, up |-> up, down |-> link[s][c].down]
           P == ParseFromString(Empty, UpToNul(link[s][c].up))
<1>1. /\ thread[s][c].pc = "recv" /\ link[s][c].up # << >>
      /\ UNCHANGED <<stack, status, logged_in, busy, clientVars>>
      /\ TakePacket(s, c, link[s][c].up)
      /\ link' = IF stack.server_n = "peek" THEN link
                 ELSE [link EXCEPT ![s][c].up = << >>]
  BY DEF Recv, At
<1>2. link[s][c] \in Link /\ link \in [Server -> [Client -> Link]]
      /\ link[s][c].up \in Seq(Nat)
  BY LinkFields DEF TypeOK
<1>3. link' = Put(link, s, c, l)
  <2>1. link[s][c] = [state |-> link[s][c].state, up |-> link[s][c].up,
                      down |-> link[s][c].down]
    BY LinkFields
  <2>2. CASE stack.server_n = "peek"
    <3>1. l = link[s][c]
      BY <2>1, <2>2
    <3> HIDE DEF l
    <3> QED
      BY <1>1, <1>2, <2>2, <3>1 DEF Put
  <2>3. CASE stack.server_n # "peek"
    <3> DEFINE e == [link[s][c] EXCEPT !.up = << >>]
    <3>1. e = l
      BY <2>1, <2>3
    <3>2. link' = [link EXCEPT ![s][c] = e]
      BY <1>1, <1>2, <2>3
    <3> HIDE DEF e, l
    <3> QED
      BY <3>1, <3>2 DEF Put
  <2> QED
    BY <2>2, <2>3
<1>4. PICK th \in Thread, H \in Message :
        /\ thread' = Put(thread, s, c, th)
        /\ th.pc = NextPc(s, c, H)
        /\ WantsCheck(s, H) => th.header = H
        /\ th.found = thread[s][c].found /\ th.resp = thread[s][c].resp
        /\ c \notin stray' => H = P
  BY <1>1, <1>2, PacketTaken
<1>5. stray \subseteq stray' /\ stray' \subseteq Client
  BY <1>1, <1>2, PacketTaken
<1>6. up \in Seq(Nat) /\ l.state = link[s][c].state /\ l.up = up
      /\ l.down = link[s][c].down
  <2>1. << >> \in Seq(Nat)
    OBVIOUS
  <2>2. up \in Seq(Nat)
    BY <1>2, <2>1
  <2> HIDE DEF up
  <2> QED
    BY <2>2
<1>7. l \in Link
  BY <1>6, LinkFields DEF Link
<1>8. up \in {<< >>, link[s][c].up} /\ (stack.server_n # "peek" => up = << >>)
  OBVIOUS
<1> HIDE DEF up, l, P
<1>9. Stepped(s, c, l, th)
  BY <1>1, <1>3, <1>4, <1>5, <1>6, <1>7 DEF Stepped, TypeOK
<1>10. ServerChange(s, c) /\ link'[s][c] = l /\ thread'[s][c] = th
  BY <1>9, ServerMoved
<1> QED
  BY <1>1, <1>4, <1>6, <1>8, <1>10 DEF P

LEMMA RecvFailsStep ==
  ASSUME TypeOK, NEW s \in Server, NEW c \in Client, RecvFails(s, c)
  PROVE  /\ ServerChange(s, c) /\ UNCHANGED <<status, logged_in, busy>>
         /\ thread[s][c].pc = "recv" /\ thread'[s][c].resp = thread[s][c].resp
         /\ c \notin stray' => thread'[s][c].pc \in {"recv", "send"}
         /\ link[s][c].up = << >> /\ link'[s][c].up = << >>
         /\ link'[s][c].down = link[s][c].down
         /\ \/ /\ link[s][c].state = "open" /\ link'[s][c].state = "open"
               /\ stack.server_n = "dontwait"
            \/ link[s][c].state = "reset" /\ link'[s][c].state = "dead"
<1> DEFINE st == IF link[s][c].state = "reset" THEN "dead" ELSE link[s][c].state
           l == [state |-> st, up |-> link[s][c].up, down |-> link[s][c].down]
           e == << >>
<1>1. /\ thread[s][c].pc = "recv" /\ link[s][c].up = << >>
      /\ UNCHANGED <<stack, status, logged_in, busy, clientVars>>
      /\ TakePacket(s, c, e)
      /\ \/ link[s][c].state = "open" /\ stack.server_n = "dontwait"
         \/ link[s][c].state = "reset"
  BY DEF RecvFails, At, Fails
<1>2. link[s][c] \in Link /\ link \in [Server -> [Client -> Link]]
  BY DEF TypeOK
<1>12. e \in Seq(Nat)
  OBVIOUS
<1>3. link' = Put(link, s, c, l)
  <2> DEFINE k == [link[s][c] EXCEPT !.state = st]
  <2>1. link' = [link EXCEPT ![s][c].state = IF @ = "reset" THEN "dead" ELSE @]
    BY DEF RecvFails
  <2>2. link' = [link EXCEPT ![s][c] = k]
    BY <2>1, <1>2
  <2>3. k = l
    <3>1. link[s][c] = [state |-> link[s][c].state, up |-> link[s][c].up,
                        down |-> link[s][c].down]
      BY LinkFields
    <3> HIDE DEF st
    <3> QED
      BY <3>1
  <2> HIDE DEF k, l
  <2> QED
    BY <2>2, <2>3 DEF Put
<1>4. PICK th \in Thread, H \in Message :
        /\ thread' = Put(thread, s, c, th)
        /\ th.pc = NextPc(s, c, H) /\ th.resp = thread[s][c].resp
        /\ c \notin stray' => H = ParseFromString(Empty, UpToNul(e))
  <2> HIDE DEF e
  <2> QED
    BY <1>1, <1>12, PacketTaken
<1>5. stray \subseteq stray' /\ stray' \subseteq Client
  <2> HIDE DEF e
  <2> QED
    BY <1>1, <1>12, PacketTaken
<1>6. c \notin stray' => th.pc \in {"recv", "send"}
  <2>1. ~WantsCheck(s, Empty)
    BY EmptyWantsNothing
  <2>2. NextPc(s, c, Empty) \in {"recv", "send"}
    BY <2>1 DEF NextPc
  <2> QED
    BY <1>4, <2>2, NothingReceived
<1>7. /\ l.state = st /\ l.up = link[s][c].up /\ l.down = link[s][c].down
      /\ st \in LinkState
  BY LinkFields DEF LinkState
<1>8. l \in Link
  BY <1>7, LinkFields DEF Link
<1>9. \/ link[s][c].state = "open" /\ st = "open" /\ stack.server_n = "dontwait"
      \/ link[s][c].state = "reset" /\ st = "dead"
  BY <1>1
<1> HIDE DEF st, l, e
<1>10. Stepped(s, c, l, th)
  BY <1>1, <1>3, <1>4, <1>5, <1>7, <1>8 DEF Stepped, TypeOK
<1>11. ServerChange(s, c) /\ link'[s][c] = l /\ thread'[s][c] = th
  BY <1>10, ServerMoved
<1> QED
  BY <1>1, <1>4, <1>6, <1>7, <1>9, <1>11

LEMMA SelectStep ==
  ASSUME TypeOK, NEW s \in Server, NEW c \in Client, Select(s, c)
  PROVE  /\ ServerChange(s, c) /\ UNCHANGED <<status, logged_in, link>>
         /\ thread[s][c].pc = "check"
         /\ thread'[s][c].header = thread[s][c].header
         /\ thread'[s][c].resp = thread[s][c].resp
         /\ \/ /\ thread'[s][c].pc = "select" /\ busy' = busy
               /\ thread'[s][c].found = Found(s, thread[s][c].header)
            \/ /\ thread'[s][c].pc = "answer" /\ busy' = busy \cup {c}
               /\ thread'[s][c].found = FALSE
<1> DEFINE pc == IF MaySelect THEN "select" ELSE "answer"
           found == IF MaySelect THEN Found(s, thread[s][c].header) ELSE FALSE
           th == With(thread[s][c], pc, thread[s][c].header, found)
<1>1. /\ thread[s][c].pc = "check"
      /\ UNCHANGED <<stack, status, logged_in, link, clientVars, stray>>
  BY DEF Select, At
<1>2. busy' = IF MaySelect THEN busy ELSE busy \cup {c}
  BY DEF Select
<1>3. pc \in Pc /\ found \in BOOLEAN /\ thread[s][c].header \in Message
  <2>1. Found(s, thread[s][c].header) \in BOOLEAN
    BY DEF Found
  <2> QED
    BY <2>1, LinkFields DEF Pc
<1>4. /\ th \in Thread /\ th.pc = pc /\ th.header = thread[s][c].header
      /\ th.found = found /\ th.resp = thread[s][c].resp
      /\ th.zeroed = thread[s][c].zeroed
  <2> HIDE DEF pc, found
  <2> QED
    BY <1>3, WithIs
<1>5. thread' = Put(thread, s, c, th)
  <2> DEFINE t == thread[s][c]
             e == [t EXCEPT !.pc = pc, !.found = found]
  <2>1. t \in Thread /\ thread \in [Server -> [Client -> Thread]]
    BY DEF TypeOK
  <2>2. thread' = [thread EXCEPT ![s][c].pc = pc, ![s][c].found = found]
    <3>1. CASE MaySelect
      <4>1. thread' = [thread EXCEPT ![s][c].pc = "select",
                         ![s][c].found = Found(s, thread[s][c].header)]
        BY <3>1 DEF Select
      <4>2. found = Found(s, thread[s][c].header) /\ pc = "select"
        BY <3>1
      <4> HIDE DEF found, pc
      <4> QED
        BY <4>1, <4>2
    <3>2. CASE ~MaySelect
      <4>1. thread' = [thread EXCEPT ![s][c].pc = "answer",
                                     ![s][c].found = FALSE]
        BY <3>2 DEF Select
      <4>2. found = FALSE /\ pc = "answer"
        BY <3>2
      <4> HIDE DEF found, pc
      <4> QED
        BY <4>1, <4>2
    <3> QED
      BY <3>1, <3>2
  <2> HIDE DEF found, pc, th
  <2>3. thread' = [thread EXCEPT ![s][c] = e]
    BY <2>1, <2>2
  <2> HIDE DEF t
  <2>4. /\ e \in Thread /\ e.pc = pc /\ e.header = t.header
        /\ e.found = found /\ e.resp = t.resp /\ e.zeroed = t.zeroed
    BY <2>1, <1>3 DEF Thread, Pc
  <2> HIDE DEF e
  <2>5. e = th
    BY <1>4, <2>4, ThreadEqual DEF t
  <2> QED
    BY <2>3, <2>5 DEF Put
<1>6. busy' \subseteq Client
  BY <1>2 DEF TypeOK
<1>7. \/ pc = "select" /\ busy' = busy /\ found = Found(s, thread[s][c].header)
      \/ pc = "answer" /\ busy' = busy \cup {c} /\ found = FALSE
  <2>1. CASE MaySelect
    BY <1>2, <2>1
  <2>2. CASE ~MaySelect
    BY <1>2, <2>2
  <2> QED
    BY <2>1, <2>2
<1> HIDE DEF pc, found, th
<1>8. ServerChange(s, c) /\ thread'[s][c] = th
  BY <1>1, <1>4, <1>5, <1>6, ThreadMoved
<1> QED
  BY <1>1, <1>4, <1>7, <1>8

LEMMA AnsweringIs ==
  ASSUME NEW resp \in Seq(Nat)
  PROVE  /\ Answering(resp) \in Thread /\ Answering(resp).pc = "send"
         /\ Answering(resp).resp = resp /\ Answering(resp).header = Empty
         /\ Answering(resp).found = FALSE
BY EmptyIs DEF Answering, Thread

LEMMA AnswerStep ==
  ASSUME TypeOK, NEW s \in Server, NEW c \in Client, Answer(s, c)
  PROVE  /\ ServerChange(s, c) /\ UNCHANGED <<status, logged_in, busy, link>>
         /\ thread[s][c].pc = "answer"
         /\ s = "game" \/ thread[s][c].found = FALSE
         /\ thread'[s][c] = Answering(
              IF s = "auth" THEN failure ELSE connected_packet(thread[s][c].found))
<1> DEFINE resp == IF s = "auth" THEN failure
                   ELSE connected_packet(thread[s][c].found)
           th == Answering(resp)
<1>1. /\ thread[s][c].pc = "answer"
      /\ UNCHANGED <<stack, status, logged_in, busy, link, clientVars, stray>>
      /\ s = "game" \/ thread[s][c].found = FALSE
  BY LinkFields DEF Answer, At
<1>2. resp \in Seq(Nat)
  BY PacketTypes DEF failure
<1>3. th \in Thread
  BY <1>2, AnsweringIs
<1>4. thread' = Put(thread, s, c, th)
  BY DEF Answer, Put, TypeOK
<1>5. busy' \subseteq Client
  BY <1>1 DEF TypeOK
<1> HIDE DEF th
<1>6. ServerChange(s, c) /\ thread'[s][c] = th
  BY <1>1, <1>3, <1>4, <1>5, ThreadMoved
<1> QED
  BY <1>1, <1>6 DEF th

LEMMA UpdateStep ==
  ASSUME TypeOK, NEW c \in Client, Update(c)
  PROVE  /\ ServerChange("auth", c) /\ UNCHANGED <<status, logged_in, link>>
         /\ thread["auth"][c].pc = "answer" /\ thread["auth"][c].found = TRUE
         /\ \/ Moved("auth", c, "answer", "update") /\ busy' = busy
            \/ /\ busy' = busy \cup {c}
               /\ thread'["auth"][c] = Answering(auth_code_packet(uniqueauthcode))
<1>1. /\ thread["auth"][c].pc = "answer" /\ thread["auth"][c].found
      /\ UNCHANGED <<stack, status, logged_in, link, clientVars, stray>>
      /\ "auth" \in Server
  BY DEF Update, At, Server
<1>2. thread["auth"][c].found = TRUE
  BY <1>1, LinkFields
<1>3. CASE MayUpdate
  <2>1. /\ thread' = [thread EXCEPT !["auth"][c].pc = "update"] /\ busy' = busy
        /\ "update" \in Pc /\ busy' \subseteq Client
    BY <1>3 DEF Update, Pc, TypeOK
  <2>2. ServerChange("auth", c) /\ Moved("auth", c, thread["auth"][c].pc, "update")
    BY <1>1, <2>1, MovedStep
  <2> QED
    BY <1>1, <1>2, <2>1, <2>2
<1>4. CASE ~MayUpdate
  <2> DEFINE th == Answering(auth_code_packet(uniqueauthcode))
  <2>1. uniqueauthcode \in Seq(Nat)
    BY DEF uniqueauthcode
  <2>2. th \in Thread
    BY <2>1, PacketTypes, AnsweringIs
  <2>3. busy' = busy \cup {c} /\ busy' \subseteq Client
    BY <1>4 DEF Update, TypeOK
  <2>4. thread' = Put(thread, "auth", c, th)
    BY <1>4 DEF Update, Put
  <2> HIDE DEF th
  <2>5. ServerChange("auth", c) /\ thread'["auth"][c] = th
    BY <1>1, <2>2, <2>3, <2>4, ThreadMoved
  <2> QED
    BY <1>1, <1>2, <2>3, <2>5 DEF th
<1> QED
  BY <1>3, <1>4

LEMMA CommitStep ==
  ASSUME TypeOK, NEW c \in Client, Commit(c)
  PROVE  /\ ServerChange("auth", c) /\ UNCHANGED <<status, busy, link>>
         /\ thread["auth"][c].pc = "update"
         /\ thread'["auth"][c] = Answering(auth_code_packet(uniqueauthcode))
         /\ \A r \in auth_login :
              logged_in'[r] = IF /\ r.username = thread["auth"][c].header.str["username"]
                                 /\ r.password = thread["auth"][c].header.str["password"]
                              THEN uniqueauthcode ELSE logged_in[r]
<1> DEFINE th == Answering(auth_code_packet(uniqueauthcode))
<1>1. /\ thread["auth"][c].pc = "update" /\ "auth" \in Server
      /\ UNCHANGED <<stack, status, busy, link, clientVars, stray>>
  BY DEF Commit, At, Server
<1>2. th \in Thread
  BY PacketTypes, AnsweringIs, uniqueauthcode \in Seq(Nat) DEF uniqueauthcode
<1>3. thread' = Put(thread, "auth", c, th)
  BY DEF Commit, Put
<1>4. logged_in' = [r \in auth_login |->
        IF /\ r.username = thread["auth"][c].header.str["username"]
           /\ r.password = thread["auth"][c].header.str["password"]
        THEN uniqueauthcode ELSE logged_in[r]]
  BY DEF Commit
<1>5. logged_in' \in [auth_login -> {<< >>, uniqueauthcode}]
  BY <1>4 DEF TypeOK
<1>6. Stepped("auth", c, link["auth"][c], th)
  <2> HIDE DEF th
  <2> QED
    BY <1>1, <1>2, <1>3, <1>5, SameLink DEF Stepped, TypeOK
<1> HIDE DEF th
<1>7. ServerChange("auth", c) /\ thread'["auth"][c] = th
  BY <1>1, <1>6, ServerMoved
<1> QED
  BY <1>1, <1>4, <1>7 DEF th

LEMMA SendStep ==
  ASSUME TypeOK, NEW s \in Server, NEW c \in Client, Send(s, c)
  PROVE  /\ ServerChange(s, c) /\ UNCHANGED <<status, logged_in, busy>>
         /\ Moved(s, c, "send", "recv") /\ link'[s][c].up = link[s][c].up
         /\ \/ /\ link[s][c].state = "open" /\ link'[s][c].state = "open"
               /\ link'[s][c].down = link[s][c].down \o thread[s][c].resp
            \/ /\ link[s][c].state = "closed" /\ link'[s][c].state = "broken"
               /\ link'[s][c].down = link[s][c].down
            \/ /\ link[s][c].state = "reset" /\ link'[s][c].state = "dead"
               /\ link'[s][c].down = link[s][c].down
<1> DEFINE st == link[s][c].state
           th == With(thread[s][c], "recv", thread[s][c].header, thread[s][c].found)
<1>1. /\ thread[s][c].pc = "send"
      /\ UNCHANGED <<stack, status, logged_in, busy, clientVars, stray>>
      /\ thread' = [thread EXCEPT ![s][c].pc = "recv"]
  BY DEF Send, At
<1>2. /\ link[s][c] = [state |-> st, up |-> link[s][c].up, down |-> link[s][c].down]
      /\ link \in [Server -> [Client -> Link]]
  BY LinkFields DEF TypeOK
<1>3. /\ thread' = Put(thread, s, c, th) /\ th \in Thread /\ th.pc = "recv"
      /\ th.header = thread[s][c].header
      /\ th.found = thread[s][c].found /\ th.resp = thread[s][c].resp
  <2>1. "recv" \in Pc /\ thread[s][c].header \in Message
        /\ thread[s][c].found \in BOOLEAN
    BY LinkFields DEF Pc
  <2>2. /\ th \in Thread /\ th.pc = "recv"
        /\ th.header = thread[s][c].header
        /\ th.found = thread[s][c].found /\ th.resp = thread[s][c].resp
    BY <2>1, WithIs
  <2>3. thread' = Put(thread, s, c, th)
    BY <1>1, <2>1, OnlyPc
  <2> QED
    BY <2>2, <2>3
<1> HIDE DEF th
<1>4. ASSUME NEW l \in Link, l.down = link[s][c].down \/ Len(l.down) <= SendSize,
             link' = Put(link, s, c, l)
      PROVE  /\ ServerChange(s, c) /\ Moved(s, c, "send", "recv")
             /\ link'[s][c] = l
  <2>1. Stepped(s, c, l, th)
    BY <1>1, <1>3, <1>4 DEF Stepped, TypeOK
  <2>2. ServerChange(s, c) /\ link'[s][c] = l /\ thread'[s][c] = th
    BY <2>1, ServerMoved
  <2> QED
    BY <1>1, <1>3, <2>2 DEF Moved
<1>5. CASE st = "open"
  <2> DEFINE down == link[s][c].down \o thread[s][c].resp
             l == [state |-> st, up |-> link[s][c].up, down |-> down]
  <2>1. link[s][c].down \in Seq(Nat) /\ thread[s][c].resp \in Seq(Nat)
    BY LinkFields
  <2>2. down \in Seq(Nat) /\ Len(down) = Len(link[s][c].down) + Len(thread[s][c].resp)
    BY <2>1, ConcatProperties
  <2>3. /\ Len(link[s][c].down) + Len(thread[s][c].resp) <= SendSize
        /\ link' = [link EXCEPT ![s][c].down = @ \o thread[s][c].resp]
    BY <1>5 DEF Send
  <2>4. link' = [link EXCEPT ![s][c].down = down]
    BY <2>3, <1>2
  <2> HIDE DEF down
  <2>5. link' = Put(link, s, c, l)
    <3> DEFINE e == [link[s][c] EXCEPT !.down = down]
    <3>1. link' = [link EXCEPT ![s][c] = e]
      BY <2>4, <1>2
    <3>2. e = l
      <4> HIDE DEF st
      <4> QED
        BY <1>2
    <3> HIDE DEF e, l
    <3> QED
      BY <3>1, <3>2 DEF Put
  <2>6. l \in Link /\ l.state = st /\ l.up = link[s][c].up /\ l.down = down
    BY <2>2, LinkFields DEF Link
  <2> HIDE DEF l
  <2>7. /\ ServerChange(s, c) /\ Moved(s, c, "send", "recv") /\ link'[s][c] = l
    BY <1>4, <2>2, <2>3, <2>5, <2>6
  <2> QED
    BY <1>1, <1>5, <2>6, <2>7 DEF down
<1>6. CASE st # "open"
  <2> DEFINE new == NowDead(st)
             l == [state |-> new, up |-> link[s][c].up, down |-> link[s][c].down]
  <2>1. /\ link' = [link EXCEPT ![s][c].state = NowDead(@)]
        /\ st \in {"closed", "reset"}
    BY <1>6 DEF Send
  <2>2. \/ st = "closed" /\ new = "broken"
        \/ st = "reset" /\ new = "dead"
    BY <2>1 DEF NowDead
  <2>3. new \in LinkState
    BY <2>2 DEF LinkState
  <2>4. link' = [link EXCEPT ![s][c].state = new]
    BY <2>1, <1>2
  <2> HIDE DEF new
  <2>5. link' = Put(link, s, c, l)
    <3> DEFINE e == [link[s][c] EXCEPT !.state = new]
    <3>1. link' = [link EXCEPT ![s][c] = e]
      BY <2>4, <1>2
    <3>2. e = l
      <4> HIDE DEF st
      <4> QED
        BY <1>2
    <3> HIDE DEF e, l
    <3> QED
      BY <3>1, <3>2 DEF Put
  <2>6. /\ l \in Link /\ l.state = new /\ l.up = link[s][c].up
        /\ l.down = link[s][c].down
    BY <2>3, LinkFields DEF Link
  <2> HIDE DEF l
  <2>7. /\ ServerChange(s, c) /\ Moved(s, c, "send", "recv") /\ link'[s][c] = l
    BY <1>4, <2>5, <2>6
  <2> QED
    BY <1>1, <2>2, <2>6, <2>7
<1> QED
  BY <1>5, <1>6

LEMMA KilledStep ==
  ASSUME TypeOK, NEW s \in Server, NEW c \in Client, KilledBySigpipe(s, c)
  PROVE  /\ ServerChange(s, c) /\ UNCHANGED <<logged_in, busy, link, thread>>
         /\ Running(s) /\ thread[s][c].pc = "send"
         /\ link[s][c].state \in {"broken", "dead"}
         /\ status' = [status EXCEPT ![s] = "killed"]
<1>1. /\ UNCHANGED <<stack, thread, logged_in, busy, link, clientVars, stray>>
      /\ status' = [status EXCEPT ![s] = "killed"]
      /\ Running(s) /\ thread[s][c].pc = "send"
      /\ link[s][c].state \in {"broken", "dead"}
  BY DEF KilledBySigpipe, At
<1>2. TypeOK'
  BY <1>1 DEF TypeOK, clientVars
<1> QED
  BY <1>1, <1>2 DEF ServerChange, OthersKept, Kept, clientVars

------------------------------------------------------------------------------
(* The types, and what never goes back.                                    *)

StepOf(c) ==
  \/ \E t \in Typed : LogIn(c, t)
  \/ ClientStep(c) \/ Quit(c)
  \/ \E s \in Server : ServerStep(s, c)

Forward ==
  /\ stack' = stack /\ busy \subseteq busy' /\ stray \subseteq stray'
  /\ \A s \in Server : ~Running(s) => ~Running(s)'
  /\ \A r \in auth_login :
       logged_in[r] = uniqueauthcode => logged_in'[r] = uniqueauthcode

LEMMA NextIsAStep == Next <=> \E c \in Client : StepOf(c)
BY DEF Next, StepOf

LEMMA StatusForward ==
  ASSUME TypeOK, UNCHANGED <<stack, logged_in>>, busy \subseteq busy',
         stray \subseteq stray',
         status' = status \/ \E s \in Server : status' = [status EXCEPT ![s] = "killed"]
  PROVE  Forward
<1>1. status \in [Server -> {"running", "killed"}]
  BY DEF TypeOK
<1>2. ASSUME NEW s \in Server, ~Running(s) PROVE ~Running(s)'
  BY <1>1, <1>2 DEF Running
<1> QED
  BY <1>2 DEF Forward

LEMMA ClientStepForward ==
  ASSUME TypeOK, NEW c \in Client,
         (\E t \in Typed : LogIn(c, t)) \/ ClientStep(c) \/ Quit(c)
  PROVE  TypeOK' /\ Forward /\ OthersKept(c)
<1>1. CASE \E t \in Typed : LogIn(c, t)
  BY <1>1, LogInStep, StatusForward
<1>2. ASSUME ClientChange(c) PROVE TypeOK' /\ Forward /\ OthersKept(c)
  BY <1>2, StatusForward DEF ClientChange
<1>3. CASE GetCode(c)
  BY <1>2, <1>3, GetCodeStep
<1>4. CASE NoCode(c)
  BY <1>2, <1>4, NoCodeStep
<1>5. CASE NoAnswer(c)
  BY <1>2, <1>5, NoAnswerStep
<1>6. CASE Join(c)
  BY <1>2, <1>6, JoinStep
<1>7. CASE ReadData(c)
  BY <1>2, <1>7, ReadDataStep
<1>8. CASE Quit(c)
  BY <1>2, <1>8, QuitStep
<1>9. CASE ReadNothing(c)
  BY <1>2, <1>9, ReadNothingStep
<1> QED
  BY <1>1, <1>3, <1>4, <1>5, <1>6, <1>7, <1>8, <1>9 DEF ClientStep

LEMMA ServerStepForward ==
  ASSUME TypeOK, NEW c \in Client, NEW s \in Server, ServerStep(s, c)
  PROVE  TypeOK' /\ Forward /\ OthersKept(c)
<1>1. ASSUME NEW r \in Server, ServerChange(r, c), UNCHANGED logged_in,
             busy \subseteq busy',
             status' = status \/ status' = [status EXCEPT ![r] = "killed"]
      PROVE  TypeOK' /\ Forward /\ OthersKept(c)
  BY <1>1, StatusForward DEF ServerChange
<1>2. CASE Accept(s, c)
  BY <1>1, <1>2, AcceptStep
<1>3. CASE Recv(s, c)
  <2>1. ServerChange(s, c) /\ UNCHANGED <<status, logged_in, busy>>
    BY <1>3, RecvStep
  <2> QED
    BY <2>1, <1>1
<1>4. CASE RecvFails(s, c)
  <2>1. ServerChange(s, c) /\ UNCHANGED <<status, logged_in, busy>>
    BY <1>4, RecvFailsStep
  <2> QED
    BY <2>1, <1>1
<1>5. CASE Select(s, c)
  <2>1. ServerChange(s, c) /\ UNCHANGED <<status, logged_in>> /\ busy \subseteq busy'
    BY <1>5, SelectStep
  <2> QED
    BY <2>1, <1>1
<1>6. CASE Finalize(s, c)
  BY <1>1, <1>6, FinalizeStep
<1>7. CASE Answer(s, c)
  <2>1. ServerChange(s, c) /\ UNCHANGED <<status, logged_in, busy>>
    BY <1>7, AnswerStep
  <2> QED
    BY <2>1, <1>1
<1>8. CASE s = "auth" /\ Update(c)
  <2>1. ServerChange("auth", c) /\ UNCHANGED <<status, logged_in>> /\ busy \subseteq busy'
    BY <1>8, UpdateStep
  <2> QED
    BY <2>1, <1>1, <1>8
<1>9. CASE s = "auth" /\ Commit(c)
  <2>1. ServerChange("auth", c) /\ UNCHANGED <<status, busy>>
    BY <1>9, CommitStep
  <2>2. \A r \in auth_login :
          logged_in[r] = uniqueauthcode => logged_in'[r] = uniqueauthcode
    BY <1>9, CommitStep
  <2>3. \A r \in Server : ~Running(r) => ~Running(r)'
    BY <2>1 DEF Running
  <2> QED
    BY <2>1, <2>2, <2>3 DEF Forward, ServerChange
<1>10. CASE Send(s, c)
  <2>1. ServerChange(s, c) /\ UNCHANGED <<status, logged_in, busy>>
    BY <1>10, SendStep
  <2> QED
    BY <2>1, <1>1
<1>11. CASE KilledBySigpipe(s, c)
  BY <1>1, <1>11, KilledStep
<1> QED
  BY <1>2, <1>3, <1>4, <1>5, <1>6, <1>7, <1>8, <1>9, <1>10, <1>11 DEF ServerStep

LEMMA StepForward ==
  ASSUME TypeOK, NEW c \in Client, StepOf(c)
  PROVE  TypeOK' /\ Forward /\ OthersKept(c)
BY ClientStepForward, ServerStepForward DEF StepOf

LEMMA StartIs ==
  ASSUME Init
  PROVE  /\ TypeOK
         /\ \A c \in Client :
              /\ phase[c] = "login" /\ typed[c] = NoOne /\ code[c] = << >>
              /\ \A s \in Server :
                   /\ link[s][c].state = "none"
                   /\ link[s][c].up = << >> /\ link[s][c].down = << >>
                   /\ thread[s][c].pc = "none" /\ thread[s][c].resp = << >>
         /\ \A s \in Server : Running(s)
<1> DEFINE l == [state |-> "none", up |-> << >>, down |-> << >>]
           th == [pc |-> "none", zeroed |-> FALSE, header |-> Empty, found |-> FALSE,
                  resp |-> << >>]
<1>1. << >> \in Seq(Nat) /\ Len(<< >>) = 0
  OBVIOUS
<1>2. l \in Link /\ l.state = "none" /\ l.up = << >> /\ l.down = << >>
  BY <1>1 DEF Link, LinkState
<1>3. th \in Thread /\ th.pc = "none" /\ th.resp = << >>
  BY <1>1, EmptyIs DEF Thread
<1>4. /\ link = [s \in Server |-> [c \in Client |-> l]]
      /\ thread = [s \in Server |-> [c \in Client |-> th]]
  BY DEF Init
<1> HIDE DEF l, th
<1>5. /\ link \in [Server -> [Client -> Link]]
      /\ thread \in [Server -> [Client -> Thread]]
      /\ \A s \in Server, c \in Client : link[s][c] = l /\ thread[s][c] = th
  BY <1>2, <1>3, <1>4
<1>6. /\ stack \in Stack /\ busy \subseteq Client /\ stray \subseteq Client
      /\ status \in [Server -> {"running", "killed"}]
      /\ logged_in \in [auth_login -> {<< >>, uniqueauthcode}]
      /\ \A s \in Server : Running(s)
  BY DEF Init, Running
<1>7. /\ phase \in [Client -> Phase] /\ typed \in [Client -> Typed \cup {NoOne}]
      /\ code \in [Client -> Seq(Nat)]
      /\ \A c \in Client :
           phase[c] = "login" /\ typed[c] = NoOne /\ code[c] = << >>
  BY <1>1 DEF Init, Phase
<1>8. \A s \in Server, c \in Client : Len(link[s][c].down) <= SendSize
  BY <1>1, <1>2, <1>5, LoginAssumption
<1>9. TypeOK
  BY <1>5, <1>6, <1>7, <1>8 DEF TypeOK, Phase
<1> QED
  BY <1>2, <1>3, <1>5, <1>6, <1>7, <1>9

LEMMA KeptWhenNothingChanges ==
  ASSUME UNCHANGED vars
  PROVE  /\ UNCHANGED <<stack, status, thread, logged_in, busy, link,
                        phase, typed, code, stray>>
BY DEF vars, serverVars, clientVars

LEMMA LoginTypes == TypeOK /\ [Next]_vars => TypeOK'
<1> SUFFICES ASSUME TypeOK, [Next]_vars PROVE TypeOK'
  OBVIOUS
<1>1. CASE Next
  BY <1>1, NextIsAStep, StepForward
<1>2. CASE UNCHANGED vars
  BY <1>2, KeptWhenNothingChanges DEF TypeOK
<1> QED
  BY <1>1, <1>2

(***************************************************************************)
(* What the clients and the servers of protobufTest send, keep and parse   *)
(* has its type, and a connection never holds more than it can.            *)
(***************************************************************************)
THEOREM LoginTypeCorrect == Spec => []TypeOK
BY StartIs, LoginTypes, PTL DEF Spec

------------------------------------------------------------------------------
(* Who kills a server.                                                     *)

\* A connection that was never opened, and when it cannot have been.
Fresh(c) ==
  /\ \A s \in Server :
       link[s][c].state = "none" =>
         /\ link[s][c].up = << >> /\ link[s][c].down = << >>
         /\ thread[s][c].pc = "none"
  /\ phase[c] = "login" => \A s \in Server : link[s][c].state = "none"
  /\ phase[c] \in {"auth", "code"} => link["game"][c].state = "none"
  /\ phase[c] \in {"login", "auth"} => code[c] = << >>

\* A thread that waits for data has taken what was sent, and after its send()
\* to a closed connection finds nothing any more.
ReadOnce(s, c) ==
  stack.server_n = "none" =>
    /\ thread[s][c].pc \notin {"none", "recv"} => link[s][c].up = << >>
    /\ link[s][c].state = "broken" =>
         thread[s][c].pc = "recv" /\ link[s][c].up = << >>

LEMMA FreshReceded ==
  ASSUME TypeOK, NEW c \in Client, Fresh(c), ClientReceded(link', c),
         thread' = thread
  PROVE  /\ \A s \in Server :
              link'[s][c].state = "none" =>
                /\ link'[s][c].up = << >> /\ link'[s][c].down = << >>
                /\ thread'[s][c].pc = "none"
         /\ \A s \in Server :
              link[s][c].state = "none" => link'[s][c].state = "none"
         /\ \A s \in Server :
              link[s][c].state = "dead" => link'[s][c].state = "dead"
         /\ \A s \in Server : ReadOnce(s, c) /\ stack' = stack => ReadOnce(s, c)'
<1>1. ASSUME NEW s \in Server
      PROVE  /\ link'[s][c].state = "none" =>
                /\ link'[s][c].up = << >> /\ link'[s][c].down = << >>
                /\ thread'[s][c].pc = "none"
             /\ link[s][c].state = "none" => link'[s][c].state = "none"
             /\ link[s][c].state = "dead" => link'[s][c].state = "dead"
             /\ ReadOnce(s, c) /\ stack' = stack => ReadOnce(s, c)'
  <2>1. Receded(link'[s][c], link[s][c])
    BY DEF ClientReceded
  <2> QED
    BY <2>1 DEF Receded, Fresh, ReadOnce
<1> QED
  BY <1>1

LEMMA FreshClientStep ==
  ASSUME TypeOK, NEW c \in Client, Fresh(c),
         (\E t \in Typed : LogIn(c, t)) \/ ClientStep(c) \/ Quit(c)
  PROVE  /\ Fresh(c)'
         /\ \A s \in Server :
              link[s][c].state = "dead" => link'[s][c].state = "dead"
         /\ \A s \in Server : ReadOnce(s, c) => ReadOnce(s, c)'
<1>0. "game" \in Server /\ "auth" \in Server /\ Server = {"auth", "game"}
  BY DEF Server
<1>1. ASSUME NEW t \in Typed, LogIn(c, t)
      PROVE  /\ Fresh(c)'
             /\ \A s \in Server :
                  link[s][c].state = "dead" => link'[s][c].state = "dead"
             /\ \A s \in Server : ReadOnce(s, c) => ReadOnce(s, c)'
  <2> DEFINE up == login_packet(t.username, t.password, 1)
  <2>0. t.username \in Seq(Nat) /\ t.password \in Seq(Nat)
    BY LoginAssumption
  <2>1. up \in Seq(Nat)
    BY <2>0, PacketTypes
  <2> HIDE DEF up
  <2>2. /\ UNCHANGED <<stack, status, thread, logged_in, busy, code>>
        /\ phase[c] = "login" /\ link'["game"][c] = link["game"][c]
        /\ \/ phase'[c] = "auth" /\ link'["auth"][c] = Opened(up)
           \/ phase'[c] = "no server" /\ link' = link
    BY <1>1, LogInStep DEF up
  <2>3. Opened(up).state = "open"
    BY <2>1, OpenedIs
  <2> QED
    BY <1>0, <2>2, <2>3 DEF Fresh, ReadOnce
<1>2. ASSUME ClientChange(c), ClientReceded(link', c),
             phase'[c] \notin {"login", "auth"},
             phase'[c] = "code" => phase[c] \in {"auth", "code"}
      PROVE  /\ Fresh(c)'
             /\ \A s \in Server :
                  link[s][c].state = "dead" => link'[s][c].state = "dead"
             /\ \A s \in Server : ReadOnce(s, c) => ReadOnce(s, c)'
  <2>1. thread' = thread /\ stack' = stack
    BY <1>2 DEF ClientChange
  <2> QED
    BY <1>0, <1>2, <2>1, FreshReceded DEF Fresh
<1>3. CASE GetCode(c)
  <2>1. /\ ClientChange(c) /\ ClientReceded(link', c) /\ phase[c] = "auth"
        /\ phase'[c] \in {"code", "failed"}
    BY <1>3, GetCodeStep
  <2> QED
    BY <1>2, <2>1
<1>4. CASE NoCode(c)
  <2>1. /\ ClientChange(c) /\ ClientReceded(link', c) /\ phase[c] = "auth"
        /\ phase'[c] = "code"
    BY <1>4, NoCodeStep, SameReceded DEF ClientReceded
  <2> QED
    BY <1>2, <2>1
<1>5. CASE NoAnswer(c)
  BY <1>2, <1>5, NoAnswerStep
<1>6. CASE Join(c)
  <2> DEFINE up == auth_code_packet(code[c])
  <2>1. up \in Seq(Nat)
    BY PacketTypes DEF TypeOK
  <2> HIDE DEF up
  <2>2. /\ ClientChange(c) /\ phase[c] = "code"
        /\ \/ /\ phase'[c] = "game" /\ link'["auth"][c] = link["auth"][c]
              /\ link'["game"][c] = Opened(up)
           \/ phase'[c] = "no server" /\ ClientReceded(link', c)
    BY <1>6, JoinStep DEF up
  <2>3. CASE phase'[c] = "game" /\ link'["auth"][c] = link["auth"][c]
             /\ link'["game"][c] = Opened(up)
    <3>1. Opened(up).state = "open"
      BY <2>1, OpenedIs
    <3>2. thread' = thread /\ stack' = stack
      BY <2>2 DEF ClientChange
    <3> QED
      BY <1>0, <2>2, <2>3, <3>1, <3>2 DEF Fresh, ReadOnce
  <2> QED
    BY <1>2, <2>2, <2>3
<1>7. CASE ReadData(c)
  BY <1>2, <1>7, ReadDataStep
<1>8. CASE Quit(c)
  BY <1>2, <1>8, QuitStep
<1>9. CASE ReadNothing(c)
  BY <1>2, <1>9, ReadNothingStep
<1> QED
  BY <1>1, <1>3, <1>4, <1>5, <1>6, <1>7, <1>8, <1>9 DEF ClientStep

LEMMA FreshServerStep ==
  ASSUME TypeOK, NEW c \in Client, Fresh(c),
         NEW s \in Server, ServerStep(s, c), \A r \in Server : ReadOnce(r, c)
  PROVE  /\ Fresh(c)'
         /\ \A r \in Server :
              link[r][c].state = "dead" => link'[r][c].state = "dead"
         /\ \A r \in Server : ReadOnce(r, c)'
         /\ \A r \in Server : Running(r) /\ ~Running(r)' =>
              /\ r = s /\ link[s][c].state \in {"broken", "dead"}
              /\ thread[s][c].pc = "send"
<1> DEFINE Goal ==
      /\ Fresh(c)'
      /\ \A r \in Server :
           link[r][c].state = "dead" => link'[r][c].state = "dead"
      /\ \A r \in Server : ReadOnce(r, c)'
<1>1. ASSUME NEW r \in Server, ServerChange(r, c), thread[r][c].pc # "none",
             link[r][c].state # "none", link'[r][c].state # "none",
             link[r][c].state = "dead" => link'[r][c].state = "dead",
             ReadOnce(r, c)'
      PROVE  Goal
  <2>1. /\ UNCHANGED <<stack, phase, typed, code>>
        /\ \A q \in Server \ {r} :
             link'[q][c] = link[q][c] /\ thread'[q][c] = thread[q][c]
    BY <1>1 DEF ServerChange
  <2>2. ASSUME NEW q \in Server, q # r
        PROVE  /\ link'[q][c] = link[q][c] /\ thread'[q][c] = thread[q][c]
               /\ ReadOnce(q, c)'
    <3>1. link'[q][c] = link[q][c] /\ thread'[q][c] = thread[q][c]
      BY <2>1, <2>2
    <3> QED
      BY <2>1, <3>1 DEF ReadOnce
  <2>3. ASSUME NEW q \in Server
        PROVE  /\ link'[q][c].state = "none" =>
                    /\ link'[q][c].up = << >> /\ link'[q][c].down = << >>
                    /\ thread'[q][c].pc = "none"
               /\ link[q][c].state = "none" => link'[q][c].state = "none"
    BY <1>1, <2>2 DEF Fresh
  <2>4. phase'[c] = phase[c] /\ code'[c] = code[c]
    BY <2>1
  <2>5. Fresh(c)'
    BY <2>3, <2>4 DEF Fresh, Server
  <2> QED
    BY <1>1, <2>2, <2>5
<1>2. ASSUME NEW r \in Server, ServerChange(r, c), UNCHANGED link,
             thread[r][c].pc # "none", thread'[r][c].pc # "none",
             \/ thread[r][c].pc \in {"recv", "send"} /\ thread'[r][c].pc = "recv"
             \/ thread[r][c].pc \notin {"none", "recv"}
      PROVE  Goal
  <2>1. link[r][c].state # "none" /\ ReadOnce(r, c)
    BY <1>2 DEF Fresh
  <2>2. ReadOnce(r, c)' /\ link'[r][c].state = link[r][c].state
    BY <1>2, <2>1 DEF ReadOnce, ServerChange
  <2> QED
    BY <1>1, <1>2, <2>1, <2>2
<1> HIDE DEF Goal
<1>3. ASSUME Accept(s, c) PROVE Goal
  <2>1. /\ ServerChange(s, c) /\ UNCHANGED <<status, logged_in, busy, link>>
        /\ Moved(s, c, "none", "recv") /\ link[s][c].state # "none"
    BY <1>3, AcceptStep
  <2>2. /\ UNCHANGED <<stack, phase, typed, code>>
        /\ \A q \in Server \ {s} :
             link'[q][c] = link[q][c] /\ thread'[q][c] = thread[q][c]
    BY <2>1 DEF ServerChange
  <2>3. ASSUME NEW q \in Server
        PROVE  /\ link'[q][c] = link[q][c] /\ ReadOnce(q, c)'
               /\ link[q][c].state = "none" => thread'[q][c] = thread[q][c]
    <3>1. ReadOnce(q, c) /\ link'[q][c] = link[q][c]
      BY <2>1
    <3>2. CASE q = s
      BY <2>1, <2>2, <3>1, <3>2 DEF ReadOnce, Moved
    <3>3. CASE q # s
      <4>1. thread'[q][c] = thread[q][c]
        BY <2>2, <3>3
      <4> QED
        BY <2>2, <3>1, <4>1 DEF ReadOnce
    <3> QED
      BY <2>1, <3>1, <3>2, <3>3, <2>2
  <2>4. ASSUME NEW q \in Server
        PROVE  /\ link'[q][c].state = "none" =>
                    /\ link'[q][c].up = << >> /\ link'[q][c].down = << >>
                    /\ thread'[q][c].pc = "none"
               /\ link[q][c].state = "none" => link'[q][c].state = "none"
    BY <2>3 DEF Fresh
  <2>5. phase'[c] = phase[c] /\ code'[c] = code[c]
    BY <2>2
  <2>6. Fresh(c)'
    BY <2>4, <2>5 DEF Fresh, Server
  <2> QED
    BY <2>3, <2>6 DEF Goal
<1>4. ASSUME Recv(s, c) PROVE Goal
  <2>1. /\ ServerChange(s, c) /\ thread[s][c].pc = "recv"
        /\ link'[s][c].state = link[s][c].state /\ link[s][c].up # << >>
        /\ stack.server_n # "peek" => link'[s][c].up = << >>
    BY <1>4, RecvStep
  <2>2. ReadOnce(s, c)'
    BY <2>1 DEF ReadOnce, ServerChange
  <2>3. link[s][c].state # "none"
    BY <2>1 DEF Fresh
  <2> QED
    BY <1>1, <2>1, <2>2, <2>3
<1>5. ASSUME RecvFails(s, c) PROVE Goal
  <2>1. /\ ServerChange(s, c) /\ thread[s][c].pc = "recv"
        /\ link'[s][c].up = << >>
        /\ \/ link[s][c].state = "open" /\ link'[s][c].state = "open"
           \/ link[s][c].state = "reset" /\ link'[s][c].state = "dead"
    BY <1>5, RecvFailsStep
  <2>2. ReadOnce(s, c)'
    BY <2>1 DEF ReadOnce
  <2> QED
    BY <1>1, <2>1, <2>2
<1>6. ASSUME Select(s, c) PROVE Goal
  <2>1. /\ ServerChange(s, c) /\ UNCHANGED link /\ thread[s][c].pc = "check"
        /\ thread'[s][c].pc \in {"select", "answer"}
    BY <1>6, SelectStep
  <2> QED
    BY <1>2, <2>1
<1>7. ASSUME Finalize(s, c) PROVE Goal
  BY <1>2, <1>7, FinalizeStep DEF Moved
<1>8. ASSUME Answer(s, c) PROVE Goal
  <2> DEFINE resp == IF s = "auth" THEN failure
                     ELSE connected_packet(thread[s][c].found)
  <2>1. /\ ServerChange(s, c) /\ UNCHANGED link /\ thread[s][c].pc = "answer"
        /\ thread'[s][c] = Answering(resp)
    BY <1>8, AnswerStep
  <2>2. thread'[s][c].pc = "send"
    BY <2>1 DEF Answering
  <2> QED
    BY <1>2, <2>1, <2>2
<1>9. ASSUME s = "auth", Update(c) PROVE Goal
  <2>1. /\ ServerChange(s, c) /\ UNCHANGED link /\ thread[s][c].pc = "answer"
        /\ \/ Moved(s, c, "answer", "update")
           \/ thread'[s][c] = Answering(auth_code_packet(uniqueauthcode))
    BY <1>9, UpdateStep
  <2>2. thread'[s][c].pc # "none"
    BY <2>1 DEF Answering, Moved
  <2> QED
    BY <1>2, <2>1, <2>2
<1>10. ASSUME s = "auth", Commit(c) PROVE Goal
  <2>1. /\ ServerChange(s, c) /\ UNCHANGED link /\ thread[s][c].pc = "update"
        /\ thread'[s][c] = Answering(auth_code_packet(uniqueauthcode))
    BY <1>10, CommitStep
  <2>2. thread'[s][c].pc # "none"
    BY <2>1 DEF Answering
  <2> QED
    BY <1>2, <2>1, <2>2
<1>11. ASSUME Send(s, c) PROVE Goal
  <2>1. /\ ServerChange(s, c) /\ Moved(s, c, "send", "recv")
        /\ link'[s][c].up = link[s][c].up
        /\ \/ link[s][c].state = "open" /\ link'[s][c].state = "open"
           \/ link[s][c].state = "closed" /\ link'[s][c].state = "broken"
           \/ link[s][c].state = "reset" /\ link'[s][c].state = "dead"
    BY <1>11, SendStep
  <2>2. ReadOnce(s, c)'
    BY <2>1 DEF ReadOnce, Moved, ServerChange
  <2> QED
    BY <1>1, <2>1, <2>2 DEF Moved
<1>12. ASSUME KilledBySigpipe(s, c) PROVE Goal
  <2>1. ServerChange(s, c) /\ UNCHANGED <<link, thread>> /\ thread[s][c].pc = "send"
    BY <1>12, KilledStep
  <2> QED
    BY <1>2, <2>1
<1>13. Goal
  BY <1>3, <1>4, <1>5, <1>6, <1>7, <1>8, <1>9, <1>10, <1>11, <1>12 DEF ServerStep
<1>14. ASSUME NEW r \in Server, Running(r), ~Running(r)'
       PROVE  /\ r = s /\ link[s][c].state \in {"broken", "dead"}
              /\ thread[s][c].pc = "send"
  <2>1. CASE KilledBySigpipe(s, c)
    <3>1. /\ status' = [status EXCEPT ![s] = "killed"] /\ thread[s][c].pc = "send"
          /\ link[s][c].state \in {"broken", "dead"}
      BY <2>1, KilledStep
    <3> QED
      BY <1>14, <3>1 DEF Running, TypeOK
  <2>2. CASE ~KilledBySigpipe(s, c)
    <3>1. status' = status
      BY <2>2 DEF ServerStep, Accept, Recv, RecvFails, Select, Finalize, Answer,
                  Update, Commit, Send
    <3> QED
      BY <1>14, <3>1 DEF Running
  <2> QED
    BY <2>1, <2>2
<1> QED
  BY <1>13, <1>14 DEF Goal

FreshInv ==
  /\ TypeOK
  /\ \A c \in Client : Fresh(c) /\ \A s \in Server : ReadOnce(s, c)

LEMMA FreshStays ==
  ASSUME FreshInv, NEW c \in Client, StepOf(c)
  PROVE  /\ FreshInv'
         /\ \A s \in Server, d \in Client :
              link[s][d].state = "dead" => link'[s][d].state = "dead"
         /\ \A s \in Server : Running(s) /\ ~Running(s)' =>
              link[s][c].state \in {"broken", "dead"} /\ thread[s][c].pc = "send"
<1>1. TypeOK /\ Fresh(c) /\ \A s \in Server : ReadOnce(s, c)
  BY DEF FreshInv
<1>2. TypeOK' /\ Forward /\ OthersKept(c)
  BY <1>1, StepForward
<1>3. /\ Fresh(c)' /\ \A s \in Server : ReadOnce(s, c)'
      /\ \A s \in Server :
           link[s][c].state = "dead" => link'[s][c].state = "dead"
      /\ \A s \in Server : Running(s) /\ ~Running(s)' =>
           link[s][c].state \in {"broken", "dead"} /\ thread[s][c].pc = "send"
  <2>1. CASE (\E t \in Typed : LogIn(c, t)) \/ ClientStep(c) \/ Quit(c)
    <3>1. status' = status
      BY <2>1 DEF LogIn, ClientStep, GetCode, NoCode, NoAnswer, Join, ReadData,
                  ReadNothing, Quit, serverVars
    <3> QED
      BY <1>1, <2>1, <3>1, FreshClientStep DEF Running
  <2>2. CASE \E s \in Server : ServerStep(s, c)
    BY <1>1, <2>2, FreshServerStep
  <2> QED
    BY <2>1, <2>2 DEF StepOf
<1>4. ASSUME NEW d \in Client, d # c
      PROVE  /\ Fresh(d)' /\ \A s \in Server : ReadOnce(s, d)'
             /\ \A s \in Server : link'[s][d] = link[s][d]
  <2>1. Kept(d) /\ stack' = stack
    BY <1>2, <1>4 DEF OthersKept, Forward
  <2>2. /\ \A s \in Server :
             link'[s][d] = link[s][d] /\ thread'[s][d] = thread[s][d]
        /\ phase'[d] = phase[d] /\ code'[d] = code[d]
    BY <2>1 DEF Kept
  <2>3. Fresh(d) /\ \A s \in Server : ReadOnce(s, d)
    BY DEF FreshInv
  <2>4. Fresh(d)'
    BY <2>2, <2>3 DEF Fresh, Server
  <2>5. \A s \in Server : ReadOnce(s, d)'
    BY <2>1, <2>2, <2>3 DEF ReadOnce
  <2> QED
    BY <2>2, <2>4, <2>5
<1>5. FreshInv'
  BY <1>2, <1>3, <1>4 DEF FreshInv
<1> QED
  BY <1>3, <1>4, <1>5

LEMMA FreshStarts == Init => FreshInv
BY StartIs DEF FreshInv, Fresh, ReadOnce

LEMMA KilledStays ==
  FreshInv /\ KilledByAReset /\ [Next]_vars => FreshInv' /\ KilledByAReset'
<1> SUFFICES ASSUME FreshInv, KilledByAReset, [Next]_vars
             PROVE  FreshInv' /\ KilledByAReset'
  OBVIOUS
<1>1. ASSUME NEW c \in Client, StepOf(c) PROVE FreshInv' /\ KilledByAReset'
  <2>1. /\ FreshInv'
        /\ \A s \in Server, d \in Client :
             link[s][d].state = "dead" => link'[s][d].state = "dead"
        /\ \A s \in Server : Running(s) /\ ~Running(s)' =>
             link[s][c].state \in {"broken", "dead"} /\ thread[s][c].pc = "send"
    BY <1>1, FreshStays
  <2>2. stack' = stack
    BY <1>1, StepForward DEF FreshInv, Forward
  <2>3. ASSUME stack.server_n = "none", NEW s \in Server, ~Running(s)'
        PROVE  \E d \in Client : link'[s][d].state = "dead"
    <3>1. CASE Running(s)
      <4>1. link[s][c].state \in {"broken", "dead"} /\ thread[s][c].pc = "send"
        BY <2>1, <2>3, <3>1
      <4>2. link[s][c].state # "broken"
        BY <2>3, <4>1 DEF FreshInv, ReadOnce
      <4> QED
        BY <2>1, <4>1, <4>2
    <3>2. CASE ~Running(s)
      BY <2>1, <2>3, <3>2 DEF KilledByAReset
    <3> QED
      BY <3>1, <3>2
  <2> QED
    BY <2>1, <2>2, <2>3 DEF KilledByAReset
<1>2. CASE UNCHANGED vars
  BY <1>2, KeptWhenNothingChanges, LoginTypes
     DEF FreshInv, Fresh, ReadOnce, KilledByAReset, Running
<1> QED
  BY <1>1, <1>2, NextIsAStep

(***************************************************************************)
(* A thread that waits for data (flags 0) is killed only by a client that  *)
(* ended with an answer unread (AuthServer.cpp:60-74): to the connection   *)
(* that a client closed, its thread sends once and then only waits.        *)
(***************************************************************************)
THEOREM KilledCorrect == Spec => []KilledByAReset
<1>1. Init => KilledByAReset
  BY StartIs DEF KilledByAReset
<1> QED
  BY <1>1, FreshStarts, KilledStays, PTL DEF Spec

------------------------------------------------------------------------------
(* Reading what was written: byte by byte, field by field.                 *)

\* The parser has read m so far, and goes on.
Reads(p, m, message, room, want, f, left) ==
  /\ p \in Parser /\ p.ok = TRUE /\ p.msg = m /\ p.message = message
  /\ p.room = room /\ p.want = want /\ p.field = f /\ p.left = left

\* What encloses the next byte, and what is left of it j bytes later.
Encloses(message, room) ==
  /\ message \in {"header", "login_packet", "connected_packet"} /\ room \in Nat
  /\ room = 0 <=> message = "header"

Around(message, room, j) == IF room > j THEN message ELSE "header"

Room(room, j) == IF room > j THEN room - j ELSE 0

LEMMA AroundIs ==
  ASSUME NEW message, NEW room, Encloses(message, room), NEW j \in Nat
  PROVE  /\ Encloses(Around(message, room, j), Room(room, j))
         /\ room = 0 \/ room > j =>
              Around(message, room, j) = message
         /\ \A i \in Nat :
              /\ Around(Around(message, room, j), Room(room, j), i) =
                   Around(message, room, j + i)
              /\ Room(Room(room, j), i) = Room(room, j + i)
BY DEF Encloses, Around, Room

LEMMA WithinReads ==
  ASSUME NEW p, NEW q, NEW m, NEW message, NEW room, Encloses(message, room),
         NEW want, NEW f, NEW left, room # 1 \/ want = "tag",
         p.message = message, p.room = room,
         Reads(q, m, message, room, want, f, left)
  PROVE  Reads(Within(p, q), m, Around(message, room, 1), Room(room, 1), want, f, left)
<1> DEFINE r == Within(p, q)
<1>1. q \in Parser /\ room \in Nat
  BY DEF Reads, Encloses
<1>2. CASE room = 0
  BY <1>2 DEF Within, Encloses, Around, Room
<1>3. CASE room > 1
  <2>1. r = [q EXCEPT !.room = q.room - 1] /\ q.room - 1 \in Nat
    BY <1>1, <1>3 DEF Within, Encloses, Reads
  <2>2. /\ r \in Parser /\ r.ok = q.ok /\ r.msg = q.msg /\ r.message = q.message
        /\ r.want = q.want /\ r.field = q.field /\ r.left = q.left
        /\ r.room = q.room - 1
    BY <2>1, <1>1 DEF Parser
  <2> HIDE DEF r
  <2> QED
    BY <2>2, <1>3 DEF Reads, Around, Room, r
<1>4. CASE room = 1
  <2> DEFINE ok == q.ok /\ q.want = "tag"
  <2>1. r = [q EXCEPT !.room = 0, !.message = "header", !.ok = ok]
    BY <1>4 DEF Within, Encloses
  <2>2. ok = TRUE
    BY <1>4 DEF Reads
  <2> HIDE DEF ok
  <2>3. r = [ok |-> ok, msg |-> q.msg, message |-> "header", room |-> 0,
             want |-> q.want, field |-> q.field, left |-> q.left]
    BY <2>1, <1>1 DEF Parser
  <2> HIDE DEF r
  <2>4. r \in Parser
    BY <2>3, <2>2, <1>1, ParserFields DEF Parser
  <2> QED
    BY <1>4, <2>2, <2>3, <2>4 DEF Reads, Around, Room, r
<1> QED
  BY <1>1, <1>2, <1>3, <1>4

WithField(m, f) == [has |-> m.has \cup {f}, str |-> m.str, num |-> m.num]

WithNumber(m, f, b) ==
  [has |-> m.has \cup {f}, str |-> m.str, num |-> [m.num EXCEPT ![f] = b]]

WithString(m, f, v) ==
  [has |-> m.has \cup {f}, str |-> [m.str EXCEPT ![f] = v], num |-> m.num]

LEMMA ReadsTag ==
  ASSUME NEW p, NEW m, NEW message, NEW room, NEW f0, NEW l0, NEW b \in Nat,
         Reads(p, m, message, room, "tag", f0, l0), Encloses(message, room),
         room # 1, NEW f \in FieldWithTag(message, b)
  PROVE  Reads(Take[p][b], IF f \in NumberField THEN m ELSE WithField(m, f),
               Around(message, room, 1), Room(room, 1),
               IF f \in NumberField THEN "value" ELSE "length", f, l0)
<1> DEFINE q == TakeTag(p, b)
           new == IF f \in NumberField THEN m ELSE WithField(m, f)
           want == IF f \in NumberField THEN "value" ELSE "length"
<1>1. /\ p \in Parser /\ p.ok /\ p.msg = m /\ p.message = message /\ p.room = room
      /\ p.want = "tag" /\ p.left = l0 /\ p.ok = TRUE /\ m \in Message
  BY ParserFields DEF Reads
<1>2. FieldWithTag(message, b) = {f} /\ f \in Field
  BY Cases DEF Encloses
<1>3. FieldWithTag(message, b) # {} /\ (CHOOSE g \in FieldWithTag(message, b) : TRUE) = f
  BY <1>2
<1>4. Take[p][b] = Within(p, q)
  BY <1>1, TakeIs
<1>5. Reads(q, new, message, room, want, f, l0)
  <2>1. CASE f \in NumberField
    <3>1. q = [p EXCEPT !.field = f, !.want = "value"]
      BY <1>1, <1>3, <2>1 DEF TakeTag
    <3> HIDE DEF q
    <3>2. /\ q \in Parser /\ q.msg = p.msg /\ q.ok = p.ok /\ q.left = p.left
          /\ q.message = p.message /\ q.room = p.room
          /\ q.field = f /\ q.want = "value"
      BY <3>1, <1>1, <1>2 DEF Parser
    <3> QED
      BY <3>2, <1>1, <2>1 DEF Reads
  <2>2. CASE f \notin NumberField
    <3>1. q = [p EXCEPT !.field = f, !.want = "length", !.msg.has = @ \cup {f}]
      BY <1>1, <1>3, <2>2 DEF TakeTag
    <3> HIDE DEF q
    <3>2. /\ q \in Parser /\ q.ok = p.ok /\ q.message = p.message /\ q.room = p.room
          /\ q.field = f /\ q.want = "length" /\ q.left = p.left
          /\ q.msg.has = p.msg.has \cup {f}
          /\ q.msg.str = p.msg.str /\ q.msg.num = p.msg.num
      BY <3>1, <1>1, <1>2 DEF Parser, Message
    <3>3. q.msg = WithField(m, f)
      BY <3>2, <1>1, ParserFields DEF WithField
    <3> QED
      BY <3>2, <3>3, <1>1, <2>2 DEF Reads
  <2> QED
    BY <2>1, <2>2
<1> HIDE DEF q, new, want
<1>6. Reads(Within(p, q), new, Around(message, room, 1), Room(room, 1), want, f, l0)
  BY <1>1, <1>5, WithinReads
<1> QED
  BY <1>4, <1>6 DEF new, want

LEMMA ReadsValue ==
  ASSUME NEW p, NEW m, NEW message, NEW room, NEW f \in NumberField, NEW l0,
         NEW b \in Nat, Reads(p, m, message, room, "value", f, l0),
         Encloses(message, room)
  PROVE  Reads(Take[p][b], WithNumber(m, f, b),
               Around(message, room, 1), Room(room, 1), "tag", f, l0)
<1> DEFINE q == TakeValue(p, b)
<1>1. /\ p \in Parser /\ p.ok /\ p.msg = m /\ p.message = message /\ p.room = room
      /\ p.want = "value" /\ p.left = l0 /\ p.ok = TRUE /\ m \in Message /\ p.field = f
  BY ParserFields DEF Reads
<1>2. Take[p][b] = Within(p, q)
  BY <1>1, TakeIs
<1>3. /\ q \in Parser /\ q.ok = p.ok /\ q.message = p.message /\ q.room = p.room
      /\ q.field = p.field /\ q.want = "tag" /\ q.left = p.left
      /\ q.msg.has = p.msg.has \cup {p.field} /\ q.msg.str = p.msg.str
      /\ q.msg.num = [p.msg.num EXCEPT ![p.field] = b]
  <2>1. p \in Parser /\ p.field \in NumberField
    BY <1>1
  <2> QED
    BY <2>1 DEF TakeValue, Parser, Message
<1> HIDE DEF q
<1>4. q.msg.has = m.has \cup {f} /\ q.msg.num = [m.num EXCEPT ![f] = b]
  BY <1>1, <1>3
<1>5. q.msg = WithNumber(m, f, b)
  <2>1. q.msg = [has |-> q.msg.has, str |-> q.msg.str, num |-> q.msg.num]
    BY <1>3, ParserFields
  <2>2. /\ q.msg.has = m.has \cup {f} /\ q.msg.str = m.str
        /\ q.msg.num = [m.num EXCEPT ![f] = b]
    BY <1>1, <1>3, <1>4
  <2> QED
    BY <2>1, <2>2 DEF WithNumber
<1>6. Reads(q, WithNumber(m, f, b), message, room, "tag", f, l0)
  BY <1>1, <1>3, <1>5 DEF Reads
<1> QED
  BY <1>1, <1>2, <1>6, WithinReads

LEMMA ReadsLength ==
  ASSUME NEW p, NEW m, NEW message, NEW room, NEW f \in StringField, NEW l0,
         NEW b \in Nat, Reads(p, m, message, room, "length", f, l0),
         Encloses(message, room), f \in m.has, room # 1 \/ b = 0
  PROVE  Reads(Take[p][b], WithString(m, f, << >>),
               Around(message, room, 1), Room(room, 1),
               IF b = 0 THEN "tag" ELSE "bytes", f, b)
<1> DEFINE q == TakeLength(p, b)
           want == IF b = 0 THEN "tag" ELSE "bytes"
<1>1. /\ p \in Parser /\ p.ok /\ p.msg = m /\ p.message = message /\ p.room = room
      /\ p.want = "length" /\ p.ok = TRUE /\ m \in Message /\ p.field = f
  BY ParserFields DEF Reads
<1>2. Take[p][b] = Within(p, q)
  BY <1>1, TakeIs
<1>3. q = [p EXCEPT !.msg.str[f] = << >>, !.left = b, !.want = want]
  BY <1>1 DEF TakeLength
<1>4. << >> \in Seq(Nat)
  OBVIOUS
<1>5. want \in {"tag", "bytes"}
  OBVIOUS
<1> HIDE DEF q, want
<1>6. /\ q \in Parser /\ q.ok = p.ok /\ q.message = p.message /\ q.room = p.room
      /\ q.field = p.field /\ q.want = want /\ q.left = b
      /\ q.msg.has = p.msg.has /\ q.msg.num = p.msg.num
      /\ q.msg.str = [p.msg.str EXCEPT ![f] = << >>]
  BY <1>1, <1>3, <1>4, <1>5, Kinds DEF Parser, Message
<1>7. q.msg = WithString(m, f, << >>)
  <2>1. q.msg = [has |-> q.msg.has, str |-> q.msg.str, num |-> q.msg.num]
    BY <1>6, ParserFields
  <2>2. /\ q.msg.has = m.has \cup {f} /\ q.msg.num = m.num
        /\ q.msg.str = [m.str EXCEPT ![f] = << >>]
    BY <1>1, <1>6
  <2> QED
    BY <2>1, <2>2 DEF WithString
<1>8. Reads(q, WithString(m, f, << >>), message, room, want, f, b)
  BY <1>1, <1>6, <1>7 DEF Reads
<1>9. room # 1 \/ want = "tag"
  BY DEF want
<1>10. Reads(Within(p, q), WithString(m, f, << >>), Around(message, room, 1),
             Room(room, 1), want, f, b)
  BY <1>1, <1>8, <1>9, WithinReads
<1> QED
  BY <1>2, <1>10 DEF want

LEMMA ReadsByte ==
  ASSUME NEW p, NEW m, NEW message, NEW room, NEW f \in StringField,
         NEW l0 \in Nat, NEW b \in Nat,
         Reads(p, m, message, room, "bytes", f, l0), l0 > 0,
         Encloses(message, room), f \in m.has, room # 1 \/ l0 = 1
  PROVE  Reads(Take[p][b], WithString(m, f, Append(m.str[f], b)),
               Around(message, room, 1), Room(room, 1),
               IF l0 = 1 THEN "tag" ELSE "bytes", f, l0 - 1)
<1> DEFINE q == TakeByte(p, b)
           want == IF l0 = 1 THEN "tag" ELSE "bytes"
           v == Append(m.str[f], b)
<1>1. /\ p \in Parser /\ p.ok /\ p.msg = m /\ p.message = message /\ p.room = room
      /\ p.want = "bytes" /\ p.ok = TRUE /\ m \in Message /\ p.field = f
      /\ p.left = l0
  BY ParserFields DEF Reads
<1>2. Take[p][b] = Within(p, q)
  BY <1>1, TakeIs
<1>3. q = [p EXCEPT !.msg.str[f] = Append(@, b), !.left = @ - 1, !.want = want]
  BY <1>1 DEF TakeByte
<1>4. v \in Seq(Nat)
  BY <1>1, MessageFields, Appended
<1>5. want \in {"tag", "bytes"} /\ l0 - 1 \in Nat
  OBVIOUS
<1> HIDE DEF q, want
<1>6. /\ q \in Parser /\ q.ok = p.ok /\ q.message = p.message /\ q.room = p.room
      /\ q.field = p.field /\ q.want = want /\ q.left = p.left - 1
      /\ q.msg.has = p.msg.has /\ q.msg.num = p.msg.num
      /\ q.msg.str = [p.msg.str EXCEPT ![f] = Append(@, b)]
  BY <1>1, <1>3, <1>4, <1>5 DEF Parser, Message
<1>7. q.msg = WithString(m, f, v)
  <2>1. q.msg = [has |-> q.msg.has, str |-> q.msg.str, num |-> q.msg.num]
    BY <1>6, ParserFields
  <2>2. m.str \in [StringField -> Seq(Nat)]
    BY <1>1, MessageFields
  <2>3. /\ q.msg.has = m.has \cup {f} /\ q.msg.num = m.num
        /\ q.msg.str = [m.str EXCEPT ![f] = v]
    BY <1>1, <1>6, <2>2
  <2> HIDE DEF v
  <2> QED
    BY <2>1, <2>3 DEF WithString
<1> HIDE DEF v
<1>8. Reads(q, WithString(m, f, v), message, room, want, f, l0 - 1)
  BY <1>1, <1>6, <1>7 DEF Reads
<1>9. room # 1 \/ want = "tag"
  BY DEF want
<1>10. Reads(Within(p, q), WithString(m, f, v), Around(message, room, 1),
             Room(room, 1), want, f, l0 - 1)
  BY <1>1, <1>8, <1>9, WithinReads
<1> QED
  BY <1>2, <1>10 DEF want, v

\* The length of a nested message.
LEMMA ReadsNested ==
  ASSUME NEW p, NEW m, NEW f \in {"login_packet", "connected_packet"}, NEW l0,
         NEW b \in Nat, Reads(p, m, "header", 0, "length", f, l0)
  PROVE  Reads(Take[p][b], m, IF b = 0 THEN "header" ELSE f, b, "tag", f, l0)
<1> DEFINE q == TakeLength(p, b)
           message == IF b = 0 THEN "header" ELSE f
<1>1. /\ p \in Parser /\ p.ok /\ p.msg = m /\ p.message = "header" /\ p.room = 0
      /\ p.want = "length" /\ p.ok = TRUE /\ p.field = f /\ p.left = l0
  BY DEF Reads
<1>2. Take[p][b] = Within(p, q)
  BY <1>1, TakeIs
<1>3. Within(p, q) = q
  BY <1>1 DEF Within
<1>4. q = [p EXCEPT !.want = "tag", !.room = b, !.message = message]
  BY <1>1, Kinds DEF TakeLength
<1>5. message \in {"header", "login_packet", "connected_packet"}
  OBVIOUS
<1> HIDE DEF q, message
<1>6. /\ q \in Parser /\ q.ok = p.ok /\ q.msg = p.msg /\ q.message = message
      /\ q.room = b /\ q.want = "tag" /\ q.field = p.field /\ q.left = p.left
  BY <1>1, <1>4, <1>5 DEF Parser
<1>7. Reads(q, m, message, b, "tag", f, l0)
  BY <1>1, <1>6 DEF Reads
<1> QED
  BY <1>2, <1>3, <1>7 DEF message

LEMMA WithStringIs ==
  ASSUME NEW m \in Message, NEW f \in StringField, NEW v \in Seq(Nat)
  PROVE  /\ WithString(m, f, v) \in Message
         /\ WithString(m, f, v).has = m.has \cup {f}
         /\ WithString(m, f, v).num = m.num
         /\ WithString(m, f, v).str[f] = v
         /\ \A g \in StringField \ {f} : WithString(m, f, v).str[g] = m.str[g]
         /\ WithString(WithField(m, f), f, v) = WithString(m, f, v)
         /\ f \in m.has /\ m.str[f] = v => WithString(m, f, v) = m
<1>1. /\ m.has \subseteq Field /\ m.str \in [StringField -> Seq(Nat)]
      /\ m.num \in [NumberField -> Nat] /\ f \in Field
      /\ m = [has |-> m.has, str |-> m.str, num |-> m.num]
  BY MessageFields, Kinds
<1> DEFINE n == WithString(m, f, v)
           s == [m.str EXCEPT ![f] = v]
<1>2. s \in [StringField -> Seq(Nat)] /\ s[f] = v /\ \A g \in StringField \ {f} : s[g] = m.str[g]
  BY <1>1
<1>3. n = [has |-> m.has \cup {f}, str |-> s, num |-> m.num]
  BY DEF WithString
<1>5. m.has \cup {f} \cup {f} = m.has \cup {f}
  OBVIOUS
<1>6. m.str[f] = v => s = m.str
  BY <1>1
<1> HIDE DEF s
<1>7. n \in Message
  BY <1>1, <1>2, <1>3 DEF Message
<1>9. f \in m.has => m.has \cup {f} = m.has
  OBVIOUS
<1>10. f \in m.has /\ m.str[f] = v => n = m
  BY <1>1, <1>3, <1>6, <1>9
<1>11. WithString(WithField(m, f), f, v) = n
  BY <1>5 DEF WithString, WithField
<1> HIDE DEF n
<1>12. n.has = m.has \cup {f} /\ n.num = m.num /\ n.str = s
  BY <1>3
<1> QED
  BY <1>2, <1>7, <1>10, <1>11, <1>12 DEF n

LEMMA WithStringTwice ==
  ASSUME NEW m \in Message, NEW f \in StringField, NEW v \in Seq(Nat),
         NEW w \in Seq(Nat)
  PROVE  WithString(WithString(m, f, v), f, w) = WithString(m, f, w)
<1>1. m.str \in [StringField -> Seq(Nat)]
  BY MessageFields
<1>2. [[m.str EXCEPT ![f] = v] EXCEPT ![f] = w] = [m.str EXCEPT ![f] = w]
  BY <1>1
<1>3. m.has \cup {f} \cup {f} = m.has \cup {f}
  OBVIOUS
<1> QED
  BY <1>2, <1>3 DEF WithString

LEMMA TakeFew ==
  ASSUME NEW p, NEW b \in Nat, NEW n \in Nat
  PROVE  /\ TakeAll(p, <<b>>) = Take[p][b]
         /\ TakeAll(p, <<b, n>>) = Take[Take[p][b]][n]
<1> DEFINE e == << >>
<1>1. e \in Seq(Nat) /\ <<b>> \in Seq(Nat) /\ TakeAll(p, e) = p
  BY TakeAllNothing
<1>2. <<b>> = Append(e, b) /\ <<b, n>> = Append(<<b>>, n)
  OBVIOUS
<1> HIDE DEF e
<1>3. TakeAll(p, <<b>>) = Take[p][b]
  <2>1. TakeAll(p, Append(e, b)) = Take[TakeAll(p, e)][b]
    BY <1>1, TakeAllAppend
  <2> QED
    BY Zenon, <1>1, <1>2, <2>1
<1>4. TakeAll(p, Append(<<b>>, n)) = Take[TakeAll(p, <<b>>)][n]
  BY <1>1, TakeAllAppend
<1> QED
  BY <1>2, <1>3, <1>4

ReadsBehind(p, m, message, room, f, n, w) ==
  Reads(TakeAll(p, w), WithString(m, f, w), Around(message, room, Len(w)),
        Room(room, Len(w)), IF Len(w) = n THEN "tag" ELSE "bytes", f, n - Len(w))

LEMMA ReadsBytes ==
  ASSUME NEW p, NEW m \in Message, NEW message, NEW room, NEW f \in StringField,
         NEW n \in Nat, n > 0, Reads(p, m, message, room, "bytes", f, n),
         Encloses(message, room), f \in m.has, m.str[f] = << >>,
         room = 0 \/ room >= n,
         NEW w \in Seq(Nat), Len(w) <= n
  PROVE  ReadsBehind(p, m, message, room, f, n, w)
<1> DEFINE T == {u \in Seq(Nat) :
                   Len(u) <= n => ReadsBehind(p, m, message, room, f, n, u)}
<1>0. room \in Nat
  BY DEF Encloses
<1>1. << >> \in T
  <2>1. << >> \in Seq(Nat) /\ Len(<< >>) = 0
    OBVIOUS
  <2>2. WithString(m, f, << >>) = m /\ TakeAll(p, << >>) = p
    <3> DEFINE e == << >>
    <3>1. e \in Seq(Nat) /\ m.str[f] = e /\ TakeAll(p, e) = p
      BY <2>1, TakeAllNothing
    <3> HIDE DEF e
    <3>2. WithString(m, f, e) = m
      BY <3>1, WithStringIs
    <3> QED
      BY <3>1, <3>2 DEF e
  <2>3. Around(message, room, 0) = message /\ Room(room, 0) = room
    BY DEF Around, Room, Encloses
  <2> QED
    BY <2>1, <2>2, <2>3 DEF ReadsBehind
<1>2. ASSUME NEW u \in T, NEW b \in Nat PROVE Append(u, b) \in T
  <2> DEFINE t == Append(u, b)
  <2>1. u \in Seq(Nat) /\ t \in Seq(Nat) /\ Len(t) = Len(u) + 1 /\ Len(u) \in Nat
    BY Appended
  <2>2. TakeAll(p, t) = Take[TakeAll(p, u)][b]
    BY <2>1, TakeAllAppend
  <2>3. ASSUME Len(t) <= n PROVE ReadsBehind(p, m, message, room, f, n, t)
    <3> DEFINE r == TakeAll(p, u)
               mu == WithString(m, f, u)
               k == n - Len(u)
               A == Around(message, room, Len(u))
               R == Room(room, Len(u))
    <3>1. k \in Nat /\ k > 0 /\ Len(u) # n /\ Len(u) <= n
      BY <2>1, <2>3
    <3>2. Reads(r, mu, A, R, "bytes", f, k)
      BY <2>1, <3>1 DEF ReadsBehind
    <3>3. /\ f \in mu.has /\ mu.str[f] = u
          /\ WithString(mu, f, t) = WithString(m, f, t)
      <4> HIDE DEF t
      <4> QED
        BY <2>1, WithStringIs, WithStringTwice
    <3>4. /\ Encloses(A, R) /\ Around(A, R, 1) = Around(message, room, Len(t))
          /\ Room(R, 1) = Room(room, Len(t))
      BY <2>1, AroundIs
    <3>5. R # 1 \/ k = 1
      BY <1>0, <2>1, <3>1 DEF Room
    <3> HIDE DEF r, mu, k, A, R
    <3>6. Reads(Take[r][b], WithString(mu, f, Append(mu.str[f], b)),
                Around(A, R, 1), Room(R, 1), IF k = 1 THEN "tag" ELSE "bytes",
                f, k - 1)
      BY <3>1, <3>2, <3>3, <3>4, <3>5, ReadsByte
    <3>7. k - 1 = n - Len(t) /\ (k = 1 <=> Len(t) = n)
      BY <2>1 DEF k
    <3> HIDE DEF t
    <3>8. Reads(TakeAll(p, t), WithString(m, f, t), Around(message, room, Len(t)),
                Room(room, Len(t)), IF Len(t) = n THEN "tag" ELSE "bytes",
                f, n - Len(t))
      BY <2>2, <3>3, <3>4, <3>6, <3>7 DEF r, t
    <3> QED
      BY <3>8 DEF ReadsBehind
  <2> QED
    BY <2>1, <2>3
<1> HIDE DEF T
<1>3. T = Seq(Nat)
  BY <1>1, <1>2, AllStrings, T \in SUBSET Seq(Nat) DEF T
<1> QED
  BY <1>3 DEF T

\* A string field up to k of its bytes; its tag and its length are read first.
LEMMA ReadsString ==
  ASSUME NEW p, NEW m, NEW message, NEW room, NEW f0, NEW l0, NEW tag \in Nat,
         Reads(p, m, message, room, "tag", f0, l0), Encloses(message, room),
         NEW f \in FieldWithTag(message, tag), f \in StringField,
         NEW v \in Seq(Nat), room = 0 \/ room >= 2 + Len(v)
  PROVE  /\ Reads(TakeAll(p, <<tag>>), WithField(m, f), Around(message, room, 1),
                  Room(room, 1), "length", f, l0)
         /\ \A w \in Seq(Nat) :
              Len(w) <= Len(v) =>
                Reads(TakeAll(p, <<tag, Len(v)>> \o w), WithString(m, f, w),
                      Around(message, room, 2 + Len(w)), Room(room, 2 + Len(w)),
                      IF Len(w) = Len(v) THEN "tag" ELSE "bytes",
                      f, Len(v) - Len(w))
<1> DEFINE n == Len(v)
           A1 == Around(message, room, 1)
           R1 == Room(room, 1)
           A2 == Around(message, room, 2)
           R2 == Room(room, 2)
           p1 == Take[p][tag]
           p2 == Take[p1][n]
           m1 == WithField(m, f)
           m2 == WithString(m, f, << >>)
           want == IF n = 0 THEN "tag" ELSE "bytes"
<1>1. n \in Nat /\ room \in Nat /\ m \in Message /\ f \notin NumberField
  <2>1. p \in Parser /\ p.msg = m
    BY DEF Reads
  <2>2. m \in Message
    BY <2>1, ParserFields
  <2>3. f \notin NumberField
    BY Kinds
  <2> QED
    BY <2>2, <2>3 DEF Encloses
<1>2. TakeAll(p, <<tag>>) = p1 /\ TakeAll(p, <<tag, n>>) = p2
  BY <1>1, TakeFew
<1>3. Reads(p1, m1, A1, R1, "length", f, l0)
  <2>1. room # 1
    BY <1>1
  <2> QED
    BY <1>1, <2>1, ReadsTag
<1>4. /\ Encloses(A1, R1) /\ Encloses(A2, R2)
      /\ Around(A1, R1, 1) = A2 /\ Room(R1, 1) = R2
      /\ \A j \in Nat : /\ Around(A2, R2, j) = Around(message, room, 2 + j)
                        /\ Room(R2, j) = Room(room, 2 + j)
  BY DEF Encloses, Around, Room
<1>5. R1 # 1 \/ n = 0
  BY <1>1 DEF Room
<1>6. R2 = 0 \/ R2 >= n
  BY <1>1 DEF Room
<1>7. m2 \in Message /\ f \in m2.has /\ m2.str[f] = << >>
      /\ WithString(m1, f, << >>) = m2
  <2> DEFINE e == << >>
  <2>1. e \in Seq(Nat)
    OBVIOUS
  <2> HIDE DEF e
  <2>2. WithString(m, f, e) \in Message /\ f \in WithString(m, f, e).has
        /\ WithString(m, f, e).str[f] = e
        /\ WithString(WithField(m, f), f, e) = WithString(m, f, e)
    BY <1>1, <2>1, WithStringIs
  <2> QED
    BY <2>2 DEF e
<1>8. f \in m1.has
  BY DEF WithField
<1> HIDE DEF p1, p2, m1, m2, A1, R1, A2, R2, n
<1>9. Reads(p2, m2, A2, R2, want, f, n)
  <2>1. Reads(Take[p1][n], WithString(m1, f, << >>), Around(A1, R1, 1), Room(R1, 1),
              IF n = 0 THEN "tag" ELSE "bytes", f, n)
    BY <1>1, <1>3, <1>4, <1>5, <1>8, ReadsLength
  <2> QED
    BY <2>1, <1>4, <1>7 DEF p2
<1>10. ASSUME NEW w \in Seq(Nat), Len(w) <= n
       PROVE  Reads(TakeAll(p, <<tag, n>> \o w), WithString(m, f, w),
                    Around(message, room, 2 + Len(w)), Room(room, 2 + Len(w)),
                    IF Len(w) = n THEN "tag" ELSE "bytes", f, n - Len(w))
  <2>1. <<tag, n>> \in Seq(Nat) /\ Len(w) \in Nat
    BY <1>1
  <2>2. TakeAll(p, <<tag, n>> \o w) = TakeAll(p2, w)
    BY <1>2, <2>1, TakeAllConcat
  <2>3. WithString(m2, f, w) = WithString(m, f, w)
    <3>1. << >> \in Seq(Nat)
      OBVIOUS
    <3> QED
      BY <1>1, <3>1, WithStringTwice DEF m2
  <2>4. ReadsBehind(p2, m2, A2, R2, f, n, w)
    <3>1. CASE n > 0
      <4>1. want = "bytes"
        BY <3>1
      <4> QED
        BY <1>1, <1>4, <1>6, <1>7, <1>9, <1>10, <3>1, <4>1, ReadsBytes
    <3>2. CASE n = 0
      <4>1. w = << >> /\ Len(w) = 0
        BY <1>10, <3>2
      <4>2. TakeAll(p2, << >>) = p2
        BY TakeAllNothing
      <4>3. WithString(m2, f, w) = m2
        BY <2>3, <4>1 DEF m2
      <4>4. Around(A2, R2, 0) = A2 /\ Room(R2, 0) = R2
        BY <1>4 DEF Around, Room, Encloses
      <4>5. n - 0 = 0 /\ want = "tag"
        BY <3>2
      <4> QED
        BY <3>2, <4>1, <4>2, <4>3, <4>4, <4>5, <1>9 DEF ReadsBehind
    <3> QED
      BY <1>1, <3>1, <3>2
  <2> QED
    BY <1>4, <2>1, <2>2, <2>3, <2>4 DEF ReadsBehind
<1> QED
  BY <1>2, <1>3, <1>10 DEF A1, R1, m1, n

LEMMA ReadsNumber ==
  ASSUME NEW p, NEW m, NEW message, NEW room, NEW f0, NEW l0, NEW tag \in Nat,
         Reads(p, m, message, room, "tag", f0, l0), Encloses(message, room),
         NEW f \in FieldWithTag(message, tag), f \in NumberField,
         NEW v \in Nat, room = 0 \/ room >= 2
  PROVE  /\ Reads(TakeAll(p, <<tag>>), m, Around(message, room, 1),
                  Room(room, 1), "value", f, l0)
         /\ Reads(TakeAll(p, <<tag, v>>), WithNumber(m, f, v),
                  Around(message, room, 2), Room(room, 2), "tag", f, l0)
<1> DEFINE A1 == Around(message, room, 1)
           R1 == Room(room, 1)
           p1 == Take[p][tag]
<1>1. TakeAll(p, <<tag>>) = p1 /\ TakeAll(p, <<tag, v>>) = Take[p1][v]
  BY TakeFew
<1>2. room # 1
  BY DEF Encloses
<1>3. Reads(p1, m, A1, R1, "value", f, l0)
  BY <1>2, ReadsTag
<1>4. /\ Encloses(A1, R1) /\ Around(A1, R1, 1) = Around(message, room, 2)
      /\ Room(R1, 1) = Room(room, 2)
  BY DEF Encloses, Around, Room
<1> HIDE DEF p1, A1, R1
<1>5. Reads(Take[p1][v], WithNumber(m, f, v), Around(A1, R1, 1), Room(R1, 1),
            "tag", f, l0)
  BY <1>3, <1>4, ReadsValue
<1> QED
  BY <1>1, <1>3, <1>4, <1>5 DEF A1, R1

LEMMA ReadsMessage ==
  ASSUME NEW p, NEW m, NEW f0, NEW l0, NEW tag \in Nat,
         Reads(p, m, "header", 0, "tag", f0, l0),
         NEW f \in FieldWithTag("header", tag), f \notin StringField,
         NEW n \in Nat
  PROVE  /\ Reads(TakeAll(p, <<tag>>), WithField(m, f), "header", 0,
                  "length", f, l0)
         /\ Reads(TakeAll(p, <<tag, n>>), WithField(m, f),
                  IF n = 0 THEN "header" ELSE f, n, "tag", f, l0)
<1> DEFINE p1 == Take[p][tag]
<1>1. TakeAll(p, <<tag>>) = p1 /\ TakeAll(p, <<tag, n>>) = Take[p1][n]
  BY TakeFew
<1>2. f \in {"login_packet", "connected_packet"} /\ f \notin NumberField
  BY Kinds DEF FieldWithTag, HeaderCase
<1>3. /\ Encloses("header", 0) /\ Around("header", 0, 1) = "header"
      /\ Room(0, 1) = 0
  BY DEF Encloses, Around, Room
<1>4. Reads(p1, WithField(m, f), "header", 0, "length", f, l0)
  BY <1>2, <1>3, ReadsTag
<1> HIDE DEF p1
<1>5. Reads(Take[p1][n], WithField(m, f), IF n = 0 THEN "header" ELSE f, n,
            "tag", f, l0)
  BY <1>2, <1>4, ReadsNested
<1> QED
  BY <1>1, <1>4, <1>5

------------------------------------------------------------------------------
(* What is cut at a 0 byte.                                                *)

NoNul(s) == \A i \in 1 .. Len(s) : s[i] # 0

LEMMA CutIs ==
  ASSUME NEW s \in Seq(Nat), NEW n, FirstNul(s, n), NEW t \in Seq(Nat),
         Len(t) = n, \A i \in 1 .. n : t[i] = s[i]
  PROVE  UpToNul(s) = t
<1>1. CString(s) = n /\ n \in Nat
  <2>1. FirstNul(s, CString(s))
    BY CStringIs
  <2>2. CString(s) = n
    BY <2>1, FirstNulIsOne
  <2> QED
    BY <2>2 DEF FirstNul
<1>2. UpToNul(s) \in Seq(Nat) /\ Len(UpToNul(s)) = n
      /\ \A i \in 1 .. n : UpToNul(s)[i] = s[i]
  BY <1>1, UpToNulIs
<1> QED
  BY <1>1, <1>2, SeqEqual

LEMMA NoNulKept ==
  ASSUME NEW s \in Seq(Nat), NoNul(s)
  PROVE  UpToNul(s) = s
<1>1. Len(s) \in Nat
  OBVIOUS
<1>2. FirstNul(s, Len(s))
  BY <1>1 DEF FirstNul, NoNul
<1> QED
  BY <1>2, CutIs

LEMMA NulConcat ==
  ASSUME NEW s \in Seq(Nat), NEW t \in Seq(Nat)
  PROVE  /\ NoNul(s \o t) <=> NoNul(s) /\ NoNul(t)
         /\ NoNul(s) => UpToNul(s \o t) = s \o UpToNul(t)
         /\ ~NoNul(s) => UpToNul(s \o t) = UpToNul(s)
<1> DEFINE u == s \o t
<1>1. /\ u \in Seq(Nat) /\ Len(u) = Len(s) + Len(t) /\ Len(s) \in Nat /\ Len(t) \in Nat
      /\ \A i \in 1 .. Len(s) : u[i] = s[i]
      /\ \A i \in 1 .. Len(t) : u[Len(s) + i] = t[i]
  BY ConcatProperties
<1> HIDE DEF u
<1>2. NoNul(u) <=> NoNul(s) /\ NoNul(t)
  <2>1. NoNul(u) => NoNul(s) /\ NoNul(t)
    <3> SUFFICES ASSUME NoNul(u) PROVE NoNul(s) /\ NoNul(t)
      OBVIOUS
    <3>1. NoNul(s)
      BY <1>1 DEF NoNul
    <3>2. ASSUME NEW i \in 1 .. Len(t) PROVE t[i] # 0
      <4>1. Len(s) + i \in 1 .. Len(u)
        BY <1>1
      <4> QED
        BY <1>1, <4>1 DEF NoNul
    <3> QED
      BY <3>1, <3>2 DEF NoNul
  <2>2. NoNul(s) /\ NoNul(t) => NoNul(u)
    <3> SUFFICES ASSUME NoNul(s), NoNul(t), NEW i \in 1 .. Len(u) PROVE u[i] # 0
      BY DEF NoNul
    <3>1. CASE i <= Len(s)
      <4>1. i \in 1 .. Len(s)
        BY <1>1, <3>1
      <4> QED
        BY <1>1, <4>1 DEF NoNul
    <3>2. CASE i > Len(s)
      <4> DEFINE j == i - Len(s)
      <4>1. j \in 1 .. Len(t) /\ i = Len(s) + j
        BY <1>1, <3>2
      <4> HIDE DEF j
      <4> QED
        BY <1>1, <4>1 DEF NoNul
    <3> QED
      BY <1>1, <3>1, <3>2
  <2> QED
    BY <2>1, <2>2
<1>3. ASSUME NoNul(s) PROVE UpToNul(u) = s \o UpToNul(t)
  <2> DEFINE v == UpToNul(t)
             k == CString(t)
             w == s \o v
  <2>1. /\ FirstNul(t, k) /\ v \in Seq(Nat) /\ Len(v) = k /\ k \in 0 .. Len(t)
        /\ \A i \in 1 .. k : v[i] = t[i]
    BY CStringIs, UpToNulIs
  <2> HIDE DEF v, k
  <2>2. /\ w \in Seq(Nat) /\ Len(w) = Len(s) + k
        /\ \A i \in 1 .. Len(s) : w[i] = s[i]
        /\ \A i \in 1 .. k : w[Len(s) + i] = v[i]
    <3>1. /\ w \in Seq(Nat) /\ Len(w) = Len(s) + Len(v)
          /\ \A i \in 1 .. Len(s) + Len(v) :
               w[i] = IF i <= Len(s) THEN s[i] ELSE v[i - Len(s)]
      BY <2>1, ConcatProperties
    <3> HIDE DEF w
    <3>2. ASSUME NEW i \in 1 .. k PROVE w[Len(s) + i] = v[i]
      <4> DEFINE j == Len(s) + i
      <4>1. j \in 1 .. Len(s) + Len(v) /\ ~(j <= Len(s)) /\ j - Len(s) = i
        BY <1>1, <2>1
      <4> HIDE DEF j
      <4>2. w[j] = v[i]
        BY <3>1, <4>1
      <4> QED
        BY <4>2 DEF j
    <3>3. ASSUME NEW i \in 1 .. Len(s) PROVE w[i] = s[i]
      <4>1. i \in 1 .. Len(s) + Len(v) /\ i <= Len(s)
        BY <1>1, <2>1
      <4> QED
        BY <3>1, <4>1
    <3> QED
      BY <2>1, <3>1, <3>2, <3>3
  <2> HIDE DEF w
  <2>3. ASSUME NEW i \in 1 .. Len(s) + k PROVE w[i] = u[i] /\ u[i] # 0
    <3>1. CASE i <= Len(s)
      <4>1. i \in 1 .. Len(s)
        BY <1>1, <2>1, <3>1
      <4> QED
        BY <1>1, <1>3, <2>2, <4>1 DEF NoNul
    <3>2. CASE i > Len(s)
      <4> DEFINE j == i - Len(s)
      <4>1. j \in 1 .. k /\ i = Len(s) + j /\ j \in 1 .. Len(t)
        BY <1>1, <2>1, <3>2
      <4> HIDE DEF j
      <4> QED
        BY <1>1, <2>1, <2>2, <4>1 DEF FirstNul
    <3> QED
      BY <1>1, <2>1, <3>1, <3>2
  <2>4. FirstNul(u, Len(s) + k)
    <3>1. ASSUME Len(s) + k < Len(u) PROVE u[Len(s) + k + 1] = 0
      <4>1. k + 1 \in 1 .. Len(t) /\ t[k + 1] = 0
        BY <1>1, <2>1, <3>1 DEF FirstNul
      <4>2. u[Len(s) + (k + 1)] = t[k + 1]
        BY <1>1, <4>1
      <4>3. Len(s) + (k + 1) = Len(s) + k + 1
        BY <1>1, <2>1
      <4> QED
        BY <4>1, <4>2, <4>3
    <3> QED
      BY <1>1, <2>1, <2>3, <3>1 DEF FirstNul
  <2>5. UpToNul(u) = w
    BY <1>1, <2>2, <2>3, <2>4, CutIs
  <2> QED
    BY <2>5 DEF w, v
<1>4. ASSUME ~NoNul(s) PROVE UpToNul(u) = UpToNul(s)
  <2> DEFINE k == CString(s)
             v == UpToNul(s)
  <2>1. /\ FirstNul(s, k) /\ v \in Seq(Nat) /\ Len(v) = k /\ k \in 0 .. Len(s)
        /\ \A i \in 1 .. k : v[i] = s[i]
    BY CStringIs, UpToNulIs
  <2> HIDE DEF v, k
  <2>2. k < Len(s)
    BY <1>1, <1>4, <2>1 DEF FirstNul, NoNul
  <2>3. k \in 0 .. Len(u) /\ k + 1 \in 1 .. Len(s)
    BY <1>1, <2>1, <2>2
  <2>4. ASSUME NEW i \in 1 .. k PROVE v[i] = u[i] /\ s[i] = u[i]
    <3>1. i \in 1 .. Len(s)
      BY <1>1, <2>1, <2>2
    <3> QED
      BY <1>1, <2>1, <3>1
  <2>5. FirstNul(u, k)
    <3>1. u[k + 1] = s[k + 1]
      BY <1>1, <2>3
    <3> QED
      BY <2>1, <2>2, <2>3, <2>4, <3>1 DEF FirstNul
  <2>6. \A i \in 1 .. k : v[i] = u[i]
    BY <2>4
  <2>7. UpToNul(u) = v
    <3>1. u \in Seq(Nat) /\ v \in Seq(Nat) /\ Len(v) = k
      BY <1>1, <2>1
    <3> QED
      BY <2>5, <2>6, <3>1, CutIs
  <2> QED
    BY <2>7 DEF v
<1> QED
  BY <1>2, <1>3, <1>4 DEF u

------------------------------------------------------------------------------
(* Reading what an object was serialised to: whole, and with its end       *)
(* missing.                                                                *)

\* The fields F of m, and no others.
Partly(m, F) == MergeIn(Empty, m, F)

\* What may have been read of m when the bytes end.
Fragment(q, m) ==
  /\ q.has \subseteq m.has
  /\ \A f \in NumberField \cap q.has : q.num[f] = m.num[f]
  /\ \A f \in StringField \cap q.has :
       /\ Len(q.str[f]) <= Len(m.str[f])
       /\ q.str[f] = SubSeq(m.str[f], 1, Len(q.str[f]))
  /\ Cardinality({f \in StringField \cap q.has : q.str[f] # m.str[f]}) <= 1

LEMMA PartlyIs ==
  ASSUME NEW m \in Message, NEW F \in SUBSET Field
  PROVE  /\ Partly(m, F) \in Message
         /\ Partly(m, F).has = F \cap m.has
         /\ \A f \in StringField : Partly(m, F).str[f] =
              IF f \in F \cap m.has THEN m.str[f] ELSE << >>
         /\ \A f \in NumberField : Partly(m, F).num[f] =
              IF f \in F \cap m.has THEN m.num[f] ELSE 0
<1>1. /\ Empty \in Message /\ Empty.has = {}
      /\ \A f \in StringField : Empty.str[f] = << >>
      /\ \A f \in NumberField : Empty.num[f] = 0
  BY EmptyIs
<1> QED
  BY <1>1, MergeInIs DEF Partly

LEMMA PartlyEmpty ==
  ASSUME NEW m \in Message
  PROVE  Partly(m, {}) = Empty
<1> DEFINE q == Partly(m, {})
<1>1. /\ q \in Message /\ q.has = {}
      /\ \A f \in StringField : q.str[f] = << >>
      /\ \A f \in NumberField : q.num[f] = 0
  BY PartlyIs
<1> HIDE DEF q
<1>2. q \in Message /\ Empty \in Message /\ q.has = Empty.has
  BY <1>1, EmptyIs
<1>3. /\ \A f \in StringField : q.str[f] = Empty.str[f]
      /\ \A f \in NumberField : q.num[f] = Empty.num[f]
  BY <1>1, EmptyIs
<1>4. q = Empty
  BY <1>2, <1>3, MessageEqual
<1> QED
  BY <1>4 DEF q

LEMMA PartlyAll ==
  ASSUME NEW m, Whole(m), NEW F \in SUBSET Field, m.has \subseteq F
  PROVE  Partly(m, F) = m
<1> DEFINE q == Partly(m, F)
<1>1. m \in Message /\ F \cap m.has = m.has
  BY DEF Whole
<1>2. /\ q \in Message /\ q.has = m.has
      /\ \A f \in StringField : q.str[f] = IF f \in m.has THEN m.str[f] ELSE << >>
      /\ \A f \in NumberField : q.num[f] = IF f \in m.has THEN m.num[f] ELSE 0
  <2>1. /\ q \in Message /\ q.has = F \cap m.has
        /\ \A f \in StringField :
             q.str[f] = IF f \in F \cap m.has THEN m.str[f] ELSE << >>
        /\ \A f \in NumberField :
             q.num[f] = IF f \in F \cap m.has THEN m.num[f] ELSE 0
    BY <1>1, PartlyIs
  <2> HIDE DEF q
  <2> QED
    BY <1>1, <2>1
<1> HIDE DEF q
<1>3. /\ \A f \in StringField : q.str[f] = m.str[f]
      /\ \A f \in NumberField : q.num[f] = m.num[f]
  BY <1>2 DEF Whole, Clean
<1>4. q = m
  BY <1>1, <1>2, <1>3, MessageEqual
<1> QED
  BY <1>4 DEF q

\* Fields that m does not have make no difference.
LEMMA PartlySame ==
  ASSUME NEW m \in Message, NEW F \in SUBSET Field, NEW G \in SUBSET Field,
         F \cap m.has = G \cap m.has
  PROVE  Partly(m, F) = Partly(m, G)
BY DEF Partly, MergeIn

LEMMA PartlyWithField ==
  ASSUME NEW m \in Message, NEW F \in SUBSET Field,
         NEW f \in {"login_packet", "connected_packet"}, f \in m.has
  PROVE  WithField(Partly(m, F), f) = Partly(m, F \cup {f})
<1>1. f \notin StringField /\ f \notin NumberField /\ F \cup {f} \in SUBSET Field
  BY Kinds
<1> DEFINE q == Partly(m, F)
           r == WithField(q, f)
           u == Partly(m, F \cup {f})
<1>2. /\ q \in Message /\ q.has = F \cap m.has
      /\ \A g \in StringField : q.str[g] = IF g \in F \cap m.has THEN m.str[g] ELSE << >>
      /\ \A g \in NumberField : q.num[g] = IF g \in F \cap m.has THEN m.num[g] ELSE 0
  BY PartlyIs
<1>3. /\ u \in Message /\ u.has = (F \cup {f}) \cap m.has
      /\ \A g \in StringField :
           u.str[g] = IF g \in (F \cup {f}) \cap m.has THEN m.str[g] ELSE << >>
      /\ \A g \in NumberField :
           u.num[g] = IF g \in (F \cup {f}) \cap m.has THEN m.num[g] ELSE 0
  BY <1>1, PartlyIs
<1> HIDE DEF q, u
<1>4. /\ r \in Message /\ r.has = q.has \cup {f} /\ r.str = q.str /\ r.num = q.num
  BY <1>1, <1>2, MessageFields DEF WithField, Message
<1> HIDE DEF r
<1>5. r.has = u.has
  BY <1>2, <1>3, <1>4
<1>6. \A g \in StringField : r.str[g] = u.str[g]
  BY <1>1, <1>2, <1>3, <1>4
<1>7. \A g \in NumberField : r.num[g] = u.num[g]
  BY <1>1, <1>2, <1>3, <1>4
<1>8. r = u
  BY <1>3, <1>4, <1>5, <1>6, <1>7, MessageEqual
<1> QED
  BY <1>8 DEF r, q, u

LEMMA PartlyWithNumber ==
  ASSUME NEW m \in Message, NEW F \in SUBSET Field, NEW f \in NumberField,
         f \in m.has
  PROVE  WithNumber(Partly(m, F), f, m.num[f]) = Partly(m, F \cup {f})
<1>1. f \notin StringField /\ f \in Field /\ F \cup {f} \in SUBSET Field
  BY Kinds
<1> DEFINE q == Partly(m, F)
           r == WithNumber(q, f, m.num[f])
           u == Partly(m, F \cup {f})
<1>2. /\ q \in Message /\ q.has = F \cap m.has
      /\ \A g \in StringField : q.str[g] = IF g \in F \cap m.has THEN m.str[g] ELSE << >>
      /\ \A g \in NumberField : q.num[g] = IF g \in F \cap m.has THEN m.num[g] ELSE 0
  BY PartlyIs
<1>3. /\ u \in Message /\ u.has = (F \cup {f}) \cap m.has
      /\ \A g \in StringField :
           u.str[g] = IF g \in (F \cup {f}) \cap m.has THEN m.str[g] ELSE << >>
      /\ \A g \in NumberField :
           u.num[g] = IF g \in (F \cup {f}) \cap m.has THEN m.num[g] ELSE 0
  BY <1>1, PartlyIs
<1> HIDE DEF q, u
<1>4. m.num[f] \in Nat /\ q.num \in [NumberField -> Nat]
  BY <1>2, MessageFields
<1>5. /\ r.has = q.has \cup {f} /\ r.str = q.str
      /\ r.num = [q.num EXCEPT ![f] = m.num[f]]
      /\ r = [has |-> r.has, str |-> r.str, num |-> r.num]
  BY DEF WithNumber
<1> HIDE DEF r
<1>6. r \in Message
  <2>1. r.has \subseteq Field /\ r.str \in [StringField -> Seq(Nat)]
        /\ r.num \in [NumberField -> Nat]
    BY <1>1, <1>2, <1>4, <1>5, MessageFields
  <2> QED
    BY <2>1, <1>5 DEF Message
<1>7. r.has = u.has
  BY <1>2, <1>3, <1>5
<1>8. \A g \in StringField : r.str[g] = u.str[g]
  BY <1>1, <1>2, <1>3, <1>5
<1>9. \A g \in NumberField : r.num[g] = u.num[g]
  BY <1>1, <1>2, <1>3, <1>4, <1>5
<1>10. r = u
  BY <1>3, <1>6, <1>7, <1>8, <1>9, MessageEqual
<1> QED
  BY <1>10 DEF r, q, u

LEMMA PartlyWithString ==
  ASSUME NEW m \in Message, NEW F \in SUBSET Field, NEW f \in StringField,
         f \in m.has
  PROVE  WithString(Partly(m, F), f, m.str[f]) = Partly(m, F \cup {f})
<1>1. f \notin NumberField /\ f \in Field /\ F \cup {f} \in SUBSET Field
  BY Kinds
<1> DEFINE q == Partly(m, F)
           r == WithString(q, f, m.str[f])
           u == Partly(m, F \cup {f})
<1>2. /\ q \in Message /\ q.has = F \cap m.has
      /\ \A g \in StringField : q.str[g] = IF g \in F \cap m.has THEN m.str[g] ELSE << >>
      /\ \A g \in NumberField : q.num[g] = IF g \in F \cap m.has THEN m.num[g] ELSE 0
  BY PartlyIs
<1>3. /\ u \in Message /\ u.has = (F \cup {f}) \cap m.has
      /\ \A g \in StringField :
           u.str[g] = IF g \in (F \cup {f}) \cap m.has THEN m.str[g] ELSE << >>
      /\ \A g \in NumberField :
           u.num[g] = IF g \in (F \cup {f}) \cap m.has THEN m.num[g] ELSE 0
  BY <1>1, PartlyIs
<1> HIDE DEF q, u
<1>4. m.str[f] \in Seq(Nat)
  BY MessageFields
<1>5. /\ r \in Message /\ r.has = q.has \cup {f} /\ r.num = q.num
      /\ r.str[f] = m.str[f] /\ \A g \in StringField \ {f} : r.str[g] = q.str[g]
  BY <1>2, <1>4, WithStringIs
<1> HIDE DEF r
<1>6. r.has = u.has
  BY <1>2, <1>3, <1>5
<1>7. \A g \in StringField : r.str[g] = u.str[g]
  BY <1>2, <1>3, <1>5
<1>8. \A g \in NumberField : r.num[g] = u.num[g]
  BY <1>1, <1>2, <1>3, <1>5
<1>9. r = u
  <2>1. r \in Message /\ u \in Message
    BY <1>3, <1>5
  <2> QED
    BY <2>1, <1>6, <1>7, <1>8, MessageEqual
<1> QED
  BY <1>9 DEF r, q, u

\* What has been read is a fragment: all of the fields F, and a first part of
\* one more string.
LEMMA FragmentPartly ==
  ASSUME NEW m \in Message, NEW F \in SUBSET Field
  PROVE  Fragment(Partly(m, F), m)
<1> DEFINE q == Partly(m, F)
<1>1. /\ q \in Message /\ q.has = F \cap m.has
      /\ \A f \in StringField :
           q.str[f] = IF f \in F \cap m.has THEN m.str[f] ELSE << >>
      /\ \A f \in NumberField :
           q.num[f] = IF f \in F \cap m.has THEN m.num[f] ELSE 0
  BY PartlyIs
<1> HIDE DEF q
<1>2. ASSUME NEW f \in StringField \cap q.has
      PROVE  /\ q.str[f] = m.str[f] /\ q.str[f] = SubSeq(m.str[f], 1, Len(q.str[f]))
             /\ Len(q.str[f]) <= Len(m.str[f])
  <2>1. q.str[f] = m.str[f] /\ m.str[f] \in Seq(Nat) /\ Len(m.str[f]) \in Nat
    BY <1>1, MessageFields
  <2>2. SubSeq(m.str[f], 1, Len(m.str[f])) = m.str[f]
    BY <2>1
  <2> QED
    BY <2>1, <2>2
<1>3. {f \in StringField \cap q.has : q.str[f] # m.str[f]} = {}
  BY <1>2
<1>4. Cardinality({}) = 0
  BY FS_EmptySet
<1>5. \A f \in NumberField \cap q.has : q.num[f] = m.num[f]
  BY <1>1
<1>6. q.has \subseteq m.has
  BY <1>1
<1>7. Fragment(q, m)
  <2>1. \A f \in StringField \cap q.has :
          /\ Len(q.str[f]) <= Len(m.str[f])
          /\ q.str[f] = SubSeq(m.str[f], 1, Len(q.str[f]))
    BY <1>2
  <2>2. Cardinality({f \in StringField \cap q.has : q.str[f] # m.str[f]}) <= 1
    BY <1>3, <1>4
  <2> QED
    BY <1>5, <1>6, <2>1, <2>2 DEF Fragment
<1> QED
  BY <1>7 DEF q

LEMMA FragmentString ==
  ASSUME NEW m \in Message, NEW F \in SUBSET Field, NEW f \in StringField,
         f \in m.has, NEW k \in 0 .. Len(m.str[f])
  PROVE  Fragment(WithString(Partly(m, F), f, SubSeq(m.str[f], 1, k)), m)
<1> DEFINE q == Partly(m, F)
           w == SubSeq(m.str[f], 1, k)
           r == WithString(q, f, w)
<1>1. /\ q \in Message /\ q.has = F \cap m.has
      /\ \A g \in StringField :
           q.str[g] = IF g \in F \cap m.has THEN m.str[g] ELSE << >>
      /\ \A g \in NumberField :
           q.num[g] = IF g \in F \cap m.has THEN m.num[g] ELSE 0
  BY PartlyIs
<1>2. /\ m.str[f] \in Seq(Nat) /\ w \in Seq(Nat) /\ Len(w) = k
      /\ Len(w) <= Len(m.str[f])
  BY MessageFields, Prefix
<1>3. w = SubSeq(m.str[f], 1, Len(w))
  BY <1>2
<1> HIDE DEF q, w
<1>4. /\ r.has = q.has \cup {f} /\ r.num = q.num /\ r.str[f] = w
      /\ \A g \in StringField \ {f} : r.str[g] = q.str[g]
  BY <1>1, <1>2, WithStringIs
<1> HIDE DEF r
<1>5. ASSUME NEW g \in StringField \cap r.has, g # f
      PROVE  /\ r.str[g] = m.str[g] /\ r.str[g] = SubSeq(m.str[g], 1, Len(r.str[g]))
             /\ Len(r.str[g]) <= Len(m.str[g])
  <2>1. r.str[g] = m.str[g] /\ m.str[g] \in Seq(Nat) /\ Len(m.str[g]) \in Nat
    BY <1>1, <1>4, <1>5, MessageFields
  <2>2. SubSeq(m.str[g], 1, Len(m.str[g])) = m.str[g]
    BY <2>1
  <2> QED
    BY <2>1, <2>2
<1> DEFINE D == {g \in StringField \cap r.has : r.str[g] # m.str[g]}
<1>6. Cardinality(D) <= 1
  <2>1. D = {} \/ D = {f}
    BY <1>5
  <2> HIDE DEF D
  <2>2. Cardinality({}) = 0
    BY FS_EmptySet
  <2>3. Cardinality({f}) = 1
    BY FS_Singleton
  <2>4. Cardinality(D) = 0 \/ Cardinality(D) = 1
    BY <2>1, <2>2, <2>3, Zenon
  <2> QED
    BY <2>4
<1>7. \A g \in StringField \cap r.has :
        /\ Len(r.str[g]) <= Len(m.str[g])
        /\ r.str[g] = SubSeq(m.str[g], 1, Len(r.str[g]))
  BY <1>2, <1>3, <1>4, <1>5
<1>8. r.has \subseteq m.has
  BY <1>1, <1>4
<1>9. \A g \in NumberField \cap r.has : r.num[g] = m.num[g]
  BY <1>1, <1>4, Kinds
<1>10. Fragment(r, m)
  BY <1>6, <1>7, <1>8, <1>9 DEF Fragment
<1> QED
  BY <1>10 DEF r, q, w

\* Every part of s from the beginning is read to a fragment of m.
Fragments(p, s, m) ==
  \A k \in 0 .. Len(s) : Fragment(TakeAll(p, SubSeq(s, 1, k)).msg, m)

LEMMA PrefixConcat ==
  ASSUME NEW s \in Seq(Nat), NEW t \in Seq(Nat), NEW k \in 0 .. Len(s) + Len(t)
  PROVE  /\ k <= Len(s) => SubSeq(s \o t, 1, k) = SubSeq(s, 1, k)
         /\ k >= Len(s) =>
              /\ k - Len(s) \in 0 .. Len(t)
              /\ SubSeq(s \o t, 1, k) = s \o SubSeq(t, 1, k - Len(s))
<1> DEFINE u == s \o t
           a == SubSeq(u, 1, k)
<1>1. /\ u \in Seq(Nat) /\ Len(u) = Len(s) + Len(t) /\ Len(s) \in Nat /\ Len(t) \in Nat
      /\ \A i \in 1 .. Len(s) : u[i] = s[i]
      /\ \A i \in 1 .. Len(t) : u[Len(s) + i] = t[i]
  BY ConcatProperties
<1> HIDE DEF u
<1>2. a \in Seq(Nat) /\ Len(a) = k /\ \A i \in 1 .. k : a[i] = u[i]
  BY <1>1, Prefix
<1> HIDE DEF a
<1>3. ASSUME k <= Len(s) PROVE a = SubSeq(s, 1, k)
  <2> DEFINE b == SubSeq(s, 1, k)
  <2>1. k \in 0 .. Len(s)
    BY <1>1, <1>3
  <2>2. b \in Seq(Nat) /\ Len(b) = k /\ \A i \in 1 .. k : b[i] = s[i]
    BY <2>1, Prefix
  <2> HIDE DEF b
  <2>3. ASSUME NEW i \in 1 .. k PROVE a[i] = b[i]
    <3>1. i \in 1 .. Len(s)
      BY <2>1
    <3> QED
      BY <1>1, <1>2, <2>2, <3>1
  <2>4. a = b
    BY <1>2, <2>2, <2>3, SeqEqual
  <2> QED
    BY <2>4 DEF b
<1>4. ASSUME k >= Len(s)
      PROVE  k - Len(s) \in 0 .. Len(t) /\ a = s \o SubSeq(t, 1, k - Len(s))
  <2> DEFINE j == k - Len(s)
             v == SubSeq(t, 1, j)
             b == s \o v
  <2>1. j \in 0 .. Len(t) /\ k = Len(s) + j
    BY <1>1, <1>4
  <2> HIDE DEF j
  <2>2. v \in Seq(Nat) /\ Len(v) = j /\ \A i \in 1 .. j : v[i] = t[i]
    BY <2>1, Prefix
  <2> HIDE DEF v
  <2>3. /\ b \in Seq(Nat) /\ Len(b) = Len(s) + Len(v)
        /\ \A i \in 1 .. Len(s) + Len(v) :
             b[i] = IF i <= Len(s) THEN s[i] ELSE v[i - Len(s)]
    BY <2>2, ConcatProperties
  <2> HIDE DEF b
  <2>4. ASSUME NEW i \in 1 .. k PROVE a[i] = b[i]
    <3>1. CASE i <= Len(s)
      <4>1. i \in 1 .. Len(s) /\ i \in 1 .. Len(s) + Len(v)
        BY <1>1, <2>1, <2>2, <3>1
      <4> QED
        BY <1>1, <1>2, <2>3, <3>1, <4>1
    <3>2. CASE ~(i <= Len(s))
      <4> DEFINE l == i - Len(s)
      <4>1. l \in 1 .. j /\ i = Len(s) + l /\ l \in 1 .. Len(t)
            /\ i \in 1 .. Len(s) + Len(v)
        BY <1>1, <2>1, <2>2, <3>2
      <4>2. b[i] = v[l]
        BY <2>3, <3>2, <4>1
      <4> HIDE DEF l
      <4>3. v[l] = t[l] /\ u[i] = t[l] /\ a[i] = u[i]
        BY <1>1, <1>2, <2>2, <4>1
      <4> QED
        BY <4>2, <4>3
    <3> QED
      BY <3>1, <3>2
  <2>5. a = b
    BY <1>2, <2>1, <2>2, <2>3, <2>4, SeqEqual
  <2> QED
    BY <2>1, <2>5 DEF b, v, j
<1> QED
  BY <1>3, <1>4 DEF a, u

LEMMA FragmentsConcat ==
  ASSUME NEW p, NEW m, NEW s \in Seq(Nat), NEW t \in Seq(Nat),
         Fragments(p, s, m), Fragments(TakeAll(p, s), t, m)
  PROVE  Fragments(p, s \o t, m)
<1>1. s \o t \in Seq(Nat) /\ Len(s \o t) = Len(s) + Len(t)
      /\ Len(s) \in Nat /\ Len(t) \in Nat
  BY ConcatProperties
<1>2. ASSUME NEW k \in 0 .. Len(s) + Len(t)
      PROVE  Fragment(TakeAll(p, SubSeq(s \o t, 1, k)).msg, m)
  <2>1. CASE k <= Len(s)
    <3>1. SubSeq(s \o t, 1, k) = SubSeq(s, 1, k) /\ k \in 0 .. Len(s)
      BY <1>1, <2>1, PrefixConcat
    <3> QED
      BY <3>1 DEF Fragments
  <2>2. CASE ~(k <= Len(s))
    <3> DEFINE j == k - Len(s)
               v == SubSeq(t, 1, j)
    <3>1. k >= Len(s)
      BY <1>1, <2>2
    <3>2. j \in 0 .. Len(t) /\ SubSeq(s \o t, 1, k) = s \o v
      BY <3>1, PrefixConcat
    <3> HIDE DEF j
    <3>3. v \in Seq(Nat)
      BY <3>2, Prefix
    <3>4. TakeAll(p, s \o v) = TakeAll(TakeAll(p, s), v)
      BY <3>3, TakeAllConcat
    <3> QED
      BY <3>2, <3>4 DEF Fragments
  <2> QED
    BY <2>1, <2>2
<1> QED
  BY <1>1, <1>2 DEF Fragments

LEMMA PrefixEnds ==
  ASSUME NEW s \in Seq(Nat)
  PROVE  SubSeq(s, 1, 0) = << >> /\ SubSeq(s, 1, Len(s)) = s
<1>1. Len(s) \in Nat
  OBVIOUS
<1>2. SubSeq(s, 1, 0) \in Seq(Nat) /\ Len(SubSeq(s, 1, 0)) = 0
  BY <1>1, Prefix
<1>3. /\ SubSeq(s, 1, Len(s)) \in Seq(Nat) /\ Len(SubSeq(s, 1, Len(s))) = Len(s)
      /\ \A i \in 1 .. Len(s) : SubSeq(s, 1, Len(s))[i] = s[i]
  BY <1>1, Prefix
<1>4. SubSeq(s, 1, Len(s)) = s
  BY <1>3, SeqEqual
<1> QED
  BY <1>2, <1>4

LEMMA FragmentsTwo ==
  ASSUME NEW p, NEW m, NEW a \in Nat, NEW b \in Nat, Fragment(p.msg, m),
         Fragment(TakeAll(p, <<a>>).msg, m), Fragment(TakeAll(p, <<a, b>>).msg, m)
  PROVE  Fragments(p, <<a, b>>, m)
<1>1. ASSUME NEW k \in 0 .. 2 PROVE Fragment(TakeAll(p, SubSeq(<<a, b>>, 1, k)).msg, m)
  <2>1. CASE k = 0
    <3>1. <<a, b>> \in Seq(Nat)
      OBVIOUS
    <3>2. SubSeq(<<a, b>>, 1, 0) = << >>
      BY <3>1, PrefixEnds
    <3> QED
      BY <2>1, <3>2, TakeAllNothing
  <2>2. CASE k = 1
    <3>1. <<a>> \in Seq(Nat)
      OBVIOUS
    <3>2. <<a, b>> = Append(<<a>>, b)
      OBVIOUS
    <3>3. Front(<<a, b>>) = <<a>>
      BY <3>1, <3>2, FrontOfAppend
    <3>4. Len(<<a, b>>) - 1 = 1
      OBVIOUS
    <3>5. SubSeq(<<a, b>>, 1, 1) = <<a>>
      BY <3>3, <3>4 DEF Front
    <3> QED
      BY <2>2, <3>5
  <2>3. CASE k = 2
    <3>1. <<a, b>> \in Seq(Nat) /\ Len(<<a, b>>) = 2
      OBVIOUS
    <3>2. SubSeq(<<a, b>>, 1, Len(<<a, b>>)) = <<a, b>>
      BY <3>1, PrefixEnds
    <3> QED
      BY <2>3, <3>1, <3>2
  <2> QED
    BY <2>1, <2>2, <2>3
<1>2. Len(<<a, b>>) = 2
  OBVIOUS
<1> QED
  BY <1>1, <1>2 DEF Fragments

\* The parser has read q, and a tag comes next.
AtTag(p, q, message, room) ==
  \E f \in Field, l \in Nat : Reads(p, q, message, room, "tag", f, l)

\* The n bytes s have been written for the fields G of m that p has not read.
Written(p, s, m, G, message, room, n) ==
  /\ s \in Seq(Nat) /\ Len(s) = n
  /\ AtTag(TakeAll(p, s), Partly(m, G), Around(message, room, n), Room(room, n))
  /\ Fragments(p, s, m)

\* Nothing is written.
LEMMA NoPiece ==
  ASSUME NEW p, NEW m \in Message, NEW F \in SUBSET Field, NEW G \in SUBSET Field,
         F \cap m.has = G \cap m.has, NEW message, NEW room,
         AtTag(p, Partly(m, F), message, room), Encloses(message, room)
  PROVE  Written(p, << >>, m, G, message, room, 0)
<1> DEFINE e == << >>
           q == Partly(m, F)
<1>1. e \in Seq(Nat) /\ Len(e) = 0 /\ SubSeq(e, 1, 0) = e /\ TakeAll(p, e) = p
  BY TakeAllNothing
<1>2. Partly(m, G) = q
  BY PartlySame
<1>3. Around(message, room, 0) = message /\ Room(room, 0) = room
  BY DEF Around, Room, Encloses
<1>4. p.msg = q /\ Fragment(q, m)
  BY FragmentPartly DEF AtTag, Reads
<1> HIDE DEF e, q
<1>5. ASSUME NEW k \in 0 .. Len(e)
      PROVE  Fragment(TakeAll(p, SubSeq(e, 1, k)).msg, m)
  <2>1. k = 0
    BY <1>1
  <2> QED
    BY <1>1, <1>4, <2>1
<1>6. Fragments(p, e, m)
  BY <1>5 DEF Fragments
<1>7. Written(p, e, m, G, message, room, 0)
  BY <1>1, <1>2, <1>3, <1>6 DEF Written, q
<1> QED
  BY <1>7 DEF e

LEMMA StringPiece ==
  ASSUME NEW p, NEW m \in Message, NEW F \in SUBSET Field, NEW message, NEW room,
         AtTag(p, Partly(m, F), message, room), Encloses(message, room),
         NEW tag \in Nat, NEW f \in StringField, f \notin F,
         f \in m.has => f \in FieldWithTag(message, tag),
         room = 0 \/ room >= StringSize(m, f)
  PROVE  Written(p, StringBytes(m, tag, f), m, F \cup {f}, message, room,
                 StringSize(m, f))
<1> DEFINE q == Partly(m, F)
           v == m.str[f]
           ab == <<tag, Len(v)>>
<1>1. v \in Seq(Nat) /\ Len(v) \in Nat /\ f \in Field /\ room \in Nat
  BY MessageFields DEF Field, HeaderField, LoginField, ConnectedField, StringField,
     Encloses
<1>2. PICK f0 \in Field, l0 \in Nat : Reads(p, q, message, room, "tag", f0, l0)
  BY DEF AtTag
<1>3. p.msg = q /\ Fragment(q, m)
  BY <1>2, FragmentPartly DEF Reads
<1>4. CASE f \notin m.has
  <2>1. StringBytes(m, tag, f) = << >> /\ StringSize(m, f) = 0
    BY <1>4 DEF StringBytes, StringSize
  <2>2. (F \cup {f}) \cap m.has = F \cap m.has /\ F \cup {f} \in SUBSET Field
    BY <1>1, <1>4
  <2> QED
    BY <2>1, <2>2, NoPiece
<1>5. CASE f \in m.has
  <2>1. StringBytes(m, tag, f) = ab \o v /\ StringSize(m, f) = 2 + Len(v)
    BY <1>5 DEF StringBytes, StringSize
  <2>2. ab \in Seq(Nat) /\ Len(ab) = 2
    BY <1>1
  <2>3. ab \o v \in Seq(Nat) /\ Len(ab \o v) = 2 + Len(v)
    BY <1>1, <2>2, ConcatProperties
  <2>4. /\ Reads(TakeAll(p, <<tag>>), WithField(q, f), Around(message, room, 1),
                 Room(room, 1), "length", f, l0)
        /\ \A w \in Seq(Nat) :
              Len(w) <= Len(v) =>
                Reads(TakeAll(p, ab \o w), WithString(q, f, w),
                      Around(message, room, 2 + Len(w)), Room(room, 2 + Len(w)),
                      IF Len(w) = Len(v) THEN "tag" ELSE "bytes",
                      f, Len(v) - Len(w))
    BY <1>1, <1>2, <1>5, <2>1, ReadsString
  <2> HIDE DEF q, v, ab
  <2>5. Reads(TakeAll(p, ab \o v), WithString(q, f, v),
              Around(message, room, 2 + Len(v)), Room(room, 2 + Len(v)), "tag", f,
              Len(v) - Len(v))
    BY <1>1, <2>4
  <2>6. WithString(q, f, v) = Partly(m, F \cup {f})
    BY <1>5, PartlyWithString DEF q, v
  <2>7. AtTag(TakeAll(p, ab \o v), Partly(m, F \cup {f}),
              Around(message, room, 2 + Len(v)), Room(room, 2 + Len(v)))
    <3>1. Len(v) - Len(v) \in Nat
      BY <1>1
    <3> QED
      BY <1>1, <2>5, <2>6, <3>1 DEF AtTag
  <2>8. ASSUME NEW k \in 0 .. Len(v)
        PROVE  Fragment(TakeAll(p, ab \o SubSeq(v, 1, k)).msg, m)
    <3> DEFINE w == SubSeq(v, 1, k)
    <3>1. w \in Seq(Nat) /\ Len(w) <= Len(v)
      BY <1>1, Prefix
    <3> HIDE DEF w
    <3>2. TakeAll(p, ab \o w).msg = WithString(q, f, w)
      BY <2>4, <3>1 DEF Reads
    <3>3. Fragment(WithString(q, f, w), m)
      BY <1>5, FragmentString DEF q, v, w
    <3> QED
      BY <3>2, <3>3 DEF w
  <2>9. Fragments(TakeAll(p, ab), v, m)
    <3>1. ASSUME NEW k \in 0 .. Len(v)
          PROVE  Fragment(TakeAll(TakeAll(p, ab), SubSeq(v, 1, k)).msg, m)
      <4>1. SubSeq(v, 1, k) \in Seq(Nat)
        BY <1>1, Prefix
      <4>2. TakeAll(p, ab \o SubSeq(v, 1, k)) = TakeAll(TakeAll(p, ab), SubSeq(v, 1, k))
        BY <2>2, <4>1, TakeAllConcat
      <4> QED
        BY <2>8, <4>2
    <3> QED
      BY <3>1 DEF Fragments
  <2>10. Fragment(TakeAll(p, <<tag>>).msg, m)
    <3>1. TakeAll(p, <<tag>>).msg = WithField(q, f)
      BY <2>4 DEF Reads
    <3>2. q \in Message /\ q.str[f] = << >>
      BY PartlyIs DEF q
    <3>3. [q.str EXCEPT ![f] = q.str[f]] = q.str
      BY <3>2, MessageFields
    <3>4. WithField(q, f) = WithString(q, f, q.str[f])
      BY <3>3 DEF WithField, WithString
    <3>5. SubSeq(v, 1, 0) = << >> /\ 0 \in 0 .. Len(v)
      BY <1>1
    <3> QED
      <4>1. Fragment(WithString(q, f, SubSeq(v, 1, 0)), m)
        BY <1>5, <3>5, FragmentString DEF q, v
      <4> QED
        BY <3>1, <3>2, <3>4, <3>5, <4>1
  <2>11. Fragment(TakeAll(p, ab).msg, m)
    <3>1. SubSeq(v, 1, 0) = << >> /\ 0 \in 0 .. Len(v) /\ ab \o << >> = ab
      BY <1>1, <2>2
    <3> QED
      BY <2>8, <3>1
  <2>12. Fragments(p, ab, m)
    BY <1>1, <1>3, <2>10, <2>11, FragmentsTwo DEF ab
  <2>13. Fragments(p, ab \o v, m)
    BY <1>1, <2>2, <2>9, <2>12, FragmentsConcat
  <2> QED
    BY <2>1, <2>3, <2>7, <2>13 DEF Written
<1> QED
  BY <1>4, <1>5

LEMMA NumberPiece ==
  ASSUME NEW p, NEW m \in Message, NEW F \in SUBSET Field, NEW message, NEW room,
         AtTag(p, Partly(m, F), message, room), Encloses(message, room),
         NEW tag \in Nat, NEW f \in NumberField,
         f \in m.has => f \in FieldWithTag(message, tag),
         room = 0 \/ room >= NumberSize(m, f)
  PROVE  Written(p, NumberBytes(m, tag, f), m, F \cup {f}, message, room,
                 NumberSize(m, f))
<1> DEFINE q == Partly(m, F)
           v == m.num[f]
           ab == <<tag, v>>
<1>1. v \in Nat /\ f \in Field /\ room \in Nat
  BY MessageFields DEF Field, HeaderField, LoginField, ConnectedField, NumberField,
     Encloses
<1>2. PICK f0 \in Field, l0 \in Nat : Reads(p, q, message, room, "tag", f0, l0)
  BY DEF AtTag
<1>3. p.msg = q /\ Fragment(q, m)
  BY <1>2, FragmentPartly DEF Reads
<1>4. CASE f \notin m.has
  <2>1. NumberBytes(m, tag, f) = << >> /\ NumberSize(m, f) = 0
    BY <1>4 DEF NumberBytes, NumberSize
  <2>2. (F \cup {f}) \cap m.has = F \cap m.has /\ F \cup {f} \in SUBSET Field
    BY <1>1, <1>4
  <2> QED
    BY <2>1, <2>2, NoPiece
<1>5. CASE f \in m.has
  <2>1. NumberBytes(m, tag, f) = ab /\ NumberSize(m, f) = 2
    BY <1>5 DEF NumberBytes, NumberSize
  <2>2. ab \in Seq(Nat) /\ Len(ab) = 2
    BY <1>1
  <2>3. /\ Reads(TakeAll(p, <<tag>>), q, Around(message, room, 1),
                 Room(room, 1), "value", f, l0)
        /\ Reads(TakeAll(p, ab), WithNumber(q, f, v), Around(message, room, 2),
                 Room(room, 2), "tag", f, l0)
    BY <1>1, <1>2, <1>5, <2>1, ReadsNumber
  <2>4. WithNumber(q, f, v) = Partly(m, F \cup {f})
    BY <1>5, PartlyWithNumber
  <2>5. F \cup {f} \in SUBSET Field
    BY <1>1
  <2>6. Fragment(Partly(m, F \cup {f}), m)
    BY <2>5, FragmentPartly
  <2> HIDE DEF q, v
  <2>7. Fragment(TakeAll(p, <<tag>>).msg, m) /\ Fragment(TakeAll(p, ab).msg, m)
    BY <1>3, <2>3, <2>4, <2>6 DEF Reads
  <2>8. Fragments(p, ab, m)
    BY <1>1, <1>3, <2>7, FragmentsTwo
  <2>9. AtTag(TakeAll(p, ab), Partly(m, F \cup {f}), Around(message, room, 2),
              Room(room, 2))
    BY <1>1, <2>3, <2>4 DEF AtTag
  <2> QED
    BY <2>1, <2>2, <2>8, <2>9 DEF Written
<1> QED
  BY <1>4, <1>5

LEMMA WrittenJoin ==
  ASSUME NEW p, NEW m, NEW F, NEW G, NEW message, NEW room, Encloses(message, room),
         NEW s, NEW t, NEW n \in Nat, NEW k \in Nat,
         Written(p, s, m, F, message, room, n),
         Written(TakeAll(p, s), t, m, G, Around(message, room, n), Room(room, n), k)
  PROVE  Written(p, s \o t, m, G, message, room, n + k)
<1>1. /\ s \in Seq(Nat) /\ Len(s) = n /\ t \in Seq(Nat) /\ Len(t) = k
      /\ Fragments(p, s, m) /\ Fragments(TakeAll(p, s), t, m)
  BY DEF Written
<1>2. s \o t \in Seq(Nat) /\ Len(s \o t) = n + k
  BY <1>1, ConcatProperties
<1>3. TakeAll(p, s \o t) = TakeAll(TakeAll(p, s), t)
  BY <1>1, TakeAllConcat
<1>4. Fragments(p, s \o t, m)
  BY <1>1, FragmentsConcat
<1>5. /\ Around(Around(message, room, n), Room(room, n), k) = Around(message, room, n + k)
      /\ Room(Room(room, n), k) = Room(room, n + k)
  BY AroundIs
<1>6. AtTag(TakeAll(TakeAll(p, s), t), Partly(m, G),
            Around(Around(message, room, n), Room(room, n), k), Room(Room(room, n), k))
  BY DEF Written
<1> QED
  BY <1>2, <1>3, <1>4, <1>5, <1>6 DEF Written

\* A nested message: its tag and its size, then its fields.
LEMMA NestedStarts ==
  ASSUME NEW p, NEW m \in Message, NEW F \in SUBSET Field,
         AtTag(p, Partly(m, F), "header", 0), NEW tag \in Nat,
         NEW f \in FieldWithTag("header", tag), f \notin StringField,
         f \in m.has, NEW n \in Nat
  PROVE  /\ AtTag(TakeAll(p, <<tag, n>>), Partly(m, F \cup {f}),
                  IF n = 0 THEN "header" ELSE f, n)
         /\ Encloses(IF n = 0 THEN "header" ELSE f, n)
         /\ Fragments(p, <<tag, n>>, m)
<1> DEFINE q == Partly(m, F)
           r == Partly(m, F \cup {f})
<1>1. f \in {"login_packet", "connected_packet"}
  BY Kinds, Cases DEF FieldWithTag, HeaderCase
<1>2. f \in Field /\ F \cup {f} \in SUBSET Field
  BY <1>1 DEF Field, HeaderField
<1>3. PICK f0 \in Field, l0 \in Nat : Reads(p, q, "header", 0, "tag", f0, l0)
  BY DEF AtTag
<1>4. WithField(q, f) = r
  BY <1>1, PartlyWithField
<1>5. Fragment(q, m) /\ Fragment(r, m)
  BY <1>2, FragmentPartly
<1> HIDE DEF q, r
<1>6. /\ Reads(TakeAll(p, <<tag>>), r, "header", 0, "length", f, l0)
      /\ Reads(TakeAll(p, <<tag, n>>), r, IF n = 0 THEN "header" ELSE f, n,
               "tag", f, l0)
  BY <1>3, <1>4, ReadsMessage
<1>7. AtTag(TakeAll(p, <<tag, n>>), r, IF n = 0 THEN "header" ELSE f, n)
  BY <1>2, <1>6 DEF AtTag
<1>8. /\ Fragment(p.msg, m) /\ Fragment(TakeAll(p, <<tag>>).msg, m)
      /\ Fragment(TakeAll(p, <<tag, n>>).msg, m)
  BY <1>3, <1>5, <1>6 DEF Reads
<1>9. Fragments(p, <<tag, n>>, m)
  BY <1>8, FragmentsTwo
<1>10. Encloses(IF n = 0 THEN "header" ELSE f, n)
  BY <1>1 DEF Encloses
<1> QED
  BY <1>7, <1>9, <1>10 DEF r

LEMMA NestedEnds ==
  ASSUME NEW p, NEW m, NEW G, NEW tag \in Nat, NEW n \in Nat, NEW s, NEW message,
         Fragments(p, <<tag, n>>, m),
         Written(TakeAll(p, <<tag, n>>), s, m, G, message, n, n)
  PROVE  Written(p, <<tag, n>> \o s, m, G, "header", 0, 2 + n)
<1> DEFINE ab == <<tag, n>>
<1>1. ab \in Seq(Nat) /\ Len(ab) = 2
  OBVIOUS
<1>2. Around(message, n, n) = "header" /\ Room(n, n) = 0
  BY DEF Around, Room
<1> HIDE DEF ab
<1>3. /\ s \in Seq(Nat) /\ Len(s) = n /\ Fragments(TakeAll(p, ab), s, m)
      /\ AtTag(TakeAll(TakeAll(p, ab), s), Partly(m, G), "header", 0)
  BY <1>2 DEF Written, ab
<1>4. ab \o s \in Seq(Nat) /\ Len(ab \o s) = 2 + n
  <2>1. s \in Seq(Nat)
    BY <1>3
  <2>2. ab \o s \in Seq(Nat) /\ Len(ab \o s) = Len(ab) + Len(s)
    BY <1>1, <2>1, ConcatProperties
  <2> QED
    BY <1>1, <1>3, <2>2
<1>5. TakeAll(p, ab \o s) = TakeAll(TakeAll(p, ab), s)
  BY <1>1, <1>3, TakeAllConcat
<1>6. Fragments(p, ab \o s, m)
  BY <1>1, <1>3, FragmentsConcat DEF ab
<1>7. Around("header", 0, 2 + n) = "header" /\ Room(0, 2 + n) = 0
  BY DEF Around, Room
<1>8. Written(p, ab \o s, m, G, "header", 0, 2 + n)
  BY <1>3, <1>4, <1>5, <1>6, <1>7 DEF Written
<1> QED
  BY <1>8 DEF ab

\* The fields of a LoginPacket, of which n bytes were announced.
LEMMA LoginFields ==
  ASSUME NEW p, NEW m \in Message, NEW F \in SUBSET Field, F \cap LoginField = {},
         NEW message, Encloses(message, LoginSize(m)),
         message = IF LoginSize(m) = 0 THEN "header" ELSE "login_packet",
         AtTag(p, Partly(m, F), message, LoginSize(m))
  PROVE  Written(p, LoginBytes(m), m, F \cup LoginField, message,
                 LoginSize(m), LoginSize(m))
<1> DEFINE n == LoginSize(m)
           n1 == StringSize(m, "username")
           n2 == StringSize(m, "password")
           n3 == NumberSize(m, "version")
           s1 == StringBytes(m, 18, "username")
           s2 == StringBytes(m, 26, "password")
           s3 == NumberBytes(m, 32, "version")
           F1 == F \cup {"username"}
           F2 == F1 \cup {"password"}
           F3 == F2 \cup {"version"}
<1>1. /\ "username" \in StringField /\ "password" \in StringField
      /\ "version" \in NumberField
      /\ "username" \in FieldWithTag("login_packet", 18)
      /\ "password" \in FieldWithTag("login_packet", 26)
      /\ "version" \in FieldWithTag("login_packet", 32)
  BY DEF StringField, NumberField, FieldWithTag, LoginCase
<1>2. /\ F1 \in SUBSET Field /\ F2 \in SUBSET Field /\ F3 = F \cup LoginField
      /\ "username" \notin F /\ "password" \notin F1
  BY DEF Field, LoginField
<1>3. /\ n1 \in Nat /\ n2 \in Nat /\ n3 \in Nat /\ n = n1 + n2 + n3 /\ n \in Nat
      /\ "username" \in m.has => n1 > 0
      /\ "password" \in m.has => n2 > 0
      /\ "version" \in m.has => n3 = 2
  <2>1. /\ m.str["username"] \in Seq(Nat) /\ Len(m.str["username"]) \in Nat
        /\ m.str["password"] \in Seq(Nat) /\ Len(m.str["password"]) \in Nat
    BY <1>1, MessageFields
  <2>2. n1 \in Nat /\ n2 \in Nat /\ n3 \in Nat
    BY <2>1 DEF StringSize, NumberSize
  <2>3. n = n1 + n2 + n3
    BY DEF LoginSize
  <2>4. "username" \in m.has => n1 > 0
    BY <2>1 DEF StringSize
  <2>5. "password" \in m.has => n2 > 0
    BY <2>1 DEF StringSize
  <2>6. "version" \in m.has => n3 = 2
    BY DEF NumberSize
  <2> HIDE DEF n, n1, n2, n3
  <2> QED
    BY <2>2, <2>3, <2>4, <2>5, <2>6
<1> HIDE DEF n, n1, n2, n3, s1, s2, s3, F1, F2, F3
<1>4. /\ n > 0 => message = "login_packet"
      /\ Encloses(message, n) /\ AtTag(p, Partly(m, F), message, n)
  BY <1>3 DEF n
<1>5. Written(p, s1, m, F1, message, n, n1)
  <2>1. "username" \in m.has => "username" \in FieldWithTag(message, 18)
    BY <1>1, <1>3, <1>4
  <2>2. n >= n1
    BY <1>3
  <2> QED
    BY <1>1, <1>2, <1>4, <2>1, <2>2, StringPiece DEF n1, s1, F1
<1> DEFINE A1 == Around(message, n, n1)
           R1 == Room(n, n1)
           A2 == Around(A1, R1, n2)
           R2 == Room(R1, n2)
           p1 == TakeAll(p, s1)
           p2 == TakeAll(p1, s2)
<1>6. Encloses(A1, R1) /\ Encloses(A2, R2) /\ n \in Nat
  BY <1>3, <1>4, AroundIs
<1>7. R1 = n2 + n3 /\ (R1 > 0 => A1 = "login_packet")
  <2>1. CASE n > n1
    BY <1>3, <1>4, <2>1 DEF Around, Room
  <2>2. CASE ~(n > n1)
    BY <1>3, <1>4, <2>2 DEF Around, Room
  <2> QED
    BY <2>1, <2>2
<1>8. AtTag(p1, Partly(m, F1), A1, R1)
  BY <1>5 DEF Written
<1> HIDE DEF A1, R1, p1
<1>9. Written(p1, s2, m, F2, A1, R1, n2)
  <2>1. "password" \in m.has => "password" \in FieldWithTag(A1, 26)
    BY <1>1, <1>3, <1>7
  <2>2. R1 = 0 \/ R1 >= n2
    BY <1>3, <1>7
  <2> QED
    BY <1>1, <1>2, <1>6, <1>8, <2>1, <2>2, StringPiece DEF n2, s2, F2
<1>10. AtTag(p2, Partly(m, F2), A2, R2)
  BY <1>9 DEF Written
<1>11. R2 = n3 /\ (R2 > 0 => A2 = "login_packet")
  <2>1. CASE R1 > n2
    BY <1>3, <1>7, <2>1 DEF Around, Room
  <2>2. CASE ~(R1 > n2)
    BY <1>3, <1>7, <2>2 DEF Around, Room
  <2> QED
    BY <2>1, <2>2
<1> HIDE DEF A2, R2, p2
<1>12. Written(p2, s3, m, F3, A2, R2, n3)
  <2>1. "version" \in m.has => "version" \in FieldWithTag(A2, 32)
    BY <1>1, <1>3, <1>11
  <2>2. R2 = 0 \/ R2 >= n3
    BY <1>3, <1>11
  <2> QED
    BY <1>1, <1>2, <1>6, <1>10, <2>1, <2>2, NumberPiece DEF n3, s3, F3
<1>13. Written(p, s1 \o s2, m, F2, message, n, n1 + n2)
  BY <1>3, <1>4, <1>5, <1>9, WrittenJoin DEF A1, R1, p1
<1>14. Written(p, s1 \o s2 \o s3, m, F3, message, n, n1 + n2 + n3)
  <2>1. n1 + n2 \in Nat
    BY <1>3
  <2>2. A2 = Around(message, n, n1 + n2) /\ R2 = Room(n, n1 + n2)
    BY <1>3, <1>4, <1>6, AroundIs DEF A1, R1, A2, R2
  <2>3. p2 = TakeAll(p, s1 \o s2)
    <3>1. s1 \in Seq(Nat) /\ s2 \in Seq(Nat)
      BY <1>5, <1>9 DEF Written
    <3> QED
      BY <3>1, TakeAllConcat DEF p1, p2
  <2> QED
    BY <1>3, <1>4, <1>12, <1>13, <2>1, <2>2, <2>3, WrittenJoin
<1>15. LoginBytes(m) = s1 \o s2 \o s3
  BY DEF LoginBytes, s1, s2, s3
<1> QED
  BY <1>2, <1>3, <1>14, <1>15 DEF n

LEMMA ConnectedFields ==
  ASSUME NEW p, NEW m \in Message, NEW F \in SUBSET Field,
         F \cap ConnectedField = {},
         NEW message, Encloses(message, ConnectedSize(m)),
         message = IF ConnectedSize(m) = 0 THEN "header" ELSE "connected_packet",
         AtTag(p, Partly(m, F), message, ConnectedSize(m))
  PROVE  Written(p, ConnectedBytes(m), m, F \cup ConnectedField, message,
                 ConnectedSize(m), ConnectedSize(m))
<1> DEFINE n == ConnectedSize(m)
           n1 == NumberSize(m, "connected")
           n2 == StringSize(m, "character_list")
           s1 == NumberBytes(m, 8, "connected")
           s2 == StringBytes(m, 18, "character_list")
           F1 == F \cup {"connected"}
           F2 == F1 \cup {"character_list"}
<1>1. /\ "connected" \in NumberField /\ "character_list" \in StringField
      /\ "connected" \in FieldWithTag("connected_packet", 8)
      /\ "character_list" \in FieldWithTag("connected_packet", 18)
  BY DEF StringField, NumberField, FieldWithTag, ConnectedCase
<1>2. /\ F1 \in SUBSET Field /\ F2 = F \cup ConnectedField
      /\ "character_list" \notin F1
  BY DEF Field, ConnectedField
<1>3. /\ n1 \in Nat /\ n2 \in Nat /\ n = n1 + n2 /\ n \in Nat
      /\ "connected" \in m.has => n1 = 2
      /\ "character_list" \in m.has => n2 > 0
  <2>1. /\ m.str["character_list"] \in Seq(Nat)
        /\ Len(m.str["character_list"]) \in Nat
    BY <1>1, MessageFields
  <2>2. n1 \in Nat /\ n2 \in Nat
    BY <2>1 DEF StringSize, NumberSize
  <2>3. n = n1 + n2
    BY DEF ConnectedSize
  <2>4. "character_list" \in m.has => n2 > 0
    BY <2>1 DEF StringSize
  <2>5. "connected" \in m.has => n1 = 2
    BY DEF NumberSize
  <2> HIDE DEF n, n1, n2
  <2> QED
    BY <2>2, <2>3, <2>4, <2>5
<1> HIDE DEF n, n1, n2, s1, s2, F1, F2
<1>4. /\ n > 0 => message = "connected_packet"
      /\ Encloses(message, n) /\ AtTag(p, Partly(m, F), message, n)
  BY <1>3 DEF n
<1>5. Written(p, s1, m, F1, message, n, n1)
  <2>1. "connected" \in m.has => "connected" \in FieldWithTag(message, 8)
    BY <1>1, <1>3, <1>4
  <2>2. n >= n1
    BY <1>3
  <2> QED
    BY <1>1, <1>2, <1>4, <2>1, <2>2, NumberPiece DEF n1, s1, F1
<1> DEFINE A1 == Around(message, n, n1)
           R1 == Room(n, n1)
           p1 == TakeAll(p, s1)
<1>6. Encloses(A1, R1)
  BY <1>3, <1>4, AroundIs
<1>7. R1 = n2 /\ (R1 > 0 => A1 = "connected_packet")
  <2>1. CASE n > n1
    BY <1>3, <1>4, <2>1 DEF Around, Room
  <2>2. CASE ~(n > n1)
    BY <1>3, <1>4, <2>2 DEF Around, Room
  <2> QED
    BY <2>1, <2>2
<1>8. AtTag(p1, Partly(m, F1), A1, R1)
  BY <1>5 DEF Written
<1> HIDE DEF A1, R1, p1
<1>9. Written(p1, s2, m, F2, A1, R1, n2)
  <2>1. "character_list" \in m.has => "character_list" \in FieldWithTag(A1, 18)
    BY <1>1, <1>3, <1>7
  <2>2. R1 = 0 \/ R1 >= n2
    BY <1>3, <1>7
  <2> QED
    BY <1>1, <1>2, <1>6, <1>8, <2>1, <2>2, StringPiece DEF n2, s2, F2
<1>10. Written(p, s1 \o s2, m, F2, message, n, n1 + n2)
  BY <1>3, <1>4, <1>5, <1>9, WrittenJoin DEF A1, R1, p1
<1>11. ConnectedBytes(m) = s1 \o s2
  BY DEF ConnectedBytes, s1, s2
<1> QED
  BY <1>2, <1>3, <1>10, <1>11 DEF n

\* The three parts of a PacketHeader.
LoginPartSize(m) == IF "login_packet" \in m.has THEN 2 + LoginSize(m) ELSE 0

ConnectedPartSize(m) ==
  IF "connected_packet" \in m.has THEN 2 + ConnectedSize(m) ELSE 0

LEMMA LoginPartWritten ==
  ASSUME NEW p, NEW m, Whole(m), AtTag(p, Partly(m, {}), "header", 0)
  PROVE  Written(p, LoginPart(m), m, {"login_packet"} \cup LoginField, "header", 0,
                 LoginPartSize(m))
<1> DEFINE f == "login_packet"
           n == LoginSize(m)
           F == {f}
           message == IF n = 0 THEN "header" ELSE f
<1>1. /\ m \in Message /\ n \in Nat /\ F \cap LoginField = {}
      /\ {} \in SUBSET Field /\ F \in SUBSET Field
      /\ F \cup LoginField \in SUBSET Field /\ Encloses("header", 0)
  BY LoginBytesType DEF Whole, Field, HeaderField, LoginField, Encloses
<1>2. CASE f \notin m.has
  <2>1. m.has \cap LoginField = {}
    BY <1>2, NoParentNoField
  <2>2. {} \cap m.has = (F \cup LoginField) \cap m.has
    BY <1>2, <2>1
  <2>3. LoginPart(m) = << >> /\ LoginPartSize(m) = 0
    BY <1>2 DEF LoginPart, LoginPartSize
  <2> QED
    BY <1>1, <2>2, <2>3, NoPiece
<1>3. CASE f \in m.has
  <2>1. f \in FieldWithTag("header", 10) /\ f \notin StringField
    BY DEF FieldWithTag, HeaderCase, StringField
  <2>2. {} \cup {f} = F
    OBVIOUS
  <2>3. /\ AtTag(TakeAll(p, <<10, n>>), Partly(m, F), message, n)
        /\ Encloses(message, n) /\ Fragments(p, <<10, n>>, m)
    BY <1>1, <1>3, <2>1, <2>2, NestedStarts
  <2>4. Written(TakeAll(p, <<10, n>>), LoginBytes(m), m, F \cup LoginField,
                message, n, n)
    BY <1>1, <2>3, LoginFields
  <2>5. LoginPart(m) = <<10, n>> \o LoginBytes(m) /\ LoginPartSize(m) = 2 + n
    BY <1>3 DEF LoginPart, LoginPartSize
  <2> QED
    BY <1>1, <2>3, <2>4, <2>5, NestedEnds
<1> QED
  BY <1>2, <1>3

LEMMA ConnectedPartWritten ==
  ASSUME NEW p, NEW m, Whole(m), NEW F \in SUBSET Field,
         F \cap ({"connected_packet"} \cup ConnectedField) = {},
         AtTag(p, Partly(m, F), "header", 0)
  PROVE  Written(p, ConnectedPart(m), m,
                 F \cup ({"connected_packet"} \cup ConnectedField), "header", 0,
                 ConnectedPartSize(m))
<1> DEFINE f == "connected_packet"
           n == ConnectedSize(m)
           G == F \cup {f}
           H == F \cup ({f} \cup ConnectedField)
           message == IF n = 0 THEN "header" ELSE f
<1>1. /\ m \in Message /\ n \in Nat /\ G \cap ConnectedField = {}
      /\ G \in SUBSET Field /\ G \cup ConnectedField = H
      /\ H \in SUBSET Field /\ Encloses("header", 0)
  BY ConnectedBytesType DEF Whole, Field, HeaderField, ConnectedField, Encloses
<1>2. CASE f \notin m.has
  <2>1. m.has \cap ConnectedField = {}
    BY <1>2, NoParentNoField
  <2>2. F \cap m.has = H \cap m.has
    BY <1>2, <2>1
  <2>3. ConnectedPart(m) = << >> /\ ConnectedPartSize(m) = 0
    BY <1>2 DEF ConnectedPart, ConnectedPartSize
  <2> QED
    BY <1>1, <2>2, <2>3, NoPiece
<1>3. CASE f \in m.has
  <2>1. f \in FieldWithTag("header", 18) /\ f \notin StringField
    BY DEF FieldWithTag, HeaderCase, StringField
  <2>2. /\ AtTag(TakeAll(p, <<18, n>>), Partly(m, G), message, n)
        /\ Encloses(message, n) /\ Fragments(p, <<18, n>>, m)
    BY <1>1, <1>3, <2>1, NestedStarts
  <2>3. Written(TakeAll(p, <<18, n>>), ConnectedBytes(m), m, G \cup ConnectedField,
                message, n, n)
    BY <1>1, <2>2, ConnectedFields
  <2>4. ConnectedPart(m) = <<18, n>> \o ConnectedBytes(m)
        /\ ConnectedPartSize(m) = 2 + n
    BY <1>3 DEF ConnectedPart, ConnectedPartSize
  <2>5. Written(p, <<18, n>> \o ConnectedBytes(m), m, G \cup ConnectedField,
                "header", 0, 2 + n)
    BY <1>1, <2>2, <2>3, NestedEnds
  <2> QED
    BY <1>1, <2>4, <2>5
<1> QED
  BY <1>2, <1>3

\* All of it: the object comes out again, and of every beginning a fragment.
LEMMA WholeWritten ==
  ASSUME NEW m, Whole(m)
  PROVE  Written(Reading(Empty), SerializeToString(m), m, Field, "header", 0,
                 ByteSize(m))
<1> DEFINE p == Reading(Empty)
           F1 == {"login_packet"} \cup LoginField
           F2 == F1 \cup ({"connected_packet"} \cup ConnectedField)
           F3 == F2 \cup {"auth_code"}
           n1 == LoginPartSize(m)
           n2 == ConnectedPartSize(m)
           n3 == StringSize(m, "auth_code")
           s1 == LoginPart(m)
           s2 == ConnectedPart(m)
           s3 == CodePart(m)
           p1 == TakeAll(p, s1)
           p2 == TakeAll(p1, s2)
<1>1. /\ m \in Message /\ {} \in SUBSET Field /\ F1 \in SUBSET Field
      /\ F2 \in SUBSET Field /\ F3 = Field
      /\ F1 \cap ({"connected_packet"} \cup ConnectedField) = {}
      /\ "auth_code" \notin F2 /\ Encloses("header", 0)
      /\ "auth_code" \in StringField /\ "auth_code" \in FieldWithTag("header", 26)
  BY DEF Whole, Field, HeaderField, LoginField, ConnectedField, Encloses, StringField,
         FieldWithTag, HeaderCase
<1>2. n1 \in Nat /\ n2 \in Nat /\ n3 \in Nat /\ ByteSize(m) = n1 + n2 + n3
  <2>1. n1 \in Nat /\ n2 \in Nat
    BY <1>1, LoginBytesType, ConnectedBytesType DEF LoginPartSize, ConnectedPartSize
  <2>2. n3 \in Nat
    BY <1>1, MessageFields, StringSizeType
  <2> QED
    BY <2>1, <2>2 DEF ByteSize, LoginPartSize, ConnectedPartSize
<1>3. AtTag(p, Partly(m, {}), "header", 0)
  <2>1. Reads(p, Empty, "header", 0, "tag", "auth_code", 0)
    BY EmptyWhole, GoodReading DEF Reads, Reading, Good
  <2>2. "auth_code" \in Field /\ 0 \in Nat
    BY DEF Field, HeaderField
  <2> QED
    BY <1>1, <2>1, <2>2, PartlyEmpty DEF AtTag
<1>4. \A n \in Nat : Around("header", 0, n) = "header" /\ Room(0, n) = 0
  BY DEF Around, Room
<1> HIDE DEF p, F1, F2, F3, n1, n2, n3
<1>5. Written(p, s1, m, F1, "header", 0, n1)
  BY <1>3, LoginPartWritten DEF F1, n1
<1>6. AtTag(p1, Partly(m, F1), "header", 0)
  BY <1>2, <1>4, <1>5 DEF Written
<1> HIDE DEF p1
<1>7. Written(p1, s2, m, F2, "header", 0, n2)
  BY <1>1, <1>6, ConnectedPartWritten DEF F2, n2
<1>8. AtTag(p2, Partly(m, F2), "header", 0)
  BY <1>2, <1>4, <1>7 DEF Written
<1> HIDE DEF p2
<1>9. Written(p2, s3, m, F3, "header", 0, n3)
  BY <1>1, <1>8, StringPiece DEF F3, n3, CodePart
<1>10. Written(p, s1 \o s2, m, F2, "header", 0, n1 + n2)
  BY <1>1, <1>2, <1>4, <1>5, <1>7, WrittenJoin DEF p1
<1>11. Written(p, s1 \o s2 \o s3, m, F3, "header", 0, n1 + n2 + n3)
  <2>1. n1 + n2 \in Nat
    BY <1>2
  <2>2. p2 = TakeAll(p, s1 \o s2)
    BY <1>1, Parts, TakeAllConcat DEF p1, p2
  <2> QED
    BY <1>1, <1>2, <1>4, <1>9, <1>10, <2>1, <2>2, WrittenJoin
<1> QED
  BY <1>1, <1>2, <1>11, Parts DEF p

LEMMA ReadsWhole ==
  ASSUME NEW m, Whole(m)
  PROVE  /\ ByteSize(m) = Len(SerializeToString(m))
         /\ AtTag(TakeAll(Reading(Empty), SerializeToString(m)), m, "header", 0)
         /\ TakeAll(Reading(Empty), SerializeToString(m)).msg = m
         /\ Fragments(Reading(Empty), SerializeToString(m), m)
<1>1. Written(Reading(Empty), SerializeToString(m), m, Field, "header", 0, ByteSize(m))
  BY WholeWritten
<1>2. m \in Message /\ Partly(m, Field) = m
  <2>1. m \in Message /\ m.has \subseteq Field /\ Field \in SUBSET Field
    BY MessageFields DEF Whole
  <2> QED
    BY <2>1, PartlyAll
<1>3. ByteSize(m) \in Nat /\ ByteSize(m) = Len(SerializeToString(m))
  BY <1>1 DEF Written
<1>4. AtTag(TakeAll(Reading(Empty), SerializeToString(m)), m, "header", 0)
  BY <1>1, <1>2 DEF Written, Around, Room
<1>5. TakeAll(Reading(Empty), SerializeToString(m)).msg = m
  BY <1>4 DEF AtTag, Reads
<1> QED
  BY <1>1, <1>3, <1>4, <1>5 DEF Written

(***************************************************************************)
(* Parsing what an object was serialised to gives the object again,        *)
(* whatever was in the object that parses, and the sizes written in front  *)
(* of the nested messages are their numbers of bytes (packet.pb.cc:306,    *)
(* 330, 607, 641, 924, 957).                                               *)
(***************************************************************************)
THEOREM RoundTripCorrect == MessagesSpec => []RoundTrip
<1>1. ObjectsWhole => RoundTrip
  <2> SUFFICES ASSUME ObjectsWhole, NEW o \in Object
               PROVE  /\ ByteSize(obj[o]) = Len(SerializeToString(obj[o]))
                      /\ ParseFromString(obj[TheOther(o)],
                                         SerializeToString(obj[o])) = obj[o]
    BY DEF RoundTrip
  <2>1. Whole(obj[o]) /\ Whole(obj[TheOther(o)])
    BY OtherObject DEF ObjectsWhole, Whole
  <2>2. SerializeToString(obj[o]) \in Seq(Nat)
    BY <2>1, Parts DEF Whole
  <2>3. ParseFromString(obj[TheOther(o)], SerializeToString(obj[o])) =
          TakeAll(Reading(Empty), SerializeToString(obj[o])).msg
    BY <2>1, <2>2, ParseWhole
  <2> QED
    BY <2>1, <2>3, ReadsWhole
<1> QED
  BY <1>1, ObjectsAlwaysWhole, PTL

(***************************************************************************)
(* Wherever the bytes of an object end, the parser has no field that was   *)
(* not sent, no other number, and at most one string that is not whole     *)
(* (packet.pb.cc:230, 505, 829).                                           *)
(***************************************************************************)
THEOREM FragmentsCorrect == MessagesSpec => []NothingInvented
<1>1. ObjectsWhole => NothingInvented
  <2> SUFFICES ASSUME ObjectsWhole, NEW o \in Object,
                      NEW k \in 0 .. Len(SerializeToString(obj[o]))
               PROVE  Fragment(ParseFromString(Empty,
                                 SubSeq(SerializeToString(obj[o]), 1, k)), obj[o])
    BY DEF NothingInvented, Fragment
  <2> DEFINE s == SubSeq(SerializeToString(obj[o]), 1, k)
  <2>1. Whole(obj[o])
    BY DEF ObjectsWhole, Whole
  <2>2. s \in Seq(Nat)
    BY <2>1, Parts, Prefix DEF Whole
  <2>3. ParseFromString(Empty, s) = TakeAll(Reading(Empty), s).msg
    BY <2>2, EmptyWhole, ParseWhole
  <2>4. Fragment(TakeAll(Reading(Empty), s).msg, obj[o])
    BY <2>1, ReadsWhole DEF Fragments
  <2> QED
    BY <2>3, <2>4
<1> QED
  BY <1>1, ObjectsAlwaysWhole, PTL

------------------------------------------------------------------------------
(* What the packets of PacketHandler.cpp are read to, cut at their first   *)
(* 0 byte.                                                                 *)

\* A parser that has failed stays where it is.
LEMMA TakeAllFailed ==
  ASSUME NEW p \in Parser, ~p.ok, NEW s \in Seq(Nat)
  PROVE  TakeAll(p, s) = p
<1> DEFINE T == {t \in Seq(Nat) : TakeAll(p, t) = p}
<1>1. << >> \in T
  BY TakeAllNothing
<1>2. ASSUME NEW t \in T, NEW b \in Nat PROVE Append(t, b) \in T
  <2>1. t \in Seq(Nat) /\ TakeAll(p, t) = p /\ Append(t, b) \in Seq(Nat)
    BY Appended
  <2>2. TakeAll(p, Append(t, b)) = Take[p][b]
    BY <2>1, TakeAllAppend
  <2>3. Take[p][b] = p
    BY TakeIs
  <2> QED
    BY <2>1, <2>2, <2>3
<1> HIDE DEF T
<1>3. T = Seq(Nat)
  BY <1>1, <1>2, AllStrings, T \in SUBSET Seq(Nat) DEF T
<1> QED
  BY <1>3 DEF T

\* A string behind its tag and length is cut only if it is empty.
LEMMA StringCut ==
  ASSUME NEW tag \in Nat, tag # 0, NEW v \in Seq(Nat), NoNul(v)
  PROVE  /\ v # << >> => NoNul(<<tag, Len(v)>> \o v)
         /\ v = << >> => /\ <<tag, Len(v)>> \o v = <<tag, 0>>
                         /\ ~NoNul(<<tag, 0>>) /\ UpToNul(<<tag, 0>>) = <<tag>>
<1>1. Len(v) \in Nat /\ (v # << >> => Len(v) # 0)
  OBVIOUS
<1>2. ASSUME v # << >> PROVE NoNul(<<tag, Len(v)>> \o v)
  <2> DEFINE ab == <<tag, Len(v)>>
  <2>1. ab \in Seq(Nat) /\ Len(ab) = 2 /\ ab[1] = tag /\ ab[2] = Len(v)
    BY <1>1
  <2> HIDE DEF ab
  <2>2. ASSUME NEW i \in 1 .. Len(ab) PROVE ab[i] # 0
    <3>1. i = 1 \/ i = 2
      BY <2>1
    <3> QED
      BY <1>1, <1>2, <2>1, <3>1
  <2>3. NoNul(ab)
    BY <2>2 DEF NoNul
  <2>4. NoNul(ab \o v)
    BY <2>1, <2>3, NulConcat
  <2> QED
    BY <2>4 DEF ab
<1>3. ASSUME v = << >> PROVE <<tag, Len(v)>> \o v = <<tag, 0>>
  BY <1>3
<1>4. /\ ~NoNul(<<tag, 0>>) /\ UpToNul(<<tag, 0>>) = <<tag>>
  <2> DEFINE s == <<tag, 0>>
             t == <<tag>>
  <2>1. /\ s \in Seq(Nat) /\ t \in Seq(Nat) /\ Len(s) = 2 /\ Len(t) = 1
        /\ s[1] = tag /\ s[2] = 0 /\ t[1] = tag
    OBVIOUS
  <2> HIDE DEF s, t
  <2>2. FirstNul(s, 1)
    BY <2>1 DEF FirstNul
  <2>3. ~NoNul(s)
    <3>1. 2 \in 1 .. Len(s)
      BY <2>1
    <3> QED
      BY <2>1, <3>1 DEF NoNul
  <2>4. UpToNul(s) = t
    <3>1. \A i \in 1 .. 1 : t[i] = s[i]
      BY <2>1
    <3> QED
      BY <2>1, <2>2, <3>1, CutIs
  <2> QED
    BY <2>3, <2>4 DEF s, t
<1> QED
  BY <1>2, <1>3, <1>4

\* The three objects that are sent besides a login.
CodeMessage == SetString(Empty, "auth_code", uniqueauthcode)
YesMessage == SetNumber(Empty, "connected", 1)
NoMessage == SetMessage(Empty, "connected_packet")

LEMMA MessagesSent ==
  /\ Whole(CodeMessage) /\ CodeMessage.has = {"auth_code"}
  /\ CodeMessage.str["auth_code"] = uniqueauthcode
  /\ CodeMessage = WithString(Empty, "auth_code", uniqueauthcode)
  /\ Whole(YesMessage) /\ YesMessage.has = {"connected", "connected_packet"}
  /\ YesMessage.num["connected"] = 1
  /\ YesMessage.str = Empty.str
  /\ YesMessage = WithNumber(WithField(Empty, "connected_packet"), "connected", 1)
  /\ Whole(NoMessage) /\ NoMessage.has = {"connected_packet"}
  /\ NoMessage = WithField(Empty, "connected_packet")
<1>1. uniqueauthcode \in Seq(Nat)
  BY DEF uniqueauthcode
<1>2. /\ Empty \in Message /\ Empty.has = {}
      /\ Empty.str \in [StringField -> Seq(Nat)]
      /\ Empty.num \in [NumberField -> Nat]
      /\ "auth_code" \in StringField /\ "connected" \in NumberField
  BY EmptyIs, Kinds, MessageFields
<1>3. /\ Parent("auth_code") = {} /\ Parent("connected") = {"connected_packet"}
  BY Parents
<1>4. /\ Whole(CodeMessage)
      /\ CodeMessage.has = Empty.has \cup {"auth_code"} \cup Parent("auth_code")
      /\ CodeMessage.str = [Empty.str EXCEPT !["auth_code"] = uniqueauthcode]
      /\ CodeMessage.num = Empty.num
  BY <1>1, <1>2, <1>3, EmptyWhole, SetStringWhole DEF CodeMessage
<1>5. /\ Whole(YesMessage)
      /\ YesMessage.has = Empty.has \cup {"connected"} \cup Parent("connected")
      /\ YesMessage.num = [Empty.num EXCEPT !["connected"] = 1]
      /\ YesMessage.str = Empty.str
  BY <1>2, <1>3, EmptyWhole, SetNumberWhole DEF YesMessage
<1>6. /\ Whole(NoMessage) /\ NoMessage.has = {} \cup {"connected_packet"}
      /\ NoMessage.str = Empty.str /\ NoMessage.num = Empty.num
  BY <1>2, EmptyWhole, SetMessageWhole DEF NoMessage
<1>7. \A m : Whole(m) => m = [has |-> m.has, str |-> m.str, num |-> m.num]
  BY DEF Whole, Message
<1> HIDE DEF CodeMessage, YesMessage, NoMessage
<1>8. CodeMessage = WithString(Empty, "auth_code", uniqueauthcode)
  BY <1>2, <1>3, <1>4, <1>7 DEF WithString
<1>9. YesMessage = WithNumber(WithField(Empty, "connected_packet"), "connected", 1)
  <2>1. Empty.has \cup {"connected"} \cup Parent("connected") =
          Empty.has \cup {"connected_packet"} \cup {"connected"}
    BY <1>3
  <2> QED
    BY <1>2, <1>5, <1>7, <2>1 DEF WithNumber, WithField
<1>10. NoMessage = WithField(Empty, "connected_packet")
  BY <1>2, <1>6, <1>7 DEF WithField
<1>11. /\ CodeMessage.has = {"auth_code"}
       /\ YesMessage.has = {"connected", "connected_packet"}
       /\ CodeMessage.str["auth_code"] = uniqueauthcode
       /\ YesMessage.num["connected"] = 1
  BY <1>2, <1>3, <1>4, <1>5
<1> QED
  BY <1>4, <1>5, <1>6, <1>8, <1>9, <1>10, <1>11, <1>2

LEMMA PacketBytes ==
  /\ \A v \in Seq(Nat) : auth_code_packet(v) = <<26, Len(v)>> \o v
  /\ connected_packet(TRUE) = <<18, 2>> \o <<8, 1>>
  /\ connected_packet(FALSE) = <<18, 0>>
<1> DEFINE e == << >>
<1>0. e \in Seq(Nat) /\ \A s \in Seq(Nat) : e \o s = s /\ s \o e = s
  OBVIOUS
<1>1. ASSUME NEW v \in Seq(Nat) PROVE auth_code_packet(v) = <<26, Len(v)>> \o v
  <2> DEFINE m == SetString(Empty, "auth_code", v)
             s == <<26, Len(v)>> \o v
  <2>1. /\ Whole(m) /\ m.has = Empty.has \cup {"auth_code"} \cup Parent("auth_code")
        /\ m.str = [Empty.str EXCEPT !["auth_code"] = v]
    BY EmptyWhole, SetStringWhole, Kinds
  <2>2. m.has = {"auth_code"} /\ m.str["auth_code"] = v
    BY <2>1, EmptyIs, Parents, Kinds, MessageFields
  <2>3. auth_code_packet(v) = SerializeToString(m)
    BY DEF auth_code_packet
  <2>4. s \in Seq(Nat)
    <3>1. <<26, Len(v)>> \in Seq(Nat)
      OBVIOUS
    <3> QED
      BY <3>1, ConcatProperties
  <2> HIDE DEF m
  <2>5. LoginPart(m) = e /\ ConnectedPart(m) = e /\ CodePart(m) = s
    BY <2>2 DEF LoginPart, ConnectedPart, CodePart, StringBytes
  <2> HIDE DEF e, s
  <2>6. SerializeToString(m) = e \o e \o s
    BY <2>1, <2>5, Parts DEF Whole
  <2>7. e \o e \o s = s
    BY <1>0, <2>4
  <2> QED
    BY <2>3, <2>6, <2>7 DEF s
<1>2. connected_packet(TRUE) = <<18, 2>> \o <<8, 1>>
  <2> DEFINE m == YesMessage
             s == <<8, 1>>
             t == <<18, 2>> \o s
  <2>1. /\ m \in Message /\ m.has = {"connected", "connected_packet"}
        /\ m.num["connected"] = 1
    BY MessagesSent DEF Whole
  <2>2. connected_packet(TRUE) = SerializeToString(m)
    BY DEF connected_packet, YesMessage
  <2> HIDE DEF m
  <2>3. /\ NumberBytes(m, 8, "connected") = s
        /\ StringBytes(m, 18, "character_list") = e
        /\ NumberSize(m, "connected") = 2 /\ StringSize(m, "character_list") = 0
    BY <2>1 DEF NumberBytes, StringBytes, NumberSize, StringSize
  <2>4. s \in Seq(Nat) /\ t \in Seq(Nat)
    OBVIOUS
  <2> HIDE DEF e, s
  <2>5. ConnectedBytes(m) = s /\ ConnectedSize(m) = 2
    BY <1>0, <2>3, <2>4 DEF ConnectedBytes, ConnectedSize
  <2>6. ConnectedPart(m) = t
    BY <2>1, <2>5 DEF ConnectedPart
  <2>7. LoginPart(m) = e /\ CodePart(m) = e
    BY <2>1 DEF LoginPart, CodePart, StringBytes, e
  <2> HIDE DEF t
  <2>8. SerializeToString(m) = e \o t \o e
    BY <2>1, <2>6, <2>7, Parts
  <2>9. e \o t \o e = t
    BY <1>0, <2>4
  <2> QED
    BY <2>2, <2>8, <2>9 DEF t, s
<1>3. connected_packet(FALSE) = <<18, 0>>
  <2> DEFINE m == NoMessage
             t == <<18, 0>>
  <2>1. m \in Message /\ m.has = {"connected_packet"}
    BY MessagesSent DEF Whole
  <2>2. connected_packet(FALSE) = SerializeToString(m)
    BY DEF connected_packet, NoMessage
  <2> HIDE DEF m
  <2>3. /\ NumberBytes(m, 8, "connected") = e
        /\ StringBytes(m, 18, "character_list") = e
        /\ NumberSize(m, "connected") = 0 /\ StringSize(m, "character_list") = 0
    BY <2>1 DEF NumberBytes, StringBytes, NumberSize, StringSize
  <2>4. t \in Seq(Nat)
    OBVIOUS
  <2> HIDE DEF e
  <2>5. ConnectedBytes(m) = e /\ ConnectedSize(m) = 0
    BY <1>0, <2>3 DEF ConnectedBytes, ConnectedSize
  <2>6. ConnectedPart(m) = t
    BY <1>0, <2>1, <2>4, <2>5 DEF ConnectedPart
  <2>7. LoginPart(m) = e /\ CodePart(m) = e
    BY <2>1 DEF LoginPart, CodePart, StringBytes, e
  <2> HIDE DEF t
  <2>8. SerializeToString(m) = e \o t \o e
    BY <2>1, <2>6, <2>7, Parts
  <2>9. e \o t \o e = t
    BY <1>0, <2>4
  <2> QED
    BY <2>2, <2>8, <2>9 DEF t
<1> QED
  BY <1>1, <1>2, <1>3

\* A parser that has nothing of a message is at the tag of the next one.
Ready(p, m) == AtTag(p, m, "header", 0)

LEMMA ReadyAtStart == Ready(Reading(Empty), Empty)
<1>1. Reads(Reading(Empty), Empty, "header", 0, "tag", "auth_code", 0)
  BY EmptyWhole, GoodReading DEF Reads, Reading, Good
<1> QED
  BY <1>1, Kinds DEF Ready, AtTag

LEMMA HeaderRoom ==
  /\ Encloses("header", 0)
  /\ \A n \in Nat : Around("header", 0, n) = "header" /\ Room(0, n) = 0
BY DEF Encloses, Around, Room

\* failure is no packet: the parser keeps what it has and reads no more.
LEMMA FailureRead ==
  ASSUME NEW p, NEW m, Ready(p, m)
  PROVE  /\ failure \in Seq(Nat) /\ NoNul(failure)
         /\ TakeAll(p, failure) \in Parser /\ ~TakeAll(p, failure).ok
         /\ TakeAll(p, failure).msg = m
<1>1. PICK f \in Field, l \in Nat : Reads(p, m, "header", 0, "tag", f, l)
  BY DEF Ready, AtTag
<1>2. TakeAll(p, failure) = Take[p][102]
  <2> DEFINE b == 102
  <2>1. b \in Nat /\ 0 \in Nat
    OBVIOUS
  <2> HIDE DEF b
  <2>2. TakeAll(p, <<b>>) = Take[p][b]
    BY <2>1, TakeFew
  <2> QED
    BY <2>2 DEF failure, b
<1>3. FieldWithTag("header", 102) = {}
  BY DEF FieldWithTag, HeaderCase
<1>4. Take[p][102] = Within(p, TakeTag(p, 102))
  BY <1>1, TakeIs DEF Reads
<1>5. Within(p, TakeTag(p, 102)) = [p EXCEPT !.ok = FALSE]
  BY <1>1, <1>3 DEF Reads, Within, TakeTag
<1>6. /\ [p EXCEPT !.ok = FALSE] \in Parser /\ ~[p EXCEPT !.ok = FALSE].ok
      /\ [p EXCEPT !.ok = FALSE].msg = m
  BY <1>1 DEF Reads, Parser
<1>7. failure \in Seq(Nat) /\ NoNul(failure)
  <2>1. failure \in Seq(Nat) /\ Len(failure) = 1 /\ failure[1] = 102
    BY DEF failure
  <2> HIDE DEF failure
  <2> QED
    BY <2>1 DEF NoNul
<1> QED
  BY <1>2, <1>4, <1>5, <1>6, <1>7

\* The code, on its own or behind other codes.
LEMMA CodeRead ==
  ASSUME NEW p, NEW m \in {Empty, CodeMessage}, Ready(p, m)
  PROVE  /\ NoNul(auth_code_packet(uniqueauthcode))
         /\ auth_code_packet(uniqueauthcode) \in Seq(Nat)
         /\ Ready(TakeAll(p, auth_code_packet(uniqueauthcode)), CodeMessage)
<1> DEFINE v == uniqueauthcode
           ab == <<26, Len(v)>>
<1>1. v \in Seq(Nat) /\ v # << >> /\ NoNul(v) /\ Len(v) \in Nat
  <2>1. v \in Seq(Nat) /\ Len(v) = 1 /\ v[1] = 117 /\ v # << >>
    BY DEF uniqueauthcode
  <2> HIDE DEF v
  <2> QED
    BY <2>1 DEF NoNul
<1>2. PICK f0 \in Field, l0 \in Nat : Reads(p, m, "header", 0, "tag", f0, l0)
  BY DEF Ready, AtTag
<1>3. "auth_code" \in FieldWithTag("header", 26) /\ "auth_code" \in StringField
      /\ "auth_code" \in Field
  BY Kinds DEF FieldWithTag, HeaderCase
<1> HIDE DEF v
<1>4. auth_code_packet(v) = ab \o v
  BY <1>1, PacketBytes
<1>5. NoNul(ab \o v)
  <2>1. 26 \in Nat /\ 26 # 0
    OBVIOUS
  <2>2. v # << >> => NoNul(<<26, Len(v)>> \o v)
    BY <1>1, <2>1, StringCut
  <2> QED
    BY <1>1, <2>2
<1>6. Reads(TakeAll(p, ab \o v), WithString(m, "auth_code", v), "header", 0,
            "tag", "auth_code", Len(v) - Len(v))
  <2>1. \A w \in Seq(Nat) :
          Len(w) <= Len(v) =>
            Reads(TakeAll(p, ab \o w), WithString(m, "auth_code", w),
                  Around("header", 0, 2 + Len(w)), Room(0, 2 + Len(w)),
                  IF Len(w) = Len(v) THEN "tag" ELSE "bytes", "auth_code",
                  Len(v) - Len(w))
    BY <1>1, <1>2, <1>3, HeaderRoom, ReadsString
  <2>2. Len(v) <= Len(v) /\ 2 + Len(v) \in Nat
    BY <1>1
  <2>3. Reads(TakeAll(p, ab \o v), WithString(m, "auth_code", v),
              Around("header", 0, 2 + Len(v)), Room(0, 2 + Len(v)),
              IF Len(v) = Len(v) THEN "tag" ELSE "bytes", "auth_code",
              Len(v) - Len(v))
    BY <1>1, <2>1, <2>2, Zenon
  <2>4. (IF Len(v) = Len(v) THEN "tag" ELSE "bytes") = "tag"
    OBVIOUS
  <2> QED
    BY <2>2, <2>3, <2>4, HeaderRoom
<1>7. WithString(m, "auth_code", v) = CodeMessage
  <2>1. WithString(Empty, "auth_code", v) = CodeMessage
    BY MessagesSent DEF v
  <2>2. WithString(CodeMessage, "auth_code", v) = CodeMessage
    <3>1. /\ CodeMessage \in Message /\ "auth_code" \in CodeMessage.has
          /\ CodeMessage.str["auth_code"] = v
      BY MessagesSent DEF Whole, v
    <3> QED
      BY <1>1, <1>3, <3>1, WithStringIs
  <2> QED
    BY <2>1, <2>2
<1>8. Ready(TakeAll(p, ab \o v), CodeMessage)
  <2>1. Len(v) - Len(v) \in Nat
    BY <1>1
  <2> QED
    BY <1>3, <1>6, <1>7, <2>1 DEF Ready, AtTag
<1>9. ab \o v \in Seq(Nat)
  BY <1>1, <1>4, PacketTypes
<1> QED
  BY <1>4, <1>5, <1>8, <1>9 DEF v

\* A yes, whatever yes was read before it.
LEMMA YesRead ==
  ASSUME NEW p, NEW m \in {Empty, YesMessage}, Ready(p, m)
  PROVE  /\ NoNul(connected_packet(TRUE)) /\ connected_packet(TRUE) \in Seq(Nat)
         /\ Ready(TakeAll(p, connected_packet(TRUE)), YesMessage)
<1> DEFINE f == "connected_packet"
           g == "connected"
           ab == <<18, 2>>
           cd == <<8, 1>>
           p1 == TakeAll(p, ab)
           p2 == TakeAll(p1, cd)
           m1 == WithField(m, f)
<1>1. PICK f0 \in Field, l0 \in Nat : Reads(p, m, "header", 0, "tag", f0, l0)
  BY DEF Ready, AtTag
<1>2. /\ f \in FieldWithTag("header", 18) /\ f \notin StringField
      /\ g \in FieldWithTag("connected_packet", 8) /\ g \in NumberField
      /\ g \in Field /\ 8 \in Nat /\ 18 \in Nat /\ 1 \in Nat /\ 2 \in Nat
  BY Kinds DEF FieldWithTag, HeaderCase, ConnectedCase
<1>3. ab \in Seq(Nat) /\ cd \in Seq(Nat) /\ NoNul(ab) /\ NoNul(cd)
  <2>1. ab \in Seq(Nat) /\ Len(ab) = 2 /\ ab[1] = 18 /\ ab[2] = 2
    OBVIOUS
  <2>2. cd \in Seq(Nat) /\ Len(cd) = 2 /\ cd[1] = 8 /\ cd[2] = 1
    OBVIOUS
  <2> HIDE DEF ab, cd
  <2>3. \A i \in 1 .. 2 : i = 1 \/ i = 2
    OBVIOUS
  <2> QED
    BY <2>1, <2>2, <2>3 DEF NoNul
<1>4. connected_packet(TRUE) = ab \o cd
  BY PacketBytes
<1>5. Reads(p1, m1, f, 2, "tag", f, l0)
  <2>1. Reads(p1, m1, IF 2 = 0 THEN "header" ELSE f, 2, "tag", f, l0)
    BY <1>1, <1>2, ReadsMessage
  <2> QED
    BY <2>1
<1>6. Reads(p2, WithNumber(m1, g, 1), "header", 0, "tag", g, l0)
  <2> DEFINE room == 2
             tag == 8
             v == 1
  <2>1. Encloses(f, room) /\ tag \in Nat /\ v \in Nat /\ (room = 0 \/ room >= 2)
    BY DEF Encloses
  <2>2. Around(f, room, 2) = "header" /\ Room(room, 2) = 0
    BY DEF Around, Room
  <2>3. Reads(p1, m1, f, room, "tag", f, l0) /\ g \in FieldWithTag(f, tag)
        /\ g \in NumberField
    BY <1>2, <1>5
  <2>4. p2 = TakeAll(p1, <<tag, v>>)
    OBVIOUS
  <2> HIDE DEF p1, p2, m1, f, g, room, tag, v
  <2>5. Reads(TakeAll(p1, <<tag, v>>), WithNumber(m1, g, v), Around(f, room, 2),
              Room(room, 2), "tag", g, l0)
    BY <2>1, <2>3, ReadsNumber
  <2> QED
    BY <2>2, <2>4, <2>5 DEF v
<1>7. WithNumber(m1, g, 1) = YesMessage
  <2>1. WithNumber(WithField(Empty, f), g, 1) = YesMessage
    BY MessagesSent
  <2>2. WithNumber(WithField(YesMessage, f), g, 1) = YesMessage
    <3> DEFINE y == YesMessage
    <3>1. /\ y = [has |-> y.has, str |-> y.str, num |-> y.num]
          /\ y.has = {g, f} /\ y.num \in [NumberField -> Nat] /\ y.num[g] = 1
      BY MessagesSent, MessageFields DEF Whole, Message
    <3> HIDE DEF y
    <3>2. [y.num EXCEPT ![g] = 1] = y.num
      BY <1>2, <3>1
    <3>3. y.has \cup {f} \cup {g} = y.has
      BY <3>1
    <3>4. WithNumber(WithField(y, f), g, 1) = y
      BY <3>1, <3>2, <3>3 DEF WithNumber, WithField
    <3> QED
      BY <3>4 DEF y
  <2> QED
    BY <2>1, <2>2
<1>8. Ready(p2, YesMessage)
  <2> HIDE DEF p2, m1, g
  <2>1. g \in Field /\ l0 \in Nat
    BY <1>1, <1>2
  <2> QED
    BY <1>6, <1>7, <2>1 DEF Ready, AtTag
<1> HIDE DEF ab, cd
<1>9. TakeAll(p, ab \o cd) = p2
  BY <1>3, TakeAllConcat
<1>10. NoNul(ab \o cd)
  BY <1>3, NulConcat
<1>11. connected_packet(TRUE) \in Seq(Nat)
  BY PacketTypes
<1> QED
  BY <1>4, <1>8, <1>9, <1>10, <1>11

\* A no, of which the 0 byte is cut off.
LEMMA NoRead ==
  ASSUME NEW p, NEW m, Ready(p, m)
  PROVE  /\ connected_packet(FALSE) \in Seq(Nat) /\ ~NoNul(connected_packet(FALSE))
         /\ UpToNul(connected_packet(FALSE)) \in Seq(Nat)
         /\ \E f \in Field, l \in Nat :
              Reads(TakeAll(p, UpToNul(connected_packet(FALSE))),
                    WithField(m, "connected_packet"), "header", 0, "length", f, l)
<1>1. PICK f0 \in Field, l0 \in Nat : Reads(p, m, "header", 0, "tag", f0, l0)
  BY DEF Ready, AtTag
<1> DEFINE f == "connected_packet"
           a == <<18>>
<1>2. /\ f \in FieldWithTag("header", 18) /\ f \notin StringField
      /\ f \in Field /\ 18 \in Nat /\ 0 \in Nat
  BY Kinds DEF FieldWithTag, HeaderCase
<1>3. ~NoNul(<<18, 0>>) /\ UpToNul(<<18, 0>>) = a
  <2>1. << >> \in Seq(Nat) /\ NoNul(<< >>) /\ 18 # 0
    BY DEF NoNul
  <2> QED
    BY <1>2, <2>1, StringCut
<1>4. Reads(TakeAll(p, a), WithField(m, f), "header", 0, "length", f, l0)
  BY <1>1, <1>2, ReadsMessage
<1>5. a \in Seq(Nat) /\ connected_packet(FALSE) = <<18, 0>>
      /\ connected_packet(FALSE) \in Seq(Nat)
  <2>1. a \in Seq(Nat)
    OBVIOUS
  <2> QED
    BY <2>1, PacketBytes, PacketTypes
<1> HIDE DEF a, f
<1>6. \E g \in Field, l \in Nat :
        Reads(TakeAll(p, a), WithField(m, f), "header", 0, "length", g, l)
  BY <1>1, <1>2, <1>4
<1> QED
  BY <1>3, <1>5, <1>6 DEF f

\* The game server has the code that the client sent, empty or not.
LEMMA CodeReceived ==
  ASSUME NEW v \in {<< >>, uniqueauthcode}
  PROVE  ParseFromString(Empty, UpToNul(auth_code_packet(v))).str["auth_code"] = v
<1> DEFINE s == auth_code_packet(v)
           r == Reading(Empty)
<1>1. CASE v = uniqueauthcode
  <2>1. NoNul(s) /\ s \in Seq(Nat) /\ Ready(TakeAll(r, s), CodeMessage)
    BY <1>1, ReadyAtStart, CodeRead
  <2>2. UpToNul(s) = s
    BY <2>1, NoNulKept
  <2>3. ParseFromString(Empty, s) = TakeAll(r, s).msg
    BY <2>1, EmptyWhole, ParseWhole
  <2>4. TakeAll(r, s).msg = CodeMessage
    BY <2>1 DEF Ready, AtTag, Reads
  <2> QED
    BY <1>1, <2>2, <2>3, <2>4, MessagesSent
<1>2. CASE v = << >>
  <2> DEFINE e == << >>
             a == <<26>>
  <2>1. e \in Seq(Nat) /\ NoNul(e) /\ a \in Seq(Nat) /\ 26 \in Nat /\ 26 # 0
        /\ Len(e) = 0
    BY DEF NoNul
  <2>2. e # << >> \/ (<<26, Len(e)>> \o e = <<26, 0>> /\ UpToNul(<<26, 0>>) = a)
    BY <2>1, StringCut
  <2>3. s = <<26, Len(e)>> \o e
    BY <1>2, <2>1, PacketBytes
  <2>4. UpToNul(s) = a
    BY <2>2, <2>3
  <2>5. ParseFromString(Empty, a) = TakeAll(r, a).msg
    BY <2>1, EmptyWhole, ParseWhole
  <2>6. TakeAll(r, a).msg = WithField(Empty, "auth_code")
    <3>1. PICK f0 \in Field, l0 \in Nat : Reads(r, Empty, "header", 0, "tag", f0, l0)
      BY ReadyAtStart DEF Ready, AtTag
    <3>2. "auth_code" \in FieldWithTag("header", 26) /\ "auth_code" \in StringField
      BY Kinds DEF FieldWithTag, HeaderCase
    <3> HIDE DEF r
    <3>3. Reads(TakeAll(r, a), WithField(Empty, "auth_code"), Around("header", 0, 1),
                Room(0, 1), "length", "auth_code", l0)
      BY <2>1, <3>1, <3>2, HeaderRoom, ReadsString
    <3> QED
      BY <3>3 DEF Reads
  <2>7. WithField(Empty, "auth_code").str["auth_code"] = e
    BY EmptyIs, Kinds DEF WithField
  <2> QED
    BY <1>2, <2>4, <2>5, <2>6, <2>7
<1> QED
  BY <1>1, <1>2

\* The login that a client sends.
LoginMessage(u, p) ==
  SetNumber(SetString(SetString(SetMessage(Empty, "login_packet"),
    "username", u), "password", p), "version", 1)

LEMMA LoginSent ==
  ASSUME NEW u \in Seq(Nat), NEW p \in Seq(Nat)
  PROVE  /\ Whole(LoginMessage(u, p))
         /\ LoginMessage(u, p).has = {"login_packet", "username", "password", "version"}
         /\ LoginMessage(u, p).str["username"] = u
         /\ LoginMessage(u, p).str["password"] = p
         /\ LoginMessage(u, p).num["version"] = 1
         /\ login_packet(u, p, 1) = SerializeToString(LoginMessage(u, p))
<1> DEFINE m1 == SetMessage(Empty, "login_packet")
           m2 == SetString(m1, "username", u)
           m3 == SetString(m2, "password", p)
           m4 == SetNumber(m3, "version", 1)
           one == 1
<1>1. /\ "username" \in StringField /\ "password" \in StringField
      /\ "version" \in NumberField /\ one \in Nat
  BY Kinds
<1>2. Whole(m1) /\ m1.has = Empty.has \cup {"login_packet"}
  BY EmptyWhole, SetMessageWhole
<1>3. m4 = LoginMessage(u, p) /\ login_packet(u, p, 1) = SerializeToString(m4)
  BY DEF login_packet, LoginMessage
<1>4. m4 = SetNumber(m3, "version", one)
  OBVIOUS
<1> HIDE DEF m1, m4, one
<1>5. /\ Whole(m2) /\ m2.has = m1.has \cup {"username"} \cup Parent("username")
      /\ m2.str = [m1.str EXCEPT !["username"] = u]
  BY <1>1, <1>2, SetStringWhole
<1> HIDE DEF m2
<1>6. /\ Whole(m3) /\ m3.has = m2.has \cup {"password"} \cup Parent("password")
      /\ m3.str = [m2.str EXCEPT !["password"] = p]
  BY <1>1, <1>5, SetStringWhole
<1> HIDE DEF m3
<1>7. /\ Whole(m4) /\ m4.has = m3.has \cup {"version"} \cup Parent("version")
      /\ m4.num = [m3.num EXCEPT !["version"] = one] /\ m4.str = m3.str
  BY <1>1, <1>4, <1>6, SetNumberWhole
<1>8. m4.has = {"login_packet", "username", "password", "version"}
  <2>1. Empty.has = {}
    BY EmptyIs
  <2>2. /\ Parent("username") = {"login_packet"} /\ Parent("password") = {"login_packet"}
        /\ Parent("version") = {"login_packet"}
    BY Parents
  <2>3. m1.has = {"login_packet"}
    BY <1>2, <2>1
  <2>4. m2.has = {"login_packet", "username"}
    BY <1>5, <2>2, <2>3
  <2>5. m3.has = {"login_packet", "username", "password"}
    BY <1>6, <2>2, <2>4
  <2> QED
    BY <1>7, <2>2, <2>5
<1>9. m4.str["username"] = u /\ m4.str["password"] = p
  <2>1. m1.str \in [StringField -> Seq(Nat)] /\ m2.str \in [StringField -> Seq(Nat)]
    BY <1>2, <1>5, MessageFields DEF Whole
  <2>2. m2.str["username"] = u
    BY <1>1, <1>5, <2>1
  <2>3. m3.str["password"] = p /\ m3.str["username"] = m2.str["username"]
    BY <1>1, <1>6, <2>1
  <2> QED
    BY <1>7, <2>2, <2>3
<1>10. m4.num["version"] = one
  <2>1. m3.num \in [NumberField -> Nat]
    BY <1>6, MessageFields DEF Whole
  <2> QED
    BY <1>1, <1>7, <2>1
<1> QED
  BY <1>3, <1>7, <1>8, <1>9, <1>10 DEF one

LEMMA LoginPacketBytes ==
  ASSUME NEW u \in Seq(Nat), NEW p \in Seq(Nat)
  PROVE  /\ LoginSize(LoginMessage(u, p)) = (2 + Len(u)) + (2 + Len(p)) + 2
         /\ login_packet(u, p, 1) =
              <<10, LoginSize(LoginMessage(u, p))>>
                \o ((<<18, Len(u)>> \o u) \o (<<26, Len(p)>> \o p) \o <<32, 1>>)
<1> DEFINE m == LoginMessage(u, p)
           n == LoginSize(m)
           e == << >>
           s1 == <<18, Len(u)>> \o u
           s2 == <<26, Len(p)>> \o p
           s3 == <<32, 1>>
           ab == <<10, n>>
           t == ab \o (s1 \o s2 \o s3)
<1>1. /\ m \in Message /\ m.has = {"login_packet", "username", "password", "version"}
      /\ m.str["username"] = u /\ m.str["password"] = p /\ m.num["version"] = 1
      /\ login_packet(u, p, 1) = SerializeToString(m)
  BY LoginSent DEF Whole
<1>2. Len(u) \in Nat /\ Len(p) \in Nat /\ e \in Seq(Nat)
  OBVIOUS
<1> HIDE DEF m
<1>3. /\ StringBytes(m, 18, "username") = s1 /\ StringBytes(m, 26, "password") = s2
      /\ NumberBytes(m, 32, "version") = s3
  BY <1>1 DEF StringBytes, NumberBytes
<1>4. /\ StringSize(m, "username") = 2 + Len(u) /\ StringSize(m, "password") = 2 + Len(p)
      /\ NumberSize(m, "version") = 2
  BY <1>1 DEF StringSize, NumberSize
<1>5. n = (2 + Len(u)) + (2 + Len(p)) + 2
  BY <1>4 DEF LoginSize
<1>6. LoginBytes(m) = s1 \o s2 \o s3
  BY <1>3 DEF LoginBytes
<1>7. LoginPart(m) = t
  BY <1>1, <1>6 DEF LoginPart
<1>8. ConnectedPart(m) = e /\ CodePart(m) = e
  BY <1>1 DEF ConnectedPart, CodePart, StringBytes
<1> HIDE DEF t, e
<1>9. t \in Seq(Nat) /\ SerializeToString(m) = t \o e \o e
  BY <1>1, <1>7, <1>8, Parts
<1>10. t \o e \o e = t
  <2>1. t \o e = t
    BY <1>9 DEF e
  <2> QED
    BY <2>1
<1>11. login_packet(u, p, 1) = t
  BY <1>1, <1>9, <1>10
<1> QED
  BY <1>5, <1>11 DEF t, m

Joins(s, t, u) == (s \o t) \o u = s \o (t \o u)

LEMMA JoinedThrice ==
  ASSUME NEW S, NEW s \in Seq(S), NEW t \in Seq(S), NEW u \in Seq(S)
  PROVE  Joins(s, t, u)
BY ConcatAssociative DEF Joins

\* The auth server has the user name that was typed, and the password behind
\* a user name that is not empty.
LEMMA LoginReceived ==
  ASSUME NEW u \in Seq(Nat), NoNul(u), NEW p \in Seq(Nat), NoNul(p), NEW h,
         h = ParseFromString(Empty, UpToNul(login_packet(u, p, 1)))
  PROVE  h.str["username"] = u /\ (u # << >> => h.str["password"] = p)
<1> DEFINE m == LoginMessage(u, p)
           n == LoginSize(m)
           r == Reading(Empty)
           s == login_packet(u, p, 1)
           s1 == <<18, Len(u)>> \o u
           s2 == <<26, Len(p)>> \o p
           s3 == <<32, 1>>
           ab == <<10, n>>
           f == "login_packet"
<1>1. /\ m \in Message /\ m.has = {f, "username", "password", "version"} /\ Whole(m)
      /\ m.str["username"] = u /\ m.str["password"] = p /\ m.num["version"] = 1
      /\ s = SerializeToString(m)
  BY LoginSent DEF Whole
<1>2. /\ s = ab \o (s1 \o s2 \o s3) /\ n \in Nat /\ n > 0 /\ n >= 2 + Len(u)
      /\ n = (2 + Len(u)) + (2 + Len(p)) + 2 /\ Len(u) \in Nat /\ Len(p) \in Nat
  <2>1. Len(u) \in Nat /\ Len(p) \in Nat
    OBVIOUS
  <2>2. n = (2 + Len(u)) + (2 + Len(p)) + 2
    BY LoginPacketBytes, Zenon
  <2>3. s = ab \o (s1 \o s2 \o s3)
    BY LoginPacketBytes, Zenon
  <2> HIDE DEF n
  <2>4. n \in Nat /\ n > 0 /\ n >= 2 + Len(u)
    BY <2>1, <2>2
  <2> HIDE DEF ab, s1, s2, s3, s
  <2> QED
    BY <2>1, <2>2, <2>3, <2>4
<1>3. s \in Seq(Nat)
  BY PacketTypes
<1>4. /\ ab \in Seq(Nat) /\ NoNul(ab) /\ s3 \in Seq(Nat) /\ NoNul(s3)
      /\ s1 \in Seq(Nat) /\ s2 \in Seq(Nat) /\ s1 \o s2 \in Seq(Nat)
      /\ s1 \o s2 \o s3 \in Seq(Nat)
  <2> HIDE DEF n
  <2>1. ab \in Seq(Nat) /\ Len(ab) = 2 /\ ab[1] = 10 /\ ab[2] = n
    BY <1>2
  <2>2. s3 \in Seq(Nat) /\ Len(s3) = 2 /\ s3[1] = 32 /\ s3[2] = 1
    OBVIOUS
  <2>3. \A i \in 1 .. 2 : i = 1 \/ i = 2
    OBVIOUS
  <2>4. s1 \in Seq(Nat) /\ s2 \in Seq(Nat)
    <3>1. <<18, Len(u)>> \in Seq(Nat) /\ <<26, Len(p)>> \in Seq(Nat)
      OBVIOUS
    <3> QED
      BY <3>1, ConcatProperties
  <2> HIDE DEF ab, s1, s2, s3
  <2>5. NoNul(ab) /\ NoNul(s3)
    BY <1>2, <2>1, <2>2, <2>3 DEF NoNul
  <2>6. s1 \o s2 \in Seq(Nat) /\ s1 \o s2 \o s3 \in Seq(Nat)
    BY <2>2, <2>4, ConcatProperties
  <2> QED
    BY <2>1, <2>2, <2>4, <2>5, <2>6
<1>5. /\ UpToNul(s) \in Seq(Nat) /\ h = TakeAll(r, UpToNul(s)).msg
      /\ Whole(h)
  BY <1>3, UpToNulIs, ReceivedWhole
<1>6. Fragment(h, m)
  <2>1. Fragments(r, s, m)
    BY <1>1, ReadsWhole
  <2>2. CString(s) \in 0 .. Len(s)
    BY <1>3, UpToNulIs
  <2> QED
    BY <1>5, <2>1, <2>2 DEF Fragments, UpToNul
<1> HIDE DEF m, n, r, s
<1>7. ASSUME NEW g \in StringField, m.str[g] = << >> PROVE h.str[g] = << >>
  <2>1. CASE g \notin h.has
    BY <1>5, <2>1 DEF Whole, Clean
  <2>2. CASE g \in h.has
    <3> DEFINE v == h.str[g]
    <3>1. v \in Seq(Nat) /\ Len(v) \in Nat
      BY <1>5, MessageFields DEF Whole
    <3>2. Len(v) <= Len(m.str[g]) /\ Len(m.str[g]) = 0
      BY <1>6, <1>7, <2>2 DEF Fragment
    <3> HIDE DEF v
    <3> QED
      BY <3>1, <3>2 DEF v
  <2> QED
    BY <2>1, <2>2
<1>8. CASE u = << >>
  BY <1>1, <1>7, <1>8, Kinds
<1> DEFINE p1 == TakeAll(r, ab)
           p2 == TakeAll(p1, s1)
<1>9. /\ AtTag(p1, Partly(m, {f}), f, n) /\ Encloses(f, n)
  <2>1. AtTag(r, Partly(m, {}), "header", 0)
    BY <1>1, ReadyAtStart, PartlyEmpty DEF Ready, r
  <2>2. f \in FieldWithTag("header", 10) /\ f \notin StringField
    BY Kinds DEF FieldWithTag, HeaderCase
  <2>3. {} \in SUBSET Field /\ {} \cup {f} = {f} /\ f \in m.has
    BY <1>1
  <2> DEFINE tag == 10
             none == {}
  <2>5. p1 = TakeAll(r, <<tag, n>>) /\ tag \in Nat /\ f \in FieldWithTag("header", tag)
    BY <2>2
  <2>6. AtTag(r, Partly(m, none), "header", 0) /\ none \in SUBSET Field
        /\ m \in Message /\ n \in Nat
    BY <1>1, <1>2, <2>1, <2>3
  <2> HIDE DEF p1, f, tag, none
  <2>7. /\ AtTag(TakeAll(r, <<tag, n>>), Partly(m, none \cup {f}),
                 IF n = 0 THEN "header" ELSE f, n)
        /\ Encloses(IF n = 0 THEN "header" ELSE f, n)
    BY <2>2, <2>3, <2>5, <2>6, NestedStarts
  <2>4. /\ AtTag(p1, Partly(m, {} \cup {f}), IF n = 0 THEN "header" ELSE f, n)
        /\ Encloses(IF n = 0 THEN "header" ELSE f, n)
    BY <2>5, <2>7 DEF none
  <2> QED
    BY <1>2, <2>3, <2>4
<1> HIDE DEF p1
<1>10. AtTag(p2, Partly(m, {f} \cup {"username"}), Around(f, n, 2 + Len(u)),
             Room(n, 2 + Len(u)))
  <2>1. "username" \in FieldWithTag(f, 18) /\ "username" \in StringField
        /\ {f} \in SUBSET Field /\ "username" \notin {f} /\ "username" \in m.has
    BY <1>1, Kinds DEF FieldWithTag, LoginCase
  <2>2. StringBytes(m, 18, "username") = s1 /\ StringSize(m, "username") = 2 + Len(u)
    BY <1>1 DEF StringBytes, StringSize
  <2> HIDE DEF s1, f
  <2>3. Written(p1, StringBytes(m, 18, "username"), m, {f} \cup {"username"}, f, n,
                StringSize(m, "username"))
    BY <1>1, <1>2, <1>9, <2>1, <2>2, StringPiece
  <2> QED
    BY <2>2, <2>3 DEF Written
<1>13. /\ u # << >> => NoNul(s1)
       /\ p # << >> => NoNul(s2)
       /\ p = << >> => ~NoNul(s2) /\ UpToNul(s2) = <<26>>
  <2> DEFINE a == 18
             b == 26
  <2>1. a \in Nat /\ b \in Nat /\ a # 0 /\ b # 0
    OBVIOUS
  <2>2. s1 = <<a, Len(u)>> \o u /\ s2 = <<b, Len(p)>> \o p /\ <<b>> = <<26>>
    OBVIOUS
  <2> HIDE DEF a, b, s1, s2
  <2>3. u # << >> => NoNul(<<a, Len(u)>> \o u)
    BY <2>1, StringCut
  <2>4. p # << >> => NoNul(<<b, Len(p)>> \o p)
    BY <2>1, StringCut
  <2>5. p = << >> => /\ <<b, Len(p)>> \o p = <<b, 0>>
                     /\ ~NoNul(<<b, 0>>) /\ UpToNul(<<b, 0>>) = <<b>>
    BY <2>1, StringCut
  <2> QED
    BY <2>2, <2>3, <2>4, <2>5
<1>11. CASE u # << >> /\ p = << >>
  <2> DEFINE a == <<26>>
             A == Around(f, n, 2 + Len(u))
             R == Room(n, 2 + Len(u))
  <2>1. NoNul(s1) /\ NoNul(ab \o s1) /\ ab \o s1 \in Seq(Nat)
    <3>1. NoNul(s1)
      BY <1>11, <1>13
    <3> HIDE DEF ab, s1
    <3> QED
      BY <1>4, <3>1, NulConcat, ConcatProperties
  <2>2. ~NoNul(s2) /\ UpToNul(s2) = a
    BY <1>11, <1>13
  <2>3. a \in Seq(Nat)
    OBVIOUS
  <2>4. UpToNul(s) = (ab \o s1) \o a
    <3> HIDE DEF ab, s1, s2, s3, a
    <3>1. ~NoNul(s1 \o s2) /\ UpToNul(s1 \o s2) = s1 \o a
      BY <1>4, <2>1, <2>2, NulConcat
    <3>2. UpToNul(s1 \o s2 \o s3) = s1 \o a
      BY <1>4, <3>1, NulConcat
    <3>3. UpToNul(ab \o (s1 \o s2 \o s3)) = ab \o UpToNul(s1 \o s2 \o s3)
      BY <1>4, NulConcat
    <3>5. UpToNul(s) = ab \o (s1 \o a)
      BY <1>2, <3>2, <3>3, Zenon
    <3>4. (ab \o s1) \o a = ab \o (s1 \o a)
      <4>1. Joins(ab, s1, a)
        BY <1>4, <2>3, JoinedThrice
      <4> QED
        BY <4>1, Zenon DEF Joins
    <3> QED
      BY <3>4, <3>5
  <2>5. h = TakeAll(p2, a).msg
    <3> HIDE DEF ab, s1, a, p2
    <3>1. TakeAll(r, (ab \o s1) \o a) = TakeAll(TakeAll(r, ab \o s1), a)
      BY <2>1, <2>3, TakeAllConcat
    <3>2. TakeAll(r, ab \o s1) = TakeAll(TakeAll(r, ab), s1)
      BY <1>4, TakeAllConcat
    <3> QED
      BY <1>5, <2>4, <3>1, <3>2 DEF p1, p2
  <2>6. PICK g \in Field, l \in Nat :
          Reads(p2, Partly(m, {f} \cup {"username"}), A, R, "tag", g, l)
    BY <1>10 DEF AtTag
  <2>7. R = 2 + 2 /\ A = f
    <3>1. Len(p) = 0
      BY <1>11
    <3> HIDE DEF n
    <3> QED
      BY <1>2, <3>1 DEF Around, Room
  <2>8. Encloses(A, R) /\ (R = 0 \/ R >= 2)
    BY <2>7 DEF Encloses
  <2>9. "password" \in FieldWithTag(A, 26) /\ "password" \in StringField
    BY <2>7, Kinds DEF FieldWithTag, LoginCase
  <2> DEFINE q == Partly(m, {f} \cup {"username"})
             e == << >>
             tag == 26
             w == "password"
  <2>10. Reads(TakeAll(p2, <<tag>>), WithField(q, w), Around(A, R, 1), Room(R, 1),
               "length", w, l)
    <3>1. e \in Seq(Nat) /\ Len(e) = 0 /\ tag \in Nat
      OBVIOUS
    <3>2. R = 0 \/ R >= 2 + Len(e)
      BY <2>8, <3>1
    <3>3. Reads(p2, q, A, R, "tag", g, l) /\ w \in FieldWithTag(A, tag)
          /\ w \in StringField
      BY <2>6, <2>9
    <3> HIDE DEF p2, A, R, q, e, tag, w
    <3> QED
      BY <2>8, <3>1, <3>2, <3>3, ReadsString
  <2>11. h = WithField(q, w)
    BY <2>5, <2>10 DEF Reads
  <2>12. h.str = q.str
    BY <2>11 DEF WithField
  <2>13. q.str["username"] = u
    <3>1. {f} \cup {"username"} \in SUBSET Field /\ "username" \in StringField
      BY Kinds
    <3>2. "username" \in ({f} \cup {"username"}) \cap m.has
      BY <1>1
    <3> DEFINE F == {f} \cup {"username"}
    <3>4. F \in SUBSET Field /\ "username" \in F \cap m.has /\ q = Partly(m, F)
      BY <3>1, <3>2
    <3> HIDE DEF F, q
    <3>5. \A g1 \in StringField :
            Partly(m, F).str[g1] = IF g1 \in F \cap m.has THEN m.str[g1] ELSE << >>
      BY <1>1, <3>4, PartlyIs
    <3>3. q.str["username"] = m.str["username"]
      BY <3>1, <3>4, <3>5
    <3> QED
      BY <1>1, <3>3
  <2>14. h.str["password"] = p
    BY <1>1, <1>7, <1>11, Kinds
  <2> QED
    BY <2>12, <2>13, <2>14
<1>12. CASE u # << >> /\ p # << >>
  <2>1. NoNul(s1) /\ NoNul(s2)
    BY <1>12, <1>13
  <2> HIDE DEF ab, s1, s2, s3
  <2>2. NoNul(s1 \o s2) /\ NoNul(s1 \o s2 \o s3) /\ NoNul(s)
    BY <1>2, <1>4, <2>1, NulConcat
  <2>3. h = TakeAll(r, s).msg
    BY <1>3, <1>5, <2>2, NoNulKept
  <2>4. h = m
    BY <1>1, <2>3, ReadsWhole DEF r
  <2> QED
    BY <1>1, <2>4
<1> QED
  BY <1>8, <1>11, <1>12

\* What the answers d of a server are read to.
Behind(d) == TakeAll(Reading(Empty), UpToNul(d))

\* The parser has m and waits for the next packet; has failed behind m; has m,
\* and the 0 byte that ends what it is given is behind it.
Waits(d, m) == NoNul(d) /\ Ready(Behind(d), m)
Stopped(d, m) ==
  NoNul(d) /\ Behind(d) \in Parser /\ ~Behind(d).ok /\ Behind(d).msg = m
Cut(d, m) == ~NoNul(d) /\ Behind(d).msg = m

LEMMA WaitsAtStart == Waits(<< >>, Empty)
<1> DEFINE e == << >>
<1>1. e \in Seq(Nat) /\ Len(e) = 0
  OBVIOUS
<1>2. TakeAll(Reading(Empty), e) = Reading(Empty)
  BY TakeAllNothing
<1> HIDE DEF e
<1>3. NoNul(e)
  BY <1>1 DEF NoNul
<1>4. UpToNul(e) = e
  BY <1>1, <1>3, NoNulKept
<1>5. Waits(e, Empty)
  BY <1>2, <1>3, <1>4, ReadyAtStart DEF Waits, Behind
<1> QED
  BY <1>5 DEF e

LEMMA BehindMore ==
  ASSUME NEW d \in Seq(Nat), NEW x \in Seq(Nat)
  PROVE  /\ NoNul(d) => Behind(d \o x) = TakeAll(Behind(d), UpToNul(x))
         /\ ~NoNul(d) => Behind(d \o x) = Behind(d)
<1>1. CASE NoNul(d)
  <2>1. UpToNul(d \o x) = d \o UpToNul(x) /\ UpToNul(d) = d /\ UpToNul(x) \in Seq(Nat)
    BY <1>1, NulConcat, NoNulKept, UpToNulIs
  <2>2. TakeAll(Reading(Empty), d \o UpToNul(x)) =
          TakeAll(TakeAll(Reading(Empty), d), UpToNul(x))
    BY <2>1, TakeAllConcat
  <2> QED
    BY <1>1, <2>1, <2>2 DEF Behind
<1>2. CASE ~NoNul(d)
  BY <1>2, NulConcat DEF Behind
<1> QED
  BY <1>1, <1>2

LEMMA StoppedMore ==
  ASSUME NEW d \in Seq(Nat), NEW m, Stopped(d, m), NEW x \in Seq(Nat), NoNul(x)
  PROVE  Stopped(d \o x, m)
<1>1. NoNul(d \o x)
  BY NulConcat DEF Stopped
<1>2. UpToNul(x) = x
  BY NoNulKept
<1>3. Behind(d \o x) = TakeAll(Behind(d), x)
  BY <1>2, BehindMore DEF Stopped
<1>4. TakeAll(Behind(d), x) = Behind(d)
  BY TakeAllFailed DEF Stopped
<1> QED
  BY <1>1, <1>3, <1>4 DEF Stopped

LEMMA CutMore ==
  ASSUME NEW d \in Seq(Nat), NEW m, Cut(d, m), NEW x \in Seq(Nat)
  PROVE  Cut(d \o x, m)
BY NulConcat, BehindMore DEF Cut

LEMMA FailureMore ==
  ASSUME NEW d \in Seq(Nat), NEW m, Waits(d, m)
  PROVE  Stopped(d \o failure, m)
<1>1. NoNul(d) /\ Ready(Behind(d), m)
  BY DEF Waits
<1>2. /\ failure \in Seq(Nat) /\ NoNul(failure)
      /\ TakeAll(Behind(d), failure) \in Parser
      /\ ~TakeAll(Behind(d), failure).ok /\ TakeAll(Behind(d), failure).msg = m
  BY <1>1, FailureRead
<1>3. NoNul(d \o failure) /\ UpToNul(failure) = failure
  BY <1>1, <1>2, NulConcat, NoNulKept
<1>4. Behind(d \o failure) = TakeAll(Behind(d), failure)
  BY <1>1, <1>2, <1>3, BehindMore
<1> QED
  BY <1>2, <1>3, <1>4 DEF Stopped

LEMMA CodeMore ==
  ASSUME NEW d \in Seq(Nat), NEW m \in {Empty, CodeMessage}, Waits(d, m)
  PROVE  Waits(d \o auth_code_packet(uniqueauthcode), CodeMessage)
<1> DEFINE x == auth_code_packet(uniqueauthcode)
<1>1. NoNul(d) /\ Ready(Behind(d), m)
  BY DEF Waits
<1>2. NoNul(x) /\ x \in Seq(Nat) /\ Ready(TakeAll(Behind(d), x), CodeMessage)
  BY <1>1, CodeRead
<1> HIDE DEF x
<1>3. NoNul(d \o x) /\ UpToNul(x) = x
  BY <1>1, <1>2, NulConcat, NoNulKept
<1>4. Behind(d \o x) = TakeAll(Behind(d), x)
  BY <1>1, <1>2, <1>3, BehindMore
<1>5. Waits(d \o x, CodeMessage)
  BY <1>2, <1>3, <1>4 DEF Waits
<1> QED
  BY <1>5 DEF x

LEMMA YesMore ==
  ASSUME NEW d \in Seq(Nat), NEW m \in {Empty, YesMessage}, Waits(d, m)
  PROVE  Waits(d \o connected_packet(TRUE), YesMessage)
<1> DEFINE x == connected_packet(TRUE)
<1>1. NoNul(d) /\ Ready(Behind(d), m)
  BY DEF Waits
<1>2. NoNul(x) /\ x \in Seq(Nat) /\ Ready(TakeAll(Behind(d), x), YesMessage)
  BY <1>1, YesRead
<1> HIDE DEF x
<1>3. NoNul(d \o x) /\ UpToNul(x) = x
  BY <1>1, <1>2, NulConcat, NoNulKept
<1>4. Behind(d \o x) = TakeAll(Behind(d), x)
  BY <1>1, <1>2, <1>3, BehindMore
<1>5. Waits(d \o x, YesMessage)
  BY <1>2, <1>3, <1>4 DEF Waits
<1> QED
  BY <1>5 DEF x

\* A no behind a yes leaves the yes.
LEMMA NoMore ==
  ASSUME NEW d \in Seq(Nat)
  PROVE  /\ Waits(d, Empty) => Cut(d \o connected_packet(FALSE), NoMessage)
         /\ Waits(d, YesMessage) => Cut(d \o connected_packet(FALSE), YesMessage)
<1> DEFINE x == connected_packet(FALSE)
           f == "connected_packet"
<1>1. ASSUME NEW m, Waits(d, m) PROVE Cut(d \o x, WithField(m, f))
  <2>1. NoNul(d) /\ Ready(Behind(d), m)
    BY <1>1 DEF Waits
  <2>2. /\ x \in Seq(Nat) /\ ~NoNul(x)
        /\ \E g \in Field, l \in Nat :
             Reads(TakeAll(Behind(d), UpToNul(x)), WithField(m, f),
                   "header", 0, "length", g, l)
    BY <2>1, NoRead
  <2> HIDE DEF x, f
  <2>3. ~NoNul(d \o x) /\ Behind(d \o x) = TakeAll(Behind(d), UpToNul(x))
    BY <2>1, <2>2, NulConcat, BehindMore
  <2>4. TakeAll(Behind(d), UpToNul(x)).msg = WithField(m, f)
    BY <2>2 DEF Reads
  <2> QED
    BY <2>3, <2>4 DEF Cut
<1>2. WithField(Empty, f) = NoMessage
  BY MessagesSent
<1>3. WithField(YesMessage, f) = YesMessage
  <2> DEFINE y == YesMessage
  <2>1. y = [has |-> y.has, str |-> y.str, num |-> y.num] /\ f \in y.has
    BY MessagesSent DEF Whole, Message
  <2> HIDE DEF y
  <2>2. y.has \cup {f} = y.has
    BY <2>1
  <2>3. WithField(y, f) = y
    BY <2>1, <2>2 DEF WithField
  <2> QED
    BY <2>3 DEF y
<1> QED
  BY <1>1, <1>2, <1>3

------------------------------------------------------------------------------
(* Who is let in, and who is refused.                                      *)

\* Some login was stored.
Coded == \E r \in auth_login : logged_in[r] = uniqueauthcode

\* What excuses the servers for refusing c.
Excuse(c) == c \in busy \/ ~Running("auth") \/ stack.client_n = "dontwait"

\* c may be refused, has earned a code, may be let in.
Wrong(c) == ~Right(c) \/ Excuse(c)
Got(c) == Right(c) /\ (Coded \/ Excuse(c))
Entitled(c) == (Right(c) /\ Coded) \/ (code[c] = << >> /\ ~Running("auth"))

AuthThread(c) ==
  LET th == thread["auth"][c]
  IN /\ th.pc = "none" => th.resp = << >>
     /\ th.pc \in {"check", "select", "answer", "update"} =>
          /\ th.header.str["username"] = typed[c].username
          /\ typed[c].username # << >> =>
               th.header.str["password"] = typed[c].password
     /\ th.pc \in {"select", "answer", "update"} =>
          (th.found = TRUE /\ Right(c)) \/ (th.found = FALSE /\ Wrong(c))
     /\ th.pc = "update" => th.found = TRUE
     /\ \/ th.resp = << >>
        \/ th.resp = failure /\ Wrong(c)
        \/ th.resp = auth_code_packet(uniqueauthcode) /\ Got(c)

GameThread(c) ==
  LET th == thread["game"][c]
  IN /\ th.pc = "none" => th.resp = << >>
     /\ th.pc \in {"check", "select", "answer", "update"} =>
          th.header.str["auth_code"] = code[c]
     /\ th.pc \in {"select", "answer", "update"} =>
          (th.found = TRUE /\ Entitled(c)) \/ (th.found = FALSE /\ Wrong(c))
     /\ \/ th.resp = << >>
        \/ th.resp = connected_packet(TRUE) /\ Entitled(c)
        \/ th.resp = connected_packet(FALSE) /\ Wrong(c)

\* What has been sent to c: a code only if c has earned one, a yes only if c
\* may be let in, and so on.
AuthStream(c) ==
  LET d == link["auth"][c].down
  IN \/ d = << >>
     \/ Waits(d, CodeMessage) /\ Got(c)
     \/ Stopped(d, Empty) /\ Wrong(c)
     \/ Stopped(d, CodeMessage) /\ Wrong(c) /\ Got(c)

GameStream(c) ==
  LET d == link["game"][c].down
  IN \/ Waits(d, Empty)
     \/ Waits(d, YesMessage) /\ Entitled(c)
     \/ Cut(d, YesMessage) /\ Entitled(c)
     \/ Cut(d, NoMessage) /\ Wrong(c)

Sent(c) ==
  /\ link["auth"][c].up \in
       {<< >>, login_packet(typed[c].username, typed[c].password, 1)}
  /\ link["game"][c].up \in {<< >>, auth_code_packet(code[c])}

Knows(c) ==
  /\ code[c] = << >> \/ (code[c] = uniqueauthcode /\ Got(c))
  /\ phase[c] = "code" \/ link["game"][c].state # "none" =>
       code[c] # << >> \/ ~Running("auth")
  /\ phase[c] = "in" => Entitled(c)
  /\ phase[c] \in {"failed", "refused"} => Wrong(c)

Informed(c) ==
  Sent(c) /\ Knows(c) /\ AuthThread(c) /\ GameThread(c) /\ AuthStream(c) /\ GameStream(c)

\* Of a client for whom garbage was parsed nothing is known.
LoginInv == FreshInv /\ \A c \in Client : c \in stray \/ Informed(c)

\* What was earned stays earned.
LEMMA Onward ==
  ASSUME Forward, NEW c, typed'[c] = typed[c]
  PROVE  /\ Coded => Coded' /\ (Excuse(c) => Excuse(c)')
         /\ (Right(c) => Right(c)') /\ (~Right(c) => ~Right(c)')
         /\ (Wrong(c) => Wrong(c)') /\ (Got(c) => Got(c)')
         /\ (~Running("auth") => ~Running("auth")')
         /\ code'[c] = code[c] => (Entitled(c) => Entitled(c)')
<1>1. Coded => Coded'
  BY DEF Coded, Forward
<1>2. ~Running("auth") => ~Running("auth")'
  BY DEF Forward, Server
<1>3. Excuse(c) => Excuse(c)'
  BY <1>2 DEF Excuse, Forward
<1>4. (Right(c) => Right(c)') /\ (~Right(c) => ~Right(c)')
  BY DEF Right
<1> QED
  BY <1>1, <1>2, <1>3, <1>4 DEF Wrong, Got, Entitled

LEMMA AuthThreadKept ==
  ASSUME Forward, NEW c, typed'[c] = typed[c], AuthThread(c),
         thread'["auth"][c] = thread["auth"][c]
  PROVE  AuthThread(c)'
BY Onward DEF AuthThread

LEMMA GameThreadKept ==
  ASSUME Forward, NEW c, typed'[c] = typed[c], code'[c] = code[c], GameThread(c),
         thread'["game"][c] = thread["game"][c]
  PROVE  GameThread(c)'
BY Onward DEF GameThread

LEMMA AuthStreamKept ==
  ASSUME Forward, NEW c, typed'[c] = typed[c], AuthStream(c),
         link'["auth"][c].down \in {<< >>, link["auth"][c].down}
  PROVE  AuthStream(c)'
<1>1. CASE link'["auth"][c].down = << >>
  BY <1>1 DEF AuthStream
<1>2. CASE link'["auth"][c].down = link["auth"][c].down
  BY <1>2, Onward DEF AuthStream, Waits, Stopped, Behind
<1> QED
  BY <1>1, <1>2

LEMMA GameStreamKept ==
  ASSUME Forward, NEW c, typed'[c] = typed[c], code'[c] = code[c], GameStream(c),
         link'["game"][c].down \in {<< >>, link["game"][c].down}
  PROVE  GameStream(c)'
<1>1. CASE link'["game"][c].down = << >>
  BY <1>1, WaitsAtStart DEF GameStream
<1>2. CASE link'["game"][c].down = link["game"][c].down
  BY <1>2, Onward DEF GameStream
<1> QED
  BY <1>1, <1>2

LEMMA KnowsKept ==
  ASSUME Forward, NEW c, typed'[c] = typed[c], code'[c] = code[c],
         phase'[c] = phase[c], Knows(c),
         link["game"][c].state = "none" => link'["game"][c].state = "none"
  PROVE  Knows(c)'
BY Onward DEF Knows

LEMMA OtherInformed ==
  ASSUME Forward, NEW d, Kept(d), Informed(d)
  PROVE  Informed(d)'
<1>1. /\ "auth" \in Server /\ "game" \in Server
      /\ link'["auth"][d] = link["auth"][d] /\ link'["game"][d] = link["game"][d]
      /\ thread'["auth"][d] = thread["auth"][d]
      /\ thread'["game"][d] = thread["game"][d]
      /\ phase'[d] = phase[d] /\ typed'[d] = typed[d] /\ code'[d] = code[d]
  BY DEF Kept, Server
<1>2. AuthThread(d)' /\ GameThread(d)' /\ AuthStream(d)' /\ GameStream(d)' /\ Knows(d)'
  BY <1>1, AuthThreadKept, GameThreadKept, AuthStreamKept, GameStreamKept, KnowsKept
     DEF Informed
<1>3. Sent(d)'
  BY <1>1 DEF Informed, Sent
<1> QED
  BY <1>2, <1>3 DEF Informed

LEMMA ReceivedIsBehind ==
  ASSUME TypeOK, NEW s \in Server, NEW c \in Client
  PROVE  /\ Received(s, c) = Behind(link[s][c].down).msg
         /\ link[s][c].down \in Seq(Nat)
BY LinkFields, ReceivedWhole DEF Received, Behind

LEMMA ReadyHas ==
  ASSUME NEW d, NEW m, Waits(d, m)
  PROVE  Behind(d).msg = m
BY DEF Waits, Ready, AtTag, Reads

\* A client that reads or ends sends nothing, and its threads go on.
LEMMA ClientInformed ==
  ASSUME TypeOK, NEW c \in Client, Informed(c), Forward, ClientChange(c),
         ClientReceded(link', c), code'[c] = code[c], Knows(c)'
  PROVE  Informed(c)'
<1>1. /\ thread' = thread /\ typed' = typed /\ "auth" \in Server /\ "game" \in Server
  BY DEF ClientChange, Server
<1>2. /\ link'["auth"][c].up = link["auth"][c].up
      /\ link'["game"][c].up = link["game"][c].up
      /\ link'["auth"][c].down \in {<< >>, link["auth"][c].down}
      /\ link'["game"][c].down \in {<< >>, link["game"][c].down}
  BY <1>1 DEF ClientReceded, Receded
<1>3. AuthThread(c)' /\ GameThread(c)' /\ AuthStream(c)' /\ GameStream(c)'
  BY <1>1, <1>2, AuthThreadKept, GameThreadKept, AuthStreamKept, GameStreamKept
     DEF Informed
<1>4. Sent(c)'
  BY <1>1, <1>2 DEF Informed, Sent
<1> QED
  BY <1>3, <1>4 DEF Informed

\* Receded: the game server's connection is opened by Join only.
LEMMA GameUnopened ==
  ASSUME NEW c \in Client, ClientReceded(link', c), link["game"][c].state = "none"
  PROVE  link'["game"][c].state = "none"
BY "game" \in Server DEF ClientReceded, Receded, Server

LEMMA LogInInforms ==
  ASSUME TypeOK, NEW c \in Client, Informed(c), Fresh(c), Forward,
         NEW t \in Typed, LogIn(c, t)
  PROVE  Informed(c)'
<1>1. /\ phase[c] = "login" /\ typed'[c] = t /\ code' = code /\ thread' = thread
      /\ link'["game"][c] = link["game"][c]
      /\ \/ /\ Running("auth") /\ phase'[c] = "auth"
            /\ link'["auth"][c] = Opened(login_packet(t.username, t.password, 1))
         \/ /\ ~Running("auth") /\ phase'[c] = "no server" /\ link' = link
  BY LogInStep
<1>2. /\ link["game"][c].state = "none"
      /\ link["game"][c].up = << >> /\ link["game"][c].down = << >>
      /\ link["auth"][c].up = << >> /\ link["auth"][c].down = << >>
      /\ thread["auth"][c].pc = "none" /\ thread["game"][c].pc = "none"
      /\ code[c] = << >>
  BY <1>1 DEF Fresh, Server
<1>3. thread["auth"][c].resp = << >> /\ thread["game"][c].resp = << >>
  BY <1>2 DEF Informed, AuthThread, GameThread
<1>4. AuthThread(c)' /\ GameThread(c)'
  BY <1>1, <1>2, <1>3 DEF AuthThread, GameThread
<1> DEFINE packet == login_packet(t.username, t.password, 1)
           e == << >>
<1>10. Opened(packet).up = packet /\ Opened(packet).down = e
  BY DEF Opened
<1>11. \/ link'["auth"][c] = Opened(packet)
       \/ link'["auth"][c].up = e /\ link'["auth"][c].down = e
  BY <1>1, <1>2
<1> HIDE DEF packet, e
<1>12. link'["auth"][c].down = e /\ link'["auth"][c].up \in {e, packet}
  BY <1>10, <1>11
<1>5. link'["auth"][c].down = << >>
  BY <1>12 DEF e
<1>6. AuthStream(c)'
  BY <1>5 DEF AuthStream
<1>7. GameStream(c)'
  BY <1>1, <1>2, WaitsAtStart DEF GameStream
<1>8. Sent(c)'
  <2>1. link'["auth"][c].up \in {<< >>, login_packet(t.username, t.password, 1)}
    BY <1>12 DEF e, packet
  <2> QED
    BY <1>1, <1>2, <2>1 DEF Sent
<1>9. Knows(c)'
  BY <1>1, <1>2 DEF Knows
<1> QED
  BY <1>4, <1>6, <1>7, <1>8, <1>9 DEF Informed

LEMMA GetCodeInforms ==
  ASSUME TypeOK, NEW c \in Client, Informed(c), Fresh(c), Forward, GetCode(c),
         c \notin stray'
  PROVE  Informed(c)'
<1> DEFINE pck == Received("auth", c)
           d == link["auth"][c].down
<1>1. /\ ClientChange(c) /\ ClientReceded(link', c)
      /\ phase[c] = "auth" /\ d # << >>
      /\ \/ "auth_code" \in pck.has /\ phase'[c] = "code" /\ code'[c] = pck.str["auth_code"]
         \/ "auth_code" \notin pck.has /\ phase'[c] = "failed" /\ code' = code
  BY GetCodeStep
<1>2. pck = Behind(d).msg /\ typed'[c] = typed[c]
  BY <1>1, ReceivedIsBehind DEF Server, ClientChange
<1>3. /\ link["game"][c].state = "none" /\ link'["game"][c].state = "none"
      /\ link["game"][c].up = << >> /\ link["game"][c].down = << >>
      /\ thread["game"][c].pc = "none" /\ thread["game"][c].resp = << >>
  <2>1. /\ link["game"][c].state = "none"
        /\ link["game"][c].up = << >> /\ link["game"][c].down = << >>
        /\ thread["game"][c].pc = "none"
    BY <1>1 DEF Fresh, Server
  <2> QED
    BY <1>1, <2>1, GameUnopened DEF Informed, GameThread
<1>4. \/ Waits(d, CodeMessage) /\ Got(c)
      \/ Stopped(d, Empty) /\ Wrong(c)
      \/ Stopped(d, CodeMessage) /\ Wrong(c) /\ Got(c)
  BY <1>1 DEF Informed, AuthStream
<1> HIDE DEF d, pck
<1>5. \/ pck = CodeMessage /\ Got(c)
      \/ pck = Empty /\ Wrong(c)
  BY <1>2, <1>4, ReadyHas DEF Stopped
<1>6. /\ "auth_code" \in CodeMessage.has /\ "auth_code" \notin Empty.has
      /\ CodeMessage.str["auth_code"] = uniqueauthcode /\ uniqueauthcode # << >>
  BY MessagesSent, EmptyIs DEF uniqueauthcode
<1>7. CASE pck = CodeMessage /\ Got(c)
  <2>1. phase'[c] = "code" /\ code'[c] = uniqueauthcode
    BY <1>1, <1>6, <1>7
  <2>2. Got(c)'
    BY <1>2, <1>7, Onward
  <2>3. Knows(c)'
    BY <1>6, <2>1, <2>2 DEF Knows
  <2>4. /\ thread' = thread
        /\ link'["game"][c].up = << >> /\ link'["game"][c].down = << >>
        /\ link'["auth"][c].up = link["auth"][c].up
        /\ link'["auth"][c].down \in {<< >>, link["auth"][c].down}
    BY <1>1, <1>3 DEF ClientChange, ClientReceded, Receded, Server
  <2>5. AuthThread(c)' /\ AuthStream(c)'
    BY <1>2, <2>4, AuthThreadKept, AuthStreamKept DEF Informed
  <2>6. GameThread(c)'
    BY <1>3, <2>4 DEF GameThread
  <2>7. GameStream(c)'
    BY <2>4, WaitsAtStart DEF GameStream
  <2>8. Sent(c)'
    BY <1>2, <2>4 DEF Informed, Sent
  <2> QED
    BY <2>3, <2>5, <2>6, <2>7, <2>8 DEF Informed
<1>8. CASE pck = Empty /\ Wrong(c)
  <2>1. phase'[c] = "failed" /\ code'[c] = code[c]
    BY <1>1, <1>6, <1>8
  <2>2. Wrong(c)' /\ (Got(c) => Got(c)')
    BY <1>2, <1>8, Onward
  <2>3. Knows(c)'
    BY <1>3, <2>1, <2>2 DEF Informed, Knows
  <2> QED
    BY <1>1, <2>1, <2>3, ClientInformed
<1> QED
  BY <1>5, <1>7, <1>8

LEMMA ReadDataInforms ==
  ASSUME TypeOK, NEW c \in Client, Informed(c), Forward, ReadData(c),
         c \notin stray'
  PROVE  Informed(c)'
<1> DEFINE pck == Received("game", c)
           d == link["game"][c].down
<1>1. /\ ClientChange(c) /\ ClientReceded(link', c) /\ code' = code
      /\ phase[c] \in {"game", "in"}
      /\ \/ phase'[c] = phase[c]
         \/ "connected" \in pck.has /\ phase'[c] = "in"
         \/ /\ "connected_packet" \in pck.has /\ "connected" \notin pck.has
            /\ phase'[c] = "refused"
  BY ReadDataStep
<1>2. pck = Behind(d).msg /\ typed'[c] = typed[c]
  BY <1>1, ReceivedIsBehind DEF Server, ClientChange
<1>3. \/ Waits(d, Empty)
      \/ Waits(d, YesMessage) /\ Entitled(c)
      \/ Cut(d, YesMessage) /\ Entitled(c)
      \/ Cut(d, NoMessage) /\ Wrong(c)
  BY DEF Informed, GameStream
<1> HIDE DEF d, pck
<1>4. \/ pck = Empty
      \/ pck = YesMessage /\ Entitled(c)
      \/ pck = NoMessage /\ Wrong(c)
  BY <1>2, <1>3, ReadyHas DEF Cut
<1>5. /\ Empty.has = {} /\ YesMessage.has = {"connected", "connected_packet"}
      /\ NoMessage.has = {"connected_packet"}
  BY MessagesSent, EmptyIs
<1>6. \/ phase'[c] = phase[c]
      \/ phase'[c] = "in" /\ Entitled(c)
      \/ phase'[c] = "refused" /\ Wrong(c)
  BY <1>1, <1>4, <1>5
<1>7. (Entitled(c) => Entitled(c)') /\ (Wrong(c) => Wrong(c)') /\ (Got(c) => Got(c)')
      /\ (~Running("auth") => ~Running("auth")')
  BY <1>1, <1>2, Onward
<1>8. link["game"][c].state = "none" => link'["game"][c].state = "none"
  BY <1>1, GameUnopened
<1>9. Knows(c)'
  BY <1>1, <1>6, <1>7, <1>8 DEF Informed, Knows
<1> QED
  BY <1>1, <1>9, ClientInformed

LEMMA JoinInforms ==
  ASSUME TypeOK, NEW c \in Client, Informed(c), Forward, Join(c)
  PROVE  Informed(c)'
<1>1. /\ ClientChange(c) /\ code' = code /\ phase[c] = "code"
      /\ \/ /\ phase'[c] = "game" /\ link'["auth"][c] = link["auth"][c]
            /\ link'["game"][c] = Opened(auth_code_packet(code[c]))
         \/ phase'[c] = "no server" /\ ClientReceded(link', c)
  BY JoinStep
<1>2. typed'[c] = typed[c] /\ thread' = thread
  BY <1>1 DEF ClientChange
<1>3. (Got(c) => Got(c)') /\ (~Running("auth") => ~Running("auth")')
  BY <1>2, Onward
<1>4. Knows(c)'
  BY <1>1, <1>3 DEF Informed, Knows
<1>5. CASE phase'[c] = "no server" /\ ClientReceded(link', c)
  BY <1>1, <1>4, <1>5, ClientInformed
<1>6. CASE /\ phase'[c] = "game" /\ link'["auth"][c] = link["auth"][c]
           /\ link'["game"][c] = Opened(auth_code_packet(code[c]))
  <2>1. /\ link'["game"][c].up = auth_code_packet(code[c])
        /\ link'["game"][c].down = << >>
    BY <1>6 DEF Opened
  <2>2. AuthThread(c)' /\ GameThread(c)' /\ AuthStream(c)' /\ GameStream(c)'
    BY <1>1, <1>2, <1>6, <2>1, AuthThreadKept, GameThreadKept, AuthStreamKept,
       GameStreamKept DEF Informed
  <2>3. Sent(c)'
    BY <1>1, <1>2, <1>6, <2>1 DEF Informed, Sent
  <2> QED
    BY <1>4, <2>2, <2>3 DEF Informed
<1> QED
  BY <1>1, <1>5, <1>6

LEMMA ClientStepInforms ==
  ASSUME TypeOK, NEW c \in Client, Informed(c), Fresh(c), Forward,
         (\E t \in Typed : LogIn(c, t)) \/ ClientStep(c) \/ Quit(c),
         c \notin stray'
  PROVE  Informed(c)'
<1>1. ASSUME ClientChange(c), ClientReceded(link', c), code' = code,
             \/ phase'[c] \in {"gone"}
             \/ phase'[c] = "code" /\ ~Running("auth")
             \/ phase'[c] = "failed" /\ Excuse(c)
      PROVE  Informed(c)'
  <2>1. typed'[c] = typed[c]
    BY <1>1 DEF ClientChange
  <2>2. /\ Got(c) => Got(c)'
        /\ ~Running("auth") => ~Running("auth")'
        /\ Excuse(c) => Wrong(c)'
    BY <2>1, Onward DEF Wrong
  <2>3. link["game"][c].state = "none" => link'["game"][c].state = "none"
    BY <1>1, GameUnopened
  <2>4. Knows(c)'
    BY <1>1, <2>2, <2>3 DEF Informed, Knows
  <2> QED
    BY <1>1, <2>4, ClientInformed
<1>2. CASE NoCode(c)
  <2>1. /\ ClientChange(c) /\ link' = link /\ code' = code
        /\ phase'[c] = "code" /\ ~Running("auth")
    BY <1>2, NoCodeStep
  <2>2. ClientReceded(link', c)
    BY <2>1, SameReceded
  <2> QED
    BY <1>1, <2>1, <2>2
<1>3. CASE NoAnswer(c)
  <2>1. Excuse(c)
    BY <1>3, NoAnswerStep DEF Excuse
  <2> QED
    BY <1>1, <1>3, <2>1, NoAnswerStep
<1>4. CASE Quit(c)
  BY <1>1, <1>4, QuitStep
<1>5. CASE ReadNothing(c)
  <2>1. /\ ClientChange(c) /\ ClientReceded(link', c) /\ code' = code
        /\ phase'[c] = phase[c] /\ typed'[c] = typed[c]
    BY <1>5, ReadNothingStep DEF ClientChange
  <2>2. Knows(c)'
    BY <2>1, GameUnopened, KnowsKept DEF Informed
  <2> QED
    BY <2>1, <2>2, ClientInformed
<1> QED
  BY <1>2, <1>3, <1>4, <1>5, LogInInforms, GetCodeInforms, ReadDataInforms,
     JoinInforms DEF ClientStep

LEMMA TypedIs ==
  ASSUME TypeOK, NEW c \in Client
  PROVE  /\ typed[c].username \in Seq(Nat) /\ NoNul(typed[c].username)
         /\ typed[c].password \in Seq(Nat) /\ NoNul(typed[c].password)
         /\ typed[c] = [username |-> typed[c].username, password |-> typed[c].password]
<1> DEFINE t == typed[c]
<1>1. t \in Typed \/ t = NoOne
  BY DEF TypeOK
<1> HIDE DEF t
<1>2. CASE t \in Typed
  <2>1. t \in [username : Seq(Nat \ {0}), password : Seq(Nat \ {0})]
    BY <1>2, LoginAssumption
  <2>2. /\ t.username \in Seq(Nat \ {0}) /\ t.password \in Seq(Nat \ {0})
        /\ t = [username |-> t.username, password |-> t.password]
    BY <2>1
  <2>3. ASSUME NEW s \in Seq(Nat \ {0}) PROVE s \in Seq(Nat) /\ NoNul(s)
    BY <2>3 DEF NoNul
  <2> QED
    BY <2>2, <2>3 DEF t
<1>3. CASE t = NoOne
  <2> DEFINE e == << >>
  <2>1. e \in Seq(Nat) /\ Len(e) = 0
    OBVIOUS
  <2>2. t.username = e /\ t.password = e /\ t = [username |-> e, password |-> e]
    BY <1>3 DEF NoOne
  <2> HIDE DEF e
  <2>3. NoNul(e)
    BY <2>1 DEF NoNul
  <2> QED
    BY <2>1, <2>2, <2>3 DEF t
<1> QED
  BY <1>1, <1>2, <1>3

\* The select of the auth server finds those who typed a row.
LEMMA FoundIsRight ==
  ASSUME TypeOK, NEW c \in Client, NEW h,
         h.str["username"] = typed[c].username,
         typed[c].username # << >> => h.str["password"] = typed[c].password
  PROVE  Found("auth", h) <=> Right(c)
<1> DEFINE t == typed[c]
<1>1. t = [username |-> t.username, password |-> t.password]
  BY TypedIs
<1> HIDE DEF t
<1>2. \A r \in auth_login :
        /\ r = [username |-> r.username, password |-> r.password]
        /\ r.username # << >>
  BY LoginAssumption
<1>3. Found("auth", h) <=>
        \E r \in auth_login : /\ r.username = h.str["username"]
                              /\ r.password = h.str["password"]
  BY DEF Found
<1>4. ASSUME NEW r \in auth_login, r.username = h.str["username"],
             r.password = h.str["password"]
      PROVE  t \in auth_login
  <2>1. r.username = t.username /\ r.password = t.password
    BY <1>2, <1>4 DEF t
  <2>2. r = t
    BY <1>1, <1>2, <2>1
  <2> QED
    BY <2>2
<1>5. ASSUME t \in auth_login
      PROVE  \E r \in auth_login : /\ r.username = h.str["username"]
                                   /\ r.password = h.str["password"]
  <2>1. t.username # << >>
    BY <1>2, <1>5
  <2>2. t.username = h.str["username"] /\ t.password = h.str["password"]
    BY <2>1 DEF t
  <2> QED
    BY <1>5, <2>2
<1>6. (t \in auth_login) <=> Right(c)
  BY DEF Right, t
<1> QED
  BY <1>3, <1>4, <1>5, <1>6

LEMMA AuthParts ==
  ASSUME TypeOK, NEW c \in Client, Informed(c), Forward, ServerChange("auth", c),
         AuthThread(c)', AuthStream(c)',
         link'["auth"][c].up \in {<< >>, link["auth"][c].up}
  PROVE  Informed(c)'
<1>1. /\ link'["game"][c] = link["game"][c] /\ thread'["game"][c] = thread["game"][c]
      /\ typed'[c] = typed[c] /\ code'[c] = code[c] /\ phase'[c] = phase[c]
  BY "game" \in Server \ {"auth"} DEF ServerChange, Server
<1>2. GameThread(c)' /\ GameStream(c)' /\ Knows(c)'
  BY <1>1, GameThreadKept, GameStreamKept, KnowsKept DEF Informed
<1>3. Sent(c)'
  BY <1>1 DEF Informed, Sent
<1> QED
  BY <1>2, <1>3 DEF Informed

LEMMA GameParts ==
  ASSUME TypeOK, NEW c \in Client, Informed(c), Forward, ServerChange("game", c),
         GameThread(c)', GameStream(c)',
         link'["game"][c].up \in {<< >>, link["game"][c].up},
         link["game"][c].state = "none" => link'["game"][c].state = "none"
  PROVE  Informed(c)'
<1>1. /\ link'["auth"][c] = link["auth"][c] /\ thread'["auth"][c] = thread["auth"][c]
      /\ typed'[c] = typed[c] /\ code'[c] = code[c] /\ phase'[c] = phase[c]
  BY "auth" \in Server \ {"game"} DEF ServerChange, Server
<1>2. AuthThread(c)' /\ AuthStream(c)' /\ Knows(c)'
  BY <1>1, AuthThreadKept, AuthStreamKept, KnowsKept DEF Informed
<1>3. Sent(c)'
  BY <1>1 DEF Informed, Sent
<1> QED
  BY <1>2, <1>3 DEF Informed

\* A step of the auth server's thread that sends nothing.
LEMMA AuthQuiet ==
  ASSUME TypeOK, NEW c \in Client, Informed(c), Forward, ServerChange("auth", c),
         AuthThread(c)', link'["auth"][c].down = link["auth"][c].down,
         link'["auth"][c].up \in {<< >>, link["auth"][c].up}
  PROVE  Informed(c)'
<1>1. typed'[c] = typed[c]
  BY DEF ServerChange
<1>2. AuthStream(c)'
  BY <1>1, AuthStreamKept DEF Informed
<1> QED
  BY <1>2, AuthParts

LEMMA GameQuiet ==
  ASSUME TypeOK, NEW c \in Client, Informed(c), Forward, ServerChange("game", c),
         GameThread(c)', link'["game"][c].down = link["game"][c].down,
         link'["game"][c].up \in {<< >>, link["game"][c].up},
         link["game"][c].state = "none" => link'["game"][c].state = "none"
  PROVE  Informed(c)'
<1>1. typed'[c] = typed[c] /\ code'[c] = code[c]
  BY DEF ServerChange
<1>2. GameStream(c)'
  BY <1>1, GameStreamKept DEF Informed
<1> QED
  BY <1>2, GameParts

\* A thread that is or will be waiting for data, or sends its last answer again.
LEMMA IdleAuthThread ==
  ASSUME TypeOK, NEW c \in Client, Informed(c), Forward, typed'[c] = typed[c],
         thread'["auth"][c].pc \in {"recv", "send"},
         thread'["auth"][c].resp = thread["auth"][c].resp
  PROVE  AuthThread(c)'
BY Onward DEF Informed, AuthThread

LEMMA IdleGameThread ==
  ASSUME TypeOK, NEW c \in Client, Informed(c), Forward, typed'[c] = typed[c],
         code'[c] = code[c], thread'["game"][c].pc \in {"recv", "send"},
         thread'["game"][c].resp = thread["game"][c].resp
  PROVE  GameThread(c)'
BY Onward DEF Informed, GameThread

LEMMA AuthRecvInforms ==
  ASSUME TypeOK, NEW c \in Client, Informed(c), Forward, Recv("auth", c),
         c \notin stray'
  PROVE  Informed(c)'
<1> DEFINE up == link["auth"][c].up
           h == ParseFromString(Empty, UpToNul(up))
           t == typed[c]
<1>1. /\ ServerChange("auth", c) /\ thread["auth"][c].pc = "recv" /\ up # << >>
      /\ thread'["auth"][c].pc = NextPc("auth", c, h)
      /\ WantsCheck("auth", h) => thread'["auth"][c].header = h
      /\ thread'["auth"][c].resp = thread["auth"][c].resp
      /\ link'["auth"][c].down = link["auth"][c].down
      /\ link'["auth"][c].up \in {<< >>, up}
  BY RecvStep DEF Server
<1>2. typed'[c] = t
  BY <1>1 DEF ServerChange
<1>3. h.str["username"] = t.username /\ (t.username # << >> => h.str["password"] = t.password)
  <2>1. up = login_packet(t.username, t.password, 1)
    BY <1>1 DEF Informed, Sent
  <2>2. /\ t.username \in Seq(Nat) /\ NoNul(t.username)
        /\ t.password \in Seq(Nat) /\ NoNul(t.password)
    BY TypedIs
  <2>3. h = ParseFromString(Empty, UpToNul(login_packet(t.username, t.password, 1)))
    BY <2>1
  <2> HIDE DEF h, t, up
  <2> QED
    BY <2>2, <2>3, LoginReceived
<1> HIDE DEF h, up
<1>4. CASE WantsCheck("auth", h)
  <2>1. thread'["auth"][c].pc = "check"
    BY <1>1, <1>4 DEF NextPc
  <2>2. AuthThread(c)'
    BY <1>1, <1>2, <1>3, <1>4, <2>1, Onward DEF Informed, AuthThread
  <2> QED
    BY <1>1, <2>2, AuthQuiet DEF up
<1>5. CASE ~WantsCheck("auth", h)
  <2>1. thread'["auth"][c].pc \in {"recv", "send"}
    BY <1>1, <1>5 DEF NextPc
  <2>2. AuthThread(c)'
    BY <1>1, <1>2, <2>1, IdleAuthThread
  <2> QED
    BY <1>1, <2>2, AuthQuiet DEF up
<1> QED
  BY <1>4, <1>5

LEMMA AuthSelectInforms ==
  ASSUME TypeOK, NEW c \in Client, Informed(c), Forward, Select("auth", c)
  PROVE  Informed(c)'
<1> DEFINE th == thread["auth"][c]
<1>1. /\ ServerChange("auth", c) /\ link' = link /\ th.pc = "check"
      /\ thread'["auth"][c].header = th.header /\ thread'["auth"][c].resp = th.resp
      /\ \/ /\ thread'["auth"][c].pc = "select" /\ busy' = busy
            /\ thread'["auth"][c].found = Found("auth", th.header)
         \/ /\ thread'["auth"][c].pc = "answer" /\ busy' = busy \cup {c}
            /\ thread'["auth"][c].found = FALSE
  BY SelectStep DEF Server
<1>2. typed'[c] = typed[c]
  BY <1>1 DEF ServerChange
<1>3. /\ th.header.str["username"] = typed[c].username
      /\ typed[c].username # << >> => th.header.str["password"] = typed[c].password
      /\ \/ th.resp = << >>
         \/ th.resp = failure /\ Wrong(c)
         \/ th.resp = auth_code_packet(uniqueauthcode) /\ Got(c)
  BY <1>1 DEF Informed, AuthThread
<1>4. Found("auth", th.header) <=> Right(c)
  BY <1>3, FoundIsRight
<1> HIDE DEF th
<1>5. \/ thread'["auth"][c].found = TRUE /\ Right(c)'
      \/ thread'["auth"][c].found = FALSE /\ Wrong(c)'
  <2>1. CASE busy' = busy \cup {c} /\ thread'["auth"][c].found = FALSE
    BY <2>1 DEF Wrong, Excuse
  <2>2. CASE thread'["auth"][c].found = Found("auth", th.header)
    <3>1. CASE Right(c)
      BY <1>2, <1>4, <2>2, <3>1, Onward
    <3>2. CASE ~Right(c)
      <4>1. ~Right(c)'
        BY <1>2, <3>2, Onward
      <4> QED
        BY <1>4, <2>2, <3>2, <4>1 DEF Wrong
    <3> QED
      BY <3>1, <3>2
  <2> QED
    BY <1>1, <2>1, <2>2
<1>6. AuthThread(c)'
  BY <1>1, <1>2, <1>3, <1>5, Onward DEF AuthThread
<1> QED
  BY <1>1, <1>6, AuthQuiet

LEMMA AuthFinalizeInforms ==
  ASSUME TypeOK, NEW c \in Client, Informed(c), Forward, Finalize("auth", c)
  PROVE  Informed(c)'
<1>1. /\ ServerChange("auth", c) /\ link' = link /\ Moved("auth", c, "select", "answer")
  BY FinalizeStep DEF Server
<1>2. typed'[c] = typed[c]
  BY <1>1 DEF ServerChange
<1>3. AuthThread(c)'
  BY <1>1, <1>2, Onward DEF Informed, AuthThread, Moved
<1> QED
  BY <1>1, <1>3, AuthQuiet

LEMMA AuthAnswers ==
  ASSUME TypeOK, NEW c \in Client, Informed(c), Forward, ServerChange("auth", c),
         link' = link, NEW resp,
         thread'["auth"][c] = Answering(resp),
         \/ resp = failure /\ Wrong(c)'
         \/ resp = auth_code_packet(uniqueauthcode) /\ Got(c)'
  PROVE  Informed(c)'
<1>1. thread'["auth"][c].pc = "send" /\ thread'["auth"][c].resp = resp
  BY DEF Answering
<1>2. AuthThread(c)'
  BY <1>1 DEF AuthThread
<1> QED
  BY <1>2, AuthQuiet

LEMMA AuthAnswerInforms ==
  ASSUME TypeOK, NEW c \in Client, Informed(c), Forward, Answer("auth", c)
  PROVE  Informed(c)'
<1>1. /\ ServerChange("auth", c) /\ link' = link /\ thread["auth"][c].pc = "answer"
      /\ thread["auth"][c].found = FALSE
      /\ thread'["auth"][c] = Answering(
           IF "auth" = "auth" THEN failure
           ELSE connected_packet(thread["auth"][c].found))
  BY AnswerStep DEF Server
<1>2. thread'["auth"][c] = Answering(failure)
  BY <1>1
<1>3. Wrong(c) /\ typed'[c] = typed[c]
  BY <1>1 DEF Informed, AuthThread, ServerChange
<1>4. Wrong(c)'
  BY <1>3, Onward
<1> QED
  BY <1>1, <1>2, <1>4, AuthAnswers

LEMMA UpdateInforms ==
  ASSUME TypeOK, NEW c \in Client, Informed(c), Forward, Update(c)
  PROVE  Informed(c)'
<1>1. /\ ServerChange("auth", c) /\ link' = link
      /\ thread["auth"][c].pc = "answer" /\ thread["auth"][c].found = TRUE
      /\ \/ Moved("auth", c, "answer", "update")
         \/ /\ busy' = busy \cup {c}
            /\ thread'["auth"][c] = Answering(auth_code_packet(uniqueauthcode))
  BY UpdateStep
<1>2. typed'[c] = typed[c] /\ Right(c)
  BY <1>1 DEF Informed, AuthThread, ServerChange
<1>3. CASE Moved("auth", c, "answer", "update")
  <2>1. AuthThread(c)'
    BY <1>1, <1>2, <1>3, Onward DEF Informed, AuthThread, Moved
  <2> QED
    BY <1>1, <2>1, AuthQuiet
<1>4. CASE /\ busy' = busy \cup {c}
           /\ thread'["auth"][c] = Answering(auth_code_packet(uniqueauthcode))
  <2>1. Right(c)' /\ Excuse(c)'
    BY <1>2, <1>4, Onward DEF Excuse
  <2>2. Got(c)'
    BY <2>1 DEF Got
  <2> QED
    BY <1>1, <1>4, <2>2, AuthAnswers
<1> QED
  BY <1>1, <1>3, <1>4

\* The row that was typed has the code from now on.
LEMMA CommitInforms ==
  ASSUME TypeOK, NEW c \in Client, Informed(c), Forward, Commit(c)
  PROVE  Informed(c)'
<1> DEFINE h == thread["auth"][c].header
<1>1. /\ ServerChange("auth", c) /\ link' = link
      /\ thread["auth"][c].pc = "update"
      /\ thread'["auth"][c] = Answering(auth_code_packet(uniqueauthcode))
      /\ \A r \in auth_login :
           logged_in'[r] = IF /\ r.username = h.str["username"]
                              /\ r.password = h.str["password"]
                           THEN uniqueauthcode ELSE logged_in[r]
  BY CommitStep
<1>2. /\ typed'[c] = typed[c] /\ Right(c)
      /\ h.str["username"] = typed[c].username
      /\ typed[c].username # << >> => h.str["password"] = typed[c].password
  BY <1>1 DEF Informed, AuthThread, ServerChange
<1>3. Found("auth", h)
  BY <1>2, FoundIsRight
<1> HIDE DEF h
<1>4. PICK r \in auth_login : /\ r.username = h.str["username"]
                              /\ r.password = h.str["password"]
  BY <1>3 DEF Found
<1>5. logged_in'[r] = uniqueauthcode
  BY <1>1, <1>4
<1>6. Coded' /\ Right(c)'
  BY <1>2, <1>5, Onward DEF Coded
<1>7. Got(c)'
  BY <1>6 DEF Got
<1> QED
  BY <1>1, <1>7, AuthAnswers

LEMMA AuthSendInforms ==
  ASSUME TypeOK, NEW c \in Client, Informed(c), Forward, Send("auth", c)
  PROVE  Informed(c)'
<1> DEFINE d == link["auth"][c].down
           x == thread["auth"][c].resp
<1>1. /\ ServerChange("auth", c) /\ Moved("auth", c, "send", "recv")
      /\ link'["auth"][c].up = link["auth"][c].up
      /\ link'["auth"][c].down = d \o x \/ link'["auth"][c].down = d
  BY SendStep DEF Server
<1>2. typed'[c] = typed[c]
  BY <1>1 DEF ServerChange
<1>3. AuthThread(c)'
  BY <1>1, <1>2, IdleAuthThread DEF Moved
<1>4. CASE link'["auth"][c].down = d
  BY <1>1, <1>3, <1>4, AuthQuiet
<1>5. CASE link'["auth"][c].down = d \o x
  <2>1. d \in Seq(Nat) /\ x \in Seq(Nat)
    BY LinkFields DEF Server
  <2>2. \/ x = << >>
        \/ x = failure /\ Wrong(c)
        \/ x = auth_code_packet(uniqueauthcode) /\ Got(c)
    BY DEF Informed, AuthThread
  <2>3. \/ d = << >>
        \/ Waits(d, CodeMessage) /\ Got(c)
        \/ Stopped(d, Empty) /\ Wrong(c)
        \/ Stopped(d, CodeMessage) /\ Wrong(c) /\ Got(c)
    BY DEF Informed, AuthStream
  <2>4. AuthStream(c)
    BY DEF Informed
  <2> HIDE DEF d, x
  <2>5. d = << >> => Waits(d, Empty)
    BY WaitsAtStart
  <2>6. (Wrong(c) => Wrong(c)') /\ (Got(c) => Got(c)')
    BY <1>2, Onward
  <2>7. CASE x = << >>
    <3>1. d \o x = d
      BY <2>1, <2>7
    <3>2. link'["auth"][c].down \in {<< >>, link["auth"][c].down}
      BY <1>5, <3>1 DEF d
    <3> QED
      BY <1>1, <1>2, <1>3, <2>4, <3>2, AuthStreamKept, AuthParts
  <2>8. CASE x = failure /\ Wrong(c)
    <3>1. NoNul(failure) /\ failure \in Seq(Nat)
      BY ReadyAtStart, FailureRead
    <3>2. \/ Stopped(d \o x, Empty)
          \/ Stopped(d \o x, CodeMessage) /\ Got(c)
      BY <2>1, <2>3, <2>5, <2>8, <3>1, FailureMore, StoppedMore
    <3>3. AuthStream(c)'
      BY <1>5, <2>6, <2>8, <3>2 DEF AuthStream
    <3> QED
      BY <1>1, <1>3, <3>3, AuthParts
  <2>9. CASE x = auth_code_packet(uniqueauthcode) /\ Got(c)
    <3>1. NoNul(auth_code_packet(uniqueauthcode))
      BY ReadyAtStart, CodeRead
    <3>2. \/ Waits(d \o x, CodeMessage)
          \/ Stopped(d \o x, Empty) /\ Wrong(c)
          \/ Stopped(d \o x, CodeMessage) /\ Wrong(c)
      BY <2>1, <2>3, <2>5, <2>9, <3>1, CodeMore, StoppedMore
    <3>3. AuthStream(c)'
      BY <1>5, <2>6, <2>9, <3>2 DEF AuthStream
    <3> QED
      BY <1>1, <1>3, <3>3, AuthParts
  <2> QED
    BY <2>2, <2>7, <2>8, <2>9
<1> QED
  BY <1>1, <1>4, <1>5

\* Without a code the game server finds the rows without a login; but a
\* client goes there without a code only when the auth server is gone.
LEMMA GameFound ==
  ASSUME TypeOK, NEW c \in Client, Informed(c), Fresh(c),
         thread["game"][c].pc # "none", NEW h, h.str["auth_code"] = code[c]
  PROVE  /\ Found("game", h) => Entitled(c)
         /\ ~Found("game", h) => Wrong(c)
<1>1. Found("game", h) <=> \E r \in auth_login : logged_in[r] = code[c]
  BY DEF Found
<1>2. link["game"][c].state # "none"
  BY "game" \in Server DEF Fresh, Server
<1>3. /\ code[c] = << >> \/ (code[c] = uniqueauthcode /\ Got(c))
      /\ code[c] # << >> \/ ~Running("auth")
  BY <1>2 DEF Informed, Knows
<1>4. CASE code[c] = << >>
  <2>1. Entitled(c) /\ Wrong(c)
    BY <1>3, <1>4 DEF Entitled, Wrong, Excuse
  <2> QED
    BY <2>1
<1>5. CASE code[c] = uniqueauthcode /\ Got(c)
  <2>1. Found("game", h) <=> Coded
    BY <1>1, <1>5 DEF Coded
  <2> QED
    BY <1>5, <2>1 DEF Got, Entitled, Wrong
<1> QED
  BY <1>3, <1>4, <1>5

LEMMA GameRecvInforms ==
  ASSUME TypeOK, NEW c \in Client, Informed(c), Forward, Recv("game", c),
         c \notin stray'
  PROVE  Informed(c)'
<1> DEFINE up == link["game"][c].up
           h == ParseFromString(Empty, UpToNul(up))
<1>1. /\ ServerChange("game", c) /\ thread["game"][c].pc = "recv" /\ up # << >>
      /\ thread'["game"][c].pc = NextPc("game", c, h)
      /\ WantsCheck("game", h) => thread'["game"][c].header = h
      /\ thread'["game"][c].resp = thread["game"][c].resp
      /\ link'["game"][c].state = link["game"][c].state
      /\ link'["game"][c].down = link["game"][c].down
      /\ link'["game"][c].up \in {<< >>, up}
  BY RecvStep DEF Server
<1>2. typed'[c] = typed[c] /\ code'[c] = code[c]
  BY <1>1 DEF ServerChange
<1>3. h.str["auth_code"] = code[c]
  <2>1. up = auth_code_packet(code[c])
    BY <1>1 DEF Informed, Sent
  <2>2. code[c] \in {<< >>, uniqueauthcode}
    BY DEF Informed, Knows
  <2> QED
    BY <2>1, <2>2, CodeReceived
<1> HIDE DEF h, up
<1>4. CASE WantsCheck("game", h)
  <2>1. thread'["game"][c].pc = "check"
    BY <1>1, <1>4 DEF NextPc
  <2>2. GameThread(c)'
    BY <1>1, <1>2, <1>3, <1>4, <2>1, Onward DEF Informed, GameThread
  <2> QED
    BY <1>1, <2>2, GameQuiet DEF up
<1>5. CASE ~WantsCheck("game", h)
  <2>1. thread'["game"][c].pc \in {"recv", "send"}
    BY <1>1, <1>5 DEF NextPc
  <2>2. GameThread(c)'
    BY <1>1, <1>2, <2>1, IdleGameThread
  <2> QED
    BY <1>1, <2>2, GameQuiet DEF up
<1> QED
  BY <1>4, <1>5

LEMMA GameSelectInforms ==
  ASSUME TypeOK, NEW c \in Client, Informed(c), Fresh(c), Forward, Select("game", c)
  PROVE  Informed(c)'
<1> DEFINE th == thread["game"][c]
<1>1. /\ ServerChange("game", c) /\ link' = link /\ th.pc = "check"
      /\ thread'["game"][c].header = th.header /\ thread'["game"][c].resp = th.resp
      /\ \/ /\ thread'["game"][c].pc = "select" /\ busy' = busy
            /\ thread'["game"][c].found = Found("game", th.header)
         \/ /\ thread'["game"][c].pc = "answer" /\ busy' = busy \cup {c}
            /\ thread'["game"][c].found = FALSE
  BY SelectStep DEF Server
<1>2. typed'[c] = typed[c] /\ code'[c] = code[c]
  BY <1>1 DEF ServerChange
<1>3. /\ th.header.str["auth_code"] = code[c] /\ th.pc # "none"
      /\ \/ th.resp = << >>
         \/ th.resp = connected_packet(TRUE) /\ Entitled(c)
         \/ th.resp = connected_packet(FALSE) /\ Wrong(c)
  BY <1>1 DEF Informed, GameThread
<1>4. /\ Found("game", th.header) => Entitled(c)
      /\ ~Found("game", th.header) => Wrong(c)
  BY <1>3, GameFound
<1> HIDE DEF th
<1>5. \/ thread'["game"][c].found = TRUE /\ Entitled(c)'
      \/ thread'["game"][c].found = FALSE /\ Wrong(c)'
  <2>1. CASE busy' = busy \cup {c} /\ thread'["game"][c].found = FALSE
    BY <2>1 DEF Wrong, Excuse
  <2>2. CASE thread'["game"][c].found = Found("game", th.header)
    <3>1. CASE Found("game", th.header)
      BY <1>2, <1>4, <2>2, <3>1, Onward DEF Found
    <3>2. CASE ~Found("game", th.header)
      BY <1>2, <1>4, <2>2, <3>2, Onward DEF Found
    <3> QED
      BY <3>1, <3>2
  <2> QED
    BY <1>1, <2>1, <2>2
<1>6. GameThread(c)'
  BY <1>1, <1>2, <1>3, <1>5, Onward DEF GameThread
<1> QED
  BY <1>1, <1>6, GameQuiet

LEMMA GameFinalizeInforms ==
  ASSUME TypeOK, NEW c \in Client, Informed(c), Forward, Finalize("game", c)
  PROVE  Informed(c)'
<1>1. /\ ServerChange("game", c) /\ link' = link /\ Moved("game", c, "select", "answer")
  BY FinalizeStep DEF Server
<1>2. typed'[c] = typed[c] /\ code'[c] = code[c]
  BY <1>1 DEF ServerChange
<1>3. GameThread(c)'
  BY <1>1, <1>2, Onward DEF Informed, GameThread, Moved
<1> QED
  BY <1>1, <1>3, GameQuiet

LEMMA GameAnswerInforms ==
  ASSUME TypeOK, NEW c \in Client, Informed(c), Forward, Answer("game", c)
  PROVE  Informed(c)'
<1> DEFINE found == thread["game"][c].found
<1>1. /\ ServerChange("game", c) /\ link' = link /\ thread["game"][c].pc = "answer"
      /\ thread'["game"][c] = Answering(
           IF "game" = "auth" THEN failure ELSE connected_packet(found))
  BY AnswerStep DEF Server
<1>2. \/ found = TRUE /\ Entitled(c)
      \/ found = FALSE /\ Wrong(c)
  BY <1>1 DEF Informed, GameThread
<1>3. typed'[c] = typed[c] /\ code'[c] = code[c]
  BY <1>1 DEF ServerChange
<1> HIDE DEF found
<1>4. thread'["game"][c] = Answering(connected_packet(found))
  BY <1>1
<1>5. /\ thread'["game"][c].pc = "send"
      /\ thread'["game"][c].resp = connected_packet(found)
  BY <1>4 DEF Answering
<1>6. (Entitled(c) => Entitled(c)') /\ (Wrong(c) => Wrong(c)')
  BY <1>3, Onward
<1>7. \/ thread'["game"][c].resp = connected_packet(TRUE) /\ Entitled(c)'
      \/ thread'["game"][c].resp = connected_packet(FALSE) /\ Wrong(c)'
  BY <1>2, <1>5, <1>6
<1>8. GameThread(c)'
  BY <1>5, <1>7 DEF GameThread
<1> QED
  BY <1>1, <1>8, GameQuiet

LEMMA GameSendInforms ==
  ASSUME TypeOK, NEW c \in Client, Informed(c), Forward, Send("game", c)
  PROVE  Informed(c)'
<1> DEFINE d == link["game"][c].down
           x == thread["game"][c].resp
<1>1. /\ ServerChange("game", c) /\ Moved("game", c, "send", "recv")
      /\ link'["game"][c].up = link["game"][c].up
      /\ link'["game"][c].down = d \o x \/ link'["game"][c].down = d
      /\ link["game"][c].state # "none"
  BY SendStep DEF Server
<1>2. typed'[c] = typed[c] /\ code'[c] = code[c]
  BY <1>1 DEF ServerChange
<1>3. GameThread(c)'
  BY <1>1, <1>2, IdleGameThread DEF Moved
<1>4. CASE link'["game"][c].down = d
  BY <1>1, <1>3, <1>4, GameQuiet
<1>5. CASE link'["game"][c].down = d \o x
  <2>1. d \in Seq(Nat) /\ x \in Seq(Nat)
    BY LinkFields DEF Server
  <2>2. \/ x = << >>
        \/ x = connected_packet(TRUE) /\ Entitled(c)
        \/ x = connected_packet(FALSE) /\ Wrong(c)
    BY DEF Informed, GameThread
  <2>3. \/ Waits(d, Empty)
        \/ Waits(d, YesMessage) /\ Entitled(c)
        \/ Cut(d, YesMessage) /\ Entitled(c)
        \/ Cut(d, NoMessage) /\ Wrong(c)
    BY DEF Informed, GameStream
  <2>4. GameStream(c)
    BY DEF Informed
  <2> HIDE DEF d, x
  <2>6. (Wrong(c) => Wrong(c)') /\ (Entitled(c) => Entitled(c)')
    BY <1>2, Onward
  <2>7. CASE x = << >>
    <3>1. d \o x = d
      BY <2>1, <2>7
    <3>2. link'["game"][c].down \in {<< >>, link["game"][c].down}
      BY <1>5, <3>1 DEF d
    <3>3. GameStream(c)'
      BY <1>2, <2>4, <3>2, GameStreamKept
    <3> QED
      BY <1>1, <1>3, <3>3, GameParts
  <2>8. CASE x = connected_packet(TRUE) /\ Entitled(c)
    <3>1. \/ Waits(d \o x, YesMessage)
          \/ Cut(d \o x, YesMessage)
          \/ Cut(d \o x, NoMessage) /\ Wrong(c)
      BY <2>1, <2>3, <2>8, YesMore, CutMore
    <3>2. GameStream(c)'
      BY <1>5, <2>6, <2>8, <3>1 DEF GameStream
    <3> QED
      BY <1>1, <1>3, <3>2, GameParts
  <2>9. CASE x = connected_packet(FALSE) /\ Wrong(c)
    <3>1. \/ Cut(d \o x, YesMessage) /\ Entitled(c)
          \/ Cut(d \o x, NoMessage)
      BY <2>1, <2>3, <2>9, NoMore, CutMore
    <3>2. GameStream(c)'
      BY <1>5, <2>6, <2>9, <3>1 DEF GameStream
    <3> QED
      BY <1>1, <1>3, <3>2, GameParts
  <2> QED
    BY <2>2, <2>7, <2>8, <2>9
<1> QED
  BY <1>1, <1>4, <1>5

LEMMA ServerStepInforms ==
  ASSUME TypeOK, NEW c \in Client, Informed(c), Fresh(c), Forward,
         NEW s \in Server, ServerStep(s, c), c \notin stray'
  PROVE  Informed(c)'
<1>1. s = "auth" \/ s = "game"
  BY DEF Server
<1>2. ASSUME ServerChange(s, c), thread'[s][c].pc \in {"recv", "send"},
             thread'[s][c].resp = thread[s][c].resp,
             link'[s][c].down = link[s][c].down, link'[s][c].up = link[s][c].up,
             link[s][c].state # "none"
      PROVE  Informed(c)'
  <2>1. typed'[c] = typed[c] /\ code'[c] = code[c]
    BY <1>2 DEF ServerChange
  <2>2. CASE s = "auth"
    <3>1. AuthThread(c)'
      BY <1>2, <2>1, <2>2, IdleAuthThread
    <3> QED
      BY <1>2, <2>2, <3>1, AuthQuiet
  <2>3. CASE s = "game"
    <3>1. GameThread(c)'
      BY <1>2, <2>1, <2>3, IdleGameThread
    <3> QED
      BY <1>2, <2>3, <3>1, GameQuiet
  <2> QED
    BY <1>1, <2>2, <2>3
<1>3. CASE Accept(s, c)
  BY <1>2, <1>3, AcceptStep DEF Moved
<1>4. CASE RecvFails(s, c)
  <2>1. /\ ServerChange(s, c) /\ thread'[s][c].pc \in {"recv", "send"}
        /\ thread'[s][c].resp = thread[s][c].resp
        /\ link'[s][c].down = link[s][c].down /\ link'[s][c].up = link[s][c].up
        /\ link[s][c].state # "none"
    BY <1>4, RecvFailsStep
  <2> QED
    BY <1>2, <2>1
<1>5. CASE KilledBySigpipe(s, c)
  <2>1. Kept(c)
    BY <1>5, KilledStep DEF ServerChange, Kept
  <2> QED
    BY <2>1, OtherInformed
<1> QED
  BY <1>1, <1>3, <1>4, <1>5, AuthRecvInforms, AuthSelectInforms, AuthFinalizeInforms,
     AuthAnswerInforms, UpdateInforms, CommitInforms, AuthSendInforms, GameRecvInforms,
     GameSelectInforms, GameFinalizeInforms, GameAnswerInforms, GameSendInforms
     DEF ServerStep

LEMMA LoginInvStarts == Init => LoginInv
<1> SUFFICES ASSUME Init PROVE LoginInv
  OBVIOUS
<1>1. ASSUME NEW c \in Client PROVE Informed(c)
  <2>1. /\ phase[c] = "login" /\ code[c] = << >>
        /\ \A s \in Server :
             /\ link[s][c].state = "none"
             /\ link[s][c].up = << >> /\ link[s][c].down = << >>
             /\ thread[s][c].pc = "none" /\ thread[s][c].resp = << >>
    BY StartIs
  <2> QED
    BY <2>1, WaitsAtStart DEF Informed, Sent, Knows, AuthThread, GameThread, AuthStream,
       GameStream, Server
<1> QED
  BY <1>1, FreshStarts DEF LoginInv

LEMMA LoginInvStays == LoginInv /\ [Next]_vars => LoginInv'
<1> SUFFICES ASSUME LoginInv, [Next]_vars PROVE LoginInv'
  OBVIOUS
<1>1. ASSUME NEW c \in Client, StepOf(c) PROVE LoginInv'
  <2>1. /\ FreshInv' /\ TypeOK /\ Fresh(c)
        /\ \A d \in Client : d \in stray \/ Informed(d)
    BY <1>1, FreshStays DEF LoginInv, FreshInv
  <2>2. Forward /\ OthersKept(c)
    BY <1>1, <2>1, StepForward
  <2>3. stray \subseteq stray'
    BY <2>2 DEF Forward
  <2>4. c \in stray' \/ Informed(c)'
    BY <1>1, <2>1, <2>2, <2>3, ClientStepInforms, ServerStepInforms DEF StepOf
  <2>5. ASSUME NEW d \in Client, d # c PROVE d \in stray' \/ Informed(d)'
    BY <2>1, <2>2, <2>3, <2>5, OtherInformed DEF OthersKept
  <2> QED
    BY <2>1, <2>4, <2>5 DEF LoginInv
<1>2. CASE UNCHANGED vars
  <2>1. /\ UNCHANGED <<stack, status, thread, logged_in, busy, link, phase, code>>
        /\ typed' = typed /\ stray' = stray
    BY <1>2, KeptWhenNothingChanges DEF vars, clientVars
  <2>2. FreshInv'
    BY <1>2, <2>1, LoginTypes DEF LoginInv, FreshInv, Fresh, ReadOnce
  <2>3. Forward
    BY <2>1 DEF Forward, Running
  <2>4. ASSUME NEW d \in Client PROVE d \in stray' \/ Informed(d)'
    BY <2>1, <2>3, OtherInformed DEF LoginInv, Kept
  <2> QED
    BY <2>2, <2>4 DEF LoginInv
<1> QED
  BY <1>1, <1>2, NextIsAStep

(***************************************************************************)
(* Whoever is let in typed a row of the database, and a login is stored;   *)
(* or his auth server was killed and he has no code (GameClient.cpp:29-35, *)
(* AuthDatabaseHandler.cpp:41); or something behind the bytes received for *)
(* him was parsed as more of a message.  For any rows with a user name,    *)
(* anything typed, any number of answers read at once, and anything left   *)
(* in the buffers.                                                         *)
(***************************************************************************)
THEOREM ConnectedCorrect == Spec => []ConnectedMeansLoggedIn
<1>1. LoginInv => ConnectedMeansLoggedIn
  BY DEF LoginInv, Informed, Knows, Entitled, Coded, ConnectedMeansLoggedIn
<1> QED
  BY <1>1, LoginInvStarts, LoginInvStays, PTL DEF Spec

(***************************************************************************)
(* Whoever typed a row of the database is refused only for a reason: a     *)
(* locked database, a killed auth server, a client that did not wait, or   *)
(* bytes behind those received for him that were parsed as more of a       *)
(* message (AuthServer.cpp:57-91, AuthDatabaseHandler.cpp:26-33).  What is *)
(* in the buffers may be anything; only what it makes of his own messages  *)
(* counts.  Else what he typed, his code and the answers to him are read   *)
(* as they were sent although the messages are cut at their first 0 byte.  *)
(***************************************************************************)
THEOREM RefusedCorrect == Spec => []RefusedForAReason
<1>1. LoginInv => RefusedForAReason
  BY DEF LoginInv, Informed, Knows, Wrong, Excuse, RefusedForAReason
<1> QED
  BY <1>1, LoginInvStarts, LoginInvStays, PTL DEF Spec

==============================================================================
