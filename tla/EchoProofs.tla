------------------------------ MODULE EchoProofs ------------------------------
(***************************************************************************)
(* For any number of connections, any watermark, any text and any limit of *)
(* descriptors: what originEchoServer.cpp sends back is a function of the  *)
(* bytes it has read.                                                      *)
(***************************************************************************)
EXTENDS Echo, FiniteSetTheorems, SequenceTheorems, TLAPS

------------------------------------------------------------------------------
(* Numbers: a set that holds 0 and with each number the next one holds     *)
(* them all.                                                               *)

LEMMA AllNumbers ==
  ASSUME NEW T \in SUBSET Nat, 0 \in T, \A n \in T : n + 1 \in T
  PROVE  T = Nat
<1> SUFFICES ASSUME NEW n \in Nat, n \notin T PROVE FALSE
  OBVIOUS
<1> DEFINE U == (0 .. n) \ T
           f == [m \in U |-> m - 1]
<1>1. IsFiniteSet(U)
  <2>1. IsFiniteSet(0 .. n)
    BY FS_Interval
  <2> QED
    BY <2>1, FS_Subset, U \subseteq 0 .. n
<1>2. n \in U
  OBVIOUS
<1>3. /\ IsFiniteSet(U \ {n})
      /\ Cardinality(U \ {n}) = Cardinality(U) - 1 /\ Cardinality(U) \in Nat
  BY <1>1, <1>2, FS_RemoveElement, FS_CardinalityType
<1>4. ASSUME NEW m \in U PROVE m - 1 \in U \ {n}
  <2>1. m # 0 /\ m - 1 \in Nat /\ m - 1 + 1 = m /\ m \notin T
    OBVIOUS
  <2>2. m - 1 \notin T
    BY <2>1
  <2> QED
    BY <2>1, <2>2
<1>5. f \in [U -> U \ {n}]
  BY <1>4
<1>6. Cardinality(U \ {n}) < Cardinality(U)
  BY <1>3
<1> HIDE DEF U
<1>7. \E x, y \in U : x # y /\ f[x] = f[y]
  <2> HIDE DEF f
  <2> QED
    BY <1>1, <1>3, <1>5, <1>6, FS_PigeonHole
<1> QED
  BY <1>7 DEF U

------------------------------------------------------------------------------
(* The reference is defined: there is a function that satisfies the        *)
(* equation of EchoOf.                                                     *)

Front(s) == SubSeq(s, 1, Len(s) - 1)

Equation(g, s) ==
  IF s = << >> THEN NothingEchoed ELSE EchoChar(g[Front(s)], s[Len(s)])

Short(n) == {s \in Seq(Char) : Len(s) <= n}

\* f is the echo of the sequences of up to n bytes.
EchoUpTo(f, n) == f = [s \in Short(n) |-> Equation(f, s)]

LEMMA FrontFacts ==
  ASSUME NEW s \in Seq(Char), s # << >>
  PROVE  Front(s) \in Seq(Char) /\ Len(Front(s)) = Len(s) - 1 /\ Len(s) \in Nat \ {0}
<1>1. Len(s) \in Nat \ {0}
  OBVIOUS
<1> DEFINE n == Len(s) - 1
<1>2. n \in Int /\ 1 \in Int /\ \A i \in 1 .. n : s[i] \in Char
  BY <1>1
<1>3. /\ SubSeq(s, 1, n) \in Seq(Char)
      /\ Len(SubSeq(s, 1, n)) = IF 1 <= n THEN n - 1 + 1 ELSE 0
  <2> HIDE DEF n
  <2> QED
    BY <1>2, SubSeqProperties
<1>4. /\ Front(s) \in Seq(Char)
      /\ Len(Front(s)) = IF 1 <= n THEN n - 1 + 1 ELSE 0
  BY <1>3 DEF Front
<1>5. n \in Nat /\ Len(s) - 1 = n
  BY <1>1
<1>6. Len(Front(s)) = n
  <2> HIDE DEF n
  <2> QED
    BY <1>4, <1>5
<1> QED
  BY <1>1, <1>4, <1>6

LEMMA EchoUpToExists == \A n \in Nat : \E f : EchoUpTo(f, n)
<1> DEFINE T == {n \in Nat : \E f : EchoUpTo(f, n)}
<1>1. 0 \in T
  <2> DEFINE f == [s \in Short(0) |-> NothingEchoed]
  <2>1. \A s \in Short(0) : s = << >>
    BY DEF Short
  <2>2. EchoUpTo(f, 0)
    BY <2>1 DEF EchoUpTo, Equation
  <2> QED
    BY <2>2
<1>2. ASSUME NEW n \in T PROVE n + 1 \in T
  <2>1. PICK f : EchoUpTo(f, n)
    OBVIOUS
  <2> DEFINE g == [s \in Short(n + 1) |-> Equation(f, s)]
  <2>2. ASSUME NEW s \in Short(n + 1) PROVE Equation(f, s) = Equation(g, s)
    <3>1. CASE s = << >>
      BY <3>1 DEF Equation
    <3>2. CASE s # << >>
      <4>1. Front(s) \in Short(n) /\ Front(s) \in Short(n + 1)
        BY <3>2, FrontFacts DEF Short
      <4>2. g[Front(s)] = f[Front(s)]
        BY <2>1, <4>1 DEF EchoUpTo
      <4> QED
        BY <4>2 DEF Equation
    <3> QED
      BY <3>1, <3>2
  <2>3. EchoUpTo(g, n + 1)
    BY <2>2 DEF EchoUpTo
  <2> QED
    BY <2>3
<1> HIDE DEF T
<1>3. T = Nat
  BY <1>1, <1>2, AllNumbers, T \in SUBSET Nat DEF T
<1> QED
  BY <1>3 DEF T

LEMMA EchoUpToUnique ==
  ASSUME NEW m \in Nat, NEW n \in Nat, NEW f, NEW g,
         EchoUpTo(f, m), EchoUpTo(g, n),
         NEW t \in Short(m) \cap Short(n)
  PROVE  f[t] = g[t]
<1> DEFINE T == {k \in Nat : \A s \in Short(m) \cap Short(n) :
                               Len(s) <= k => f[s] = g[s]}
<1>1. ASSUME NEW s \in Short(m) \cap Short(n)
      PROVE  f[s] = Equation(f, s) /\ g[s] = Equation(g, s)
  BY DEF EchoUpTo
<1>2. 0 \in T
  <2>1. ASSUME NEW s \in Short(m) \cap Short(n), Len(s) <= 0 PROVE f[s] = g[s]
    BY <1>1, <2>1, s = << >> DEF Equation, Short
  <2> QED
    BY <2>1
<1>3. ASSUME NEW k \in T PROVE k + 1 \in T
  <2>1. ASSUME NEW s \in Short(m) \cap Short(n), Len(s) <= k + 1, s # << >>
        PROVE  f[s] = g[s]
    <3>1. Front(s) \in Short(m) \cap Short(n) /\ Len(Front(s)) <= k
      BY <2>1, FrontFacts DEF Short
    <3>2. f[Front(s)] = g[Front(s)]
      BY <3>1
    <3> QED
      BY <3>2, <1>1 DEF Equation
  <2>2. ASSUME NEW s \in Short(m) \cap Short(n), s = << >>
        PROVE  f[s] = g[s]
    BY <1>1, <2>2 DEF Equation
  <2> QED
    BY <2>1, <2>2
<1> HIDE DEF T
<1>4. T = Nat
  BY <1>2, <1>3, AllNumbers, T \in SUBSET Nat DEF T
<1>5. Len(t) \in Nat
  BY DEF Short
<1> QED
  BY <1>4, <1>5 DEF T

\* Echoing the next byte.
LEMMA EchoOfEquation ==
  \A s \in Seq(Char) : EchoOf[s] = Equation(EchoOf, s)
<1> DEFINE upTo(n) == CHOOSE f : EchoUpTo(f, n)
           h == [s \in Seq(Char) |-> upTo(Len(s))[s]]
<1>1. \A n \in Nat : EchoUpTo(upTo(n), n)
  BY EchoUpToExists
<1>2. ASSUME NEW s \in Seq(Char) PROVE upTo(Len(s))[s] = Equation(h, s)
  <2>1. s \in Short(Len(s)) /\ Len(s) \in Nat
    BY DEF Short
  <2>2. upTo(Len(s))[s] = Equation(upTo(Len(s)), s)
    BY <1>1, <2>1 DEF EchoUpTo
  <2>3. CASE s = << >>
    BY <2>2, <2>3 DEF Equation
  <2>4. CASE s # << >>
    <3>1. /\ Front(s) \in Seq(Char) /\ Len(Front(s)) \in Nat
          /\ Front(s) \in Short(Len(s)) \cap Short(Len(Front(s)))
      BY <2>4, FrontFacts DEF Short
    <3>2. upTo(Len(s))[Front(s)] = upTo(Len(Front(s)))[Front(s)]
      BY <3>1, <2>1, <1>1, EchoUpToUnique
    <3>3. h[Front(s)] = upTo(Len(s))[Front(s)]
      BY <3>1, <3>2
    <3> QED
      BY <2>2, <3>3 DEF Equation
  <2> QED
    BY <2>3, <2>4
<1>3. h = [s \in Seq(Char) |-> Equation(h, s)]
  BY <1>2
<1> HIDE DEF h, upTo
<1>4. EchoOf = CHOOSE g : g = [s \in Seq(Char) |-> Equation(g, s)]
  BY DEF EchoOf, Equation, Front
<1>5. EchoOf = [s \in Seq(Char) |-> Equation(EchoOf, s)]
  BY <1>3, <1>4
<1> QED
  BY <1>5

\* One more byte.
LEMMA EchoOfAppend ==
  ASSUME NEW s \in Seq(Char), NEW ch \in Char
  PROVE  EchoOf[Append(s, ch)] = EchoChar(EchoOf[s], ch)
<1> DEFINE t == Append(s, ch)
<1>1. t \in Seq(Char) /\ Len(t) = Len(s) + 1 /\ t[Len(t)] = ch /\ t # << >>
  OBVIOUS
<1>2. Front(t) = s
  <2> HIDE DEF t
  <2>1. Front(t) \in Seq(Char) /\ Len(Front(t)) = Len(s)
    BY <1>1, FrontFacts
  <2>2. ASSUME NEW i \in 1 .. Len(s) PROVE Front(t)[i] = s[i]
    BY <1>1 DEF Front, t
  <2> QED
    BY <2>1, <2>2, SeqEqual
<1> HIDE DEF t
<1>3. EchoOf[t] = EchoChar(EchoOf[s], ch)
  BY <1>1, <1>2, EchoOfEquation DEF Equation
<1> QED
  BY <1>3 DEF t

LEMMA EchoOfNothing == EchoOf[<< >>] = NothingEchoed
BY EchoOfEquation, << >> \in Seq(Char) DEF Equation

------------------------------------------------------------------------------
(* Where the lines of a buffer end.                                        *)

IsEnd(n, s) ==
  /\ n \in 0 .. Len(s)
  /\ n = 0 \/ s[n] = LF
  /\ \A i \in n + 1 .. Len(s) : s[i] # LF

LEMMA EndIsOne ==
  ASSUME NEW s \in Seq(Char), NEW n, IsEnd(n, s)
  PROVE  LinesEnd(s) = n
<1>1. ASSUME NEW m, IsEnd(m, s) PROVE m = n
  BY <1>1 DEF IsEnd
<1>2. LinesEnd(s) = CHOOSE m \in 0 .. Len(s) : IsEnd(m, s)
  BY DEF LinesEnd, IsEnd
<1>3. n \in 0 .. Len(s)
  BY DEF IsEnd
<1> QED
  BY <1>1, <1>2, <1>3

\* The end of a line, and a byte behind one.
LEMMA EndOfAppend ==
  ASSUME NEW s \in Seq(Char), NEW n, IsEnd(n, s), NEW ch \in Char
  PROVE  IsEnd(IF ch = LF THEN Len(s) + 1 ELSE n, Append(s, ch))
<1> DEFINE t == Append(s, ch)
<1>1. Len(t) = Len(s) + 1 /\ Len(s) \in Nat /\ n \in 0 .. Len(s)
  BY DEF IsEnd
<1>2. t[Len(s) + 1] = ch /\ \A i \in 1 .. Len(s) : t[i] = s[i]
  OBVIOUS
<1> HIDE DEF t
<1>3. CASE ch = LF
  BY <1>1, <1>2, <1>3 DEF IsEnd, t
<1>4. CASE ch # LF
  <2>1. IsEnd(n, t)
    BY <1>1, <1>2, <1>4 DEF IsEnd
  <2> QED
    BY <2>1, <1>4 DEF t
<1> QED
  BY <1>3, <1>4

------------------------------------------------------------------------------
(* Pieces of a sequence.                                                   *)

LEMMA PieceFacts ==
  ASSUME NEW s \in Seq(Char), NEW m \in 1 .. Len(s) + 1, NEW n \in m - 1 .. Len(s)
  PROVE  /\ SubSeq(s, m, n) \in Seq(Char)
         /\ Len(SubSeq(s, m, n)) = n - m + 1
         /\ \A i \in 1 .. n - m + 1 : SubSeq(s, m, n)[i] = s[m + i - 1]
<1>1. m \in Int /\ n \in Int /\ n - m + 1 \in Nat /\ Len(s) \in Nat
  OBVIOUS
<1>2. \A i \in m .. n : s[i] \in Char
  BY <1>1
<1>3. /\ SubSeq(s, m, n) \in Seq(Char)
      /\ Len(SubSeq(s, m, n)) = IF m <= n THEN n - m + 1 ELSE 0
      /\ \A i \in 1 .. n - m + 1 : SubSeq(s, m, n)[i] = s[m + i - 1]
  BY <1>1, <1>2, SubSeqProperties
<1>4. (IF m <= n THEN n - m + 1 ELSE 0) = n - m + 1
  BY <1>1
<1> QED
  BY <1>3, <1>4

\* The piece of a longer sequence.
LEMMA PieceOfAppend ==
  ASSUME NEW s \in Seq(Char), NEW ch \in Char, NEW m \in 1 .. Len(s) + 1
  PROVE  /\ SubSeq(Append(s, ch), m, Len(s) + 1) = Append(SubSeq(s, m, Len(s)), ch)
         /\ \A n \in 0 .. Len(s) : SubSeq(Append(s, ch), 1, n) = SubSeq(s, 1, n)
         /\ SubSeq(Append(s, ch), Len(s) + 2, Len(s) + 1) = << >>
<1> DEFINE t == Append(s, ch)
<1>1. /\ t \in Seq(Char) /\ Len(t) = Len(s) + 1 /\ Len(s) \in Nat
      /\ t[Len(s) + 1] = ch /\ \A i \in 1 .. Len(s) : t[i] = s[i]
  OBVIOUS
<1> HIDE DEF t
<1>2. SubSeq(t, m, Len(s) + 1) = Append(SubSeq(s, m, Len(s)), ch)
  <2> DEFINE a == SubSeq(t, m, Len(s) + 1)
             b == SubSeq(s, m, Len(s))
  <2>1. /\ a \in Seq(Char) /\ Len(a) = Len(s) + 2 - m
        /\ \A i \in 1 .. Len(s) + 2 - m : a[i] = t[m + i - 1]
    <3>1. m \in 1 .. Len(t) + 1 /\ Len(s) + 1 \in m - 1 .. Len(t)
      BY <1>1
    <3>2. (Len(s) + 1) - m + 1 = Len(s) + 2 - m
      BY <1>1
    <3> QED
      BY <1>1, <3>1, <3>2, PieceFacts, Zenon
  <2>2. /\ b \in Seq(Char) /\ Len(b) = Len(s) + 1 - m
        /\ \A i \in 1 .. Len(s) + 1 - m : b[i] = s[m + i - 1]
    <3>1. Len(s) \in m - 1 .. Len(s) /\ Len(s) - m + 1 = Len(s) + 1 - m
      BY <1>1
    <3> QED
      BY <3>1, PieceFacts, Zenon
  <2> HIDE DEF a, b
  <2>3. /\ Append(b, ch) \in Seq(Char) /\ Len(Append(b, ch)) = Len(a)
    <3>1. Len(Append(b, ch)) = Len(b) + 1 /\ Append(b, ch) \in Seq(Char)
      BY <2>2, AppendProperties
    <3>2. m \in Int /\ Len(s) + 1 - m + 1 = Len(s) + 2 - m
      BY <1>1
    <3> QED
      BY <3>1, <3>2, <2>1, <2>2
  <2>4. ASSUME NEW i \in 1 .. Len(a) PROVE a[i] = Append(b, ch)[i]
    <3> Len(a) \in Nat
      BY <2>1
    <3>1. CASE i = Len(a)
      <4>1. i = Len(b) + 1 /\ m + i - 1 = Len(s) + 1
        BY <3>1, <2>1, <2>2, <1>1
      <4>2. a[i] = t[m + i - 1]
        BY <3>1, <2>1
      <4>3. Append(b, ch)[Len(b) + 1] = ch
        BY <2>2, AppendProperties
      <4> QED
        BY <4>1, <4>2, <4>3, <1>1, Zenon
    <3>2. CASE i < Len(a)
      <4>1. i \in 1 .. Len(b) /\ m + i - 1 \in 1 .. Len(s)
        BY <3>2, <2>1, <2>2, <1>1
      <4>2. a[i] = t[m + i - 1] /\ b[i] = s[m + i - 1]
        BY <4>1, <2>1, <2>2, <1>1
      <4>3. Append(b, ch)[i] = b[i]
        BY <4>1, <2>2
      <4> QED
        BY <4>1, <4>2, <4>3, <1>1
    <3> QED
      BY <3>1, <3>2, i = Len(a) \/ i < Len(a), Zenon
  <2>5. a = Append(b, ch)
    BY <2>1, <2>3, <2>4, SeqEqual
  <2> QED
    BY <2>5 DEF a, b
<1>3. ASSUME NEW n \in 0 .. Len(s) PROVE SubSeq(t, 1, n) = SubSeq(s, 1, n)
  <2>1. 1 \in 1 .. Len(t) + 1 /\ n \in 1 - 1 .. Len(t) /\ n - 1 + 1 = n
    BY <1>1
  <2>2. 1 \in 1 .. Len(s) + 1 /\ n \in 1 - 1 .. Len(s)
    BY <1>1
  <2> DEFINE a == SubSeq(t, 1, n)
             b == SubSeq(s, 1, n)
  <2>3. a \in Seq(Char) /\ Len(a) = n /\ \A i \in 1 .. n : a[i] = t[1 + i - 1]
    BY <1>1, <2>1, PieceFacts, Zenon
  <2>4. b \in Seq(Char) /\ Len(b) = n /\ \A i \in 1 .. n : b[i] = s[1 + i - 1]
    BY <2>1, <2>2, PieceFacts, Zenon
  <2> HIDE DEF a, b
  <2>5. a = b
    BY <1>1, <2>3, <2>4, SeqEqual
  <2> QED
    BY <2>5 DEF a, b
<1>4. SubSeq(t, Len(s) + 2, Len(s) + 1) = << >>
  BY <1>1, SubSeqEmpty
<1> QED
  BY <1>2, <1>3, <1>4 DEF t

\* The rest of a buffer and what is before it.
LEMMA RestFacts ==
  ASSUME NEW s \in Seq(Char), NEW n \in 0 .. Len(s)
  PROVE  /\ SubSeq(s, 1, n) \in Seq(Char) /\ SubSeq(s, n + 1, Len(s)) \in Seq(Char)
         /\ Len(SubSeq(s, n + 1, Len(s))) = Len(s) - n
         /\ SubSeq(s, 1, n) \o SubSeq(s, n + 1, Len(s)) = s
<1>1. /\ Len(s) \in Nat /\ 1 \in 1 .. Len(s) + 1 /\ n \in 1 - 1 .. Len(s)
      /\ n + 1 \in 1 .. Len(s) + 1 /\ Len(s) \in n + 1 - 1 .. Len(s)
      /\ Len(s) - (n + 1) + 1 = Len(s) - n
  OBVIOUS
<1>2. SubSeq(s, 1, n) \in Seq(Char)
  BY <1>1, PieceFacts
<1>3. /\ SubSeq(s, n + 1, Len(s)) \in Seq(Char)
      /\ Len(SubSeq(s, n + 1, Len(s))) = Len(s) - n
  <2> DEFINE m == n + 1
  <2>1. m \in 1 .. Len(s) + 1 /\ Len(s) \in m - 1 .. Len(s) /\ Len(s) - m + 1 = Len(s) - n
    BY <1>1
  <2> HIDE DEF m
  <2>2. /\ SubSeq(s, m, Len(s)) \in Seq(Char)
        /\ Len(SubSeq(s, m, Len(s))) = Len(s) - m + 1
    BY <2>1, PieceFacts
  <2> QED
    BY <2>1, <2>2 DEF m
<1>4. SubSeq(s, 1, n) \o SubSeq(s, n + 1, Len(s)) = SubSeq(s, 1, Len(s))
  <2>1. n \in 1 - 1 .. Len(s) /\ Len(s) \in n .. Len(s)
    BY <1>1
  <2> QED
    BY <1>1, <2>1, ConcatAdjacentSubSeq, Zenon
<1> QED
  BY <1>2, <1>3, <1>4, SubSeqFull

------------------------------------------------------------------------------
(* readcb takes a byte more.                                               *)

\* What is sent back, behind E, and what is kept, of a buffer s.
Readcb(E, s) == [echo |-> E \o Answer(s), line |-> Kept(s)]

LEMMA ReadcbOfShort ==
  ASSUME NEW s \in Seq(Char), NEW n, IsEnd(n, s), Len(s) < MAX_LINE
  PROVE  Answer(s) = SubSeq(s, 1, n) /\ Kept(s) = SubSeq(s, n + 1, Len(s))
<1>1. LinesEnd(s) = n /\ n \in 0 .. Len(s)
  BY EndIsOne DEF IsEnd
<1>2. Rest(s) = SubSeq(s, n + 1, Len(s)) /\ Len(Rest(s)) = Len(s) - n
  BY <1>1, RestFacts DEF Rest
<1>3. ~TooLong(Rest(s))
  BY <1>1, <1>2, EchoAssumption DEF TooLong
<1> QED
  BY <1>1, <1>2, <1>3 DEF Answer, Kept

Joins(s, t, u) == (s \o t) \o u = s \o (t \o u)

LEMMA Associative ==
  ASSUME NEW s \in Seq(Char), NEW t \in Seq(Char), NEW u \in Seq(Char)
  PROVE  Joins(s, t, u)
BY ConcatAssociative DEF Joins

LEMMA LineChanges ==
  \A e, l, m : [[echo |-> e, line |-> l] EXCEPT !.line = m] = [echo |-> e, line |-> m]
OBVIOUS

LEMMA ByteStep ==
  ASSUME NEW E \in Seq(Char), NEW s \in Seq(Char), NEW n, IsEnd(n, s),
         Len(s) < MAX_LINE, NEW ch \in Char
  PROVE  EchoChar(Readcb(E, s), ch) = Readcb(E, Append(s, ch))
<1> DEFINE L == SubSeq(s, 1, n)
           r == SubSeq(s, n + 1, Len(s))
           t == Append(s, ch)
           a == Append(r, ch)
<1>1. n \in 0 .. Len(s) /\ Len(s) \in Nat /\ MAX_LINE \in Nat \ {0} /\ LF \in Char
  BY EchoAssumption DEF IsEnd
<1>2. /\ L \in Seq(Char) /\ r \in Seq(Char) /\ Len(r) = Len(s) - n /\ L \o r = s
  BY <1>1, RestFacts
<1>3. Readcb(E, s) = [echo |-> E \o L, line |-> r]
  BY ReadcbOfShort DEF Readcb
<1>4. t \in Seq(Char) /\ Len(t) = Len(s) + 1
  BY AppendProperties
<1>5. a \in Seq(Char) /\ Len(a) = Len(r) + 1
  BY <1>2, AppendProperties
<1>6. (E \o L) \o a = E \o t
  <2>1. a = r \o <<ch>> /\ t = s \o <<ch>>
    BY <1>2, AppendIsConcat
  <2>2. <<ch>> \in Seq(Char)
    OBVIOUS
  <2>3. L \o a = t
    <3> HIDE DEF L, r, t, a
    <3>1. Joins(L, r, <<ch>>)
      BY <2>2, <1>2, Associative
    <3> QED
      BY <2>1, <1>2, <3>1, Zenon DEF Joins
  <2>4. (E \o L) \o a = E \o (L \o a)
    <3> HIDE DEF L, r, t, a
    <3>1. Joins(E, L, a)
      BY <1>2, <1>5, Associative
    <3> QED
      BY <3>1, Zenon DEF Joins
  <2> QED
    BY <2>3, <2>4
<1>7. EchoChar(Readcb(E, s), ch) =
        IF ch = LF \/ Len(r) + 1 = MAX_LINE
        THEN [echo |-> (E \o t) \o (IF ch = LF THEN << >> ELSE <<LF>>), line |-> << >>]
        ELSE [echo |-> E \o L, line |-> a]
  <2> DEFINE X == E \o L
  <2>1. EchoChar([echo |-> X, line |-> r], ch) =
          IF ch = LF \/ Len(r) + 1 = MAX_LINE
          THEN [echo |-> X \o a \o (IF ch = LF THEN << >> ELSE <<LF>>), line |-> << >>]
          ELSE [echo |-> X, line |-> a]
    <3> HIDE DEF X, r
    <3>1. CASE ch = LF \/ Len(r) + 1 = MAX_LINE
      BY <3>1 DEF EchoChar
    <3>2. CASE ~(ch = LF \/ Len(r) + 1 = MAX_LINE)
      BY <3>2, LineChanges DEF EchoChar
    <3> QED
      BY <3>1, <3>2
  <2> QED
    BY <2>1, <1>3, <1>6
<1>8. CASE ch = LF
  <2>1. LinesEnd(t) = Len(t)
    BY <1>8, <1>4, EndOfAppend, EndIsOne
  <2>2. Rest(t) = << >> /\ SubSeq(t, 1, Len(t)) = t
    BY <2>1, <1>1, <1>4, SubSeqFull, SubSeqEmpty DEF Rest
  <2>3. ~TooLong(Rest(t))
    BY <2>2, <1>1 DEF TooLong
  <2>4. Readcb(E, t) = [echo |-> E \o t, line |-> << >>]
    BY <2>1, <2>2, <2>3 DEF Readcb, Answer, Kept
  <2>5. (E \o t) \o << >> = E \o t
    BY <1>4
  <2> QED
    BY <1>7, <1>8, <2>4, <2>5
<1>9. CASE ch # LF
  <2>1. LinesEnd(t) = n
    BY <1>9, <1>4, EndOfAppend, EndIsOne
  <2>2. Rest(t) = a /\ SubSeq(t, 1, n) = L
    <3>1. n + 1 \in 1 .. Len(s) + 1
      BY <1>1
    <3>2. SubSeq(t, n + 1, Len(s) + 1) = a /\ SubSeq(t, 1, n) = L
      BY <3>1, <1>1, PieceOfAppend
    <3> QED
      BY <2>1, <3>2, <1>4 DEF Rest
  <2>3. CASE Len(r) + 1 = MAX_LINE
    <3>1. TooLong(Rest(t))
      BY <2>2, <2>3, <1>5, <1>1 DEF TooLong
    <3>2. Readcb(E, t) = [echo |-> E \o Append(t, LF), line |-> << >>]
      BY <3>1 DEF Readcb, Answer, Kept
    <3>3. (E \o t) \o <<LF>> = E \o Append(t, LF)
      <4> HIDE DEF t
      <4>1. Append(t, LF) = t \o <<LF>> /\ <<LF>> \in Seq(Char)
        BY <1>4, <1>1, AppendIsConcat
      <4>2. Joins(E, t, <<LF>>)
        BY <4>1, <1>4, Associative
      <4> QED
        BY <4>1, <4>2, Zenon DEF Joins
    <3> QED
      BY <1>7, <1>9, <2>3, <3>2, <3>3
  <2>4. CASE Len(r) + 1 # MAX_LINE
    <3>1. ~TooLong(Rest(t))
      BY <2>2, <2>4, <1>2, <1>5, <1>1 DEF TooLong
    <3>2. Readcb(E, t) = [echo |-> E \o L, line |-> a]
      BY <2>1, <2>2, <3>1 DEF Readcb, Answer, Kept
    <3> QED
      BY <1>7, <1>9, <2>4, <3>2
  <2> QED
    BY <2>3, <2>4
<1> QED
  BY <1>8, <1>9

\* What readcb leaves has no newline and is shorter than a line may be.
LEMMA KeptFacts ==
  ASSUME NEW s \in Seq(Char), NEW n, IsEnd(n, s)
  PROVE  /\ Answer(s) \in Seq(Char) /\ Kept(s) \in Seq(Char)
         /\ Len(Kept(s)) < MAX_LINE /\ IsEnd(0, Kept(s))
<1>1. LinesEnd(s) = n /\ n \in 0 .. Len(s) /\ \A i \in n + 1 .. Len(s) : s[i] # LF
  BY EndIsOne DEF IsEnd
<1> DEFINE r == SubSeq(s, n + 1, Len(s))
<1>2. r \in Seq(Char) /\ SubSeq(s, 1, n) \in Seq(Char) /\ Len(r) = Len(s) - n
  BY <1>1, RestFacts
<1>3. Rest(s) = r
  BY <1>1 DEF Rest
<1>4. MAX_LINE \in Nat \ {0} /\ LF \in Char
  BY EchoAssumption
<1>5. Append(s, LF) \in Seq(Char)
  BY <1>4, AppendProperties
<1>6. ASSUME NEW i \in 1 .. Len(r) PROVE r[i] # LF
  <2> DEFINE m == n + 1
  <2>1. /\ m \in 1 .. Len(s) + 1 /\ Len(s) \in m - 1 .. Len(s)
        /\ i \in 1 .. Len(s) - m + 1 /\ m + i - 1 \in m .. Len(s)
    BY <1>1, <1>2
  <2>2. s[m + i - 1] # LF
    BY <1>1, <2>1
  <2>3. r = SubSeq(s, m, Len(s))
    OBVIOUS
  <2> HIDE DEF m, r
  <2>4. r[i] = s[m + i - 1]
    BY <2>1, <2>3, PieceFacts
  <2> QED
    BY <2>2, <2>4
<1> HIDE DEF r
<1>7. CASE TooLong(r)
  BY <1>1, <1>3, <1>4, <1>5, <1>7 DEF Answer, Kept, IsEnd
<1>8. CASE ~TooLong(r)
  <2>1. Answer(s) = SubSeq(s, 1, n) /\ Kept(s) = r
    BY <1>1, <1>3, <1>8 DEF Answer, Kept
  <2>2. Len(r) < MAX_LINE /\ 0 \in 0 .. Len(r)
    BY <1>2, <1>4, <1>8 DEF TooLong
  <2> QED
    BY <1>2, <1>6, <2>1, <2>2 DEF IsEnd
<1> QED
  BY <1>7, <1>8

\* One byte more of the stream.
LEMMA OneByteMore ==
  ASSUME NEW E \in Seq(Char), NEW x \in Seq(Char), NEW s \in Seq(Char),
         \E n : IsEnd(n, s), Len(s) < MAX_LINE, NEW ch \in Char,
         EchoOf[x] = Readcb(E, s)
  PROVE  /\ Append(s, ch) \in Seq(Char) /\ Len(Append(s, ch)) = Len(s) + 1
         /\ \E n : IsEnd(n, Append(s, ch))
         /\ EchoOf[Append(x, ch)] = Readcb(E, Append(s, ch))
<1>1. PICK n : IsEnd(n, s)
  OBVIOUS
<1>2. EchoOf[Append(x, ch)] = EchoChar(Readcb(E, s), ch)
  BY EchoOfAppend
<1>3. EchoChar(Readcb(E, s), ch) = Readcb(E, Append(s, ch))
  BY <1>1, ByteStep
<1>4. \E i : IsEnd(i, Append(s, ch))
  BY <1>1, EndOfAppend
<1> QED
  BY <1>2, <1>3, <1>4, AppendProperties

\* readcb with k bytes more in the buffer b sends what EchoOf says.
SameEcho(w, m, k, E, b) ==
  LET s == b \o SubSeq(w, m + 1, m + k)
  IN  /\ s \in Seq(Char) /\ \E n : IsEnd(n, s)
      /\ EchoOf[SubSeq(w, 1, m + k)] = Readcb(E, s)

\* A read of any size sends what its bytes one by one would have sent.
LEMMA ReadStep ==
  ASSUME NEW w \in Seq(Char), NEW m \in Nat, NEW k \in Nat, m + k <= Len(w),
         NEW E \in Seq(Char), NEW b \in Seq(Char), IsEnd(0, b),
         Len(b) < MAX_LINE, Len(b) + k <= MAX_LINE,
         EchoOf[SubSeq(w, 1, m)] = [echo |-> E, line |-> b]
  PROVE  SameEcho(w, m, k, E, b)
<1> DEFINE piece(j) == SubSeq(w, m + 1, m + j)
           s(j) == b \o piece(j)
           Done(j) == /\ s(j) \in Seq(Char) /\ Len(s(j)) = Len(b) + j
                      /\ \E n : IsEnd(n, s(j))
                      /\ EchoOf[SubSeq(w, 1, m + j)] = Readcb(E, s(j))
           T == {j \in Nat : j <= k => Done(j)}
<1>1. Done(0)
  <2>1. piece(0) = << >>
    BY SubSeqEmpty
  <2>2. s(0) = b /\ Len(b) \in Nat
    BY <2>1
  <2>3. SubSeq(b, 1, 0) = << >> /\ SubSeq(b, 0 + 1, Len(b)) = b
    BY SubSeqEmpty, SubSeqFull
  <2>4. Answer(b) = << >> /\ Kept(b) = b
    BY <2>3, ReadcbOfShort
  <2>5. E \o << >> = E
    OBVIOUS
  <2>6. EchoOf[SubSeq(w, 1, m + 0)] = Readcb(E, b)
    BY <2>4, <2>5 DEF Readcb
  <2>7. Len(b) = Len(b) + 0
    BY <2>2
  <2> HIDE DEF s
  <2> QED
    BY <2>2, <2>6, <2>7
<1>2. ASSUME NEW j \in Nat, j + 1 <= k, Done(j) PROVE Done(j + 1)
  <2> DEFINE ch == w[m + j + 1]
  <2>1. m + j + 1 \in 1 .. Len(w) /\ ch \in Char /\ Len(w) \in Nat
    BY <1>2
  <2>2. /\ piece(j + 1) = piece(j) \o <<ch>> /\ piece(j) \in Seq(Char)
        /\ SubSeq(w, 1, m + (j + 1)) = SubSeq(w, 1, m + j) \o <<ch>>
        /\ SubSeq(w, 1, m + j) \in Seq(Char)
    <3> DEFINE x == m + 1
               y == m + j + 1
    <3>1. /\ x \in 1 .. Len(w) /\ y \in x .. Len(w) /\ 1 \in 1 .. Len(w)
          /\ y \in 1 .. Len(w) /\ y - 1 = m + j /\ y = m + (j + 1)
          /\ x \in 1 .. Len(w) + 1 /\ y - 1 \in x - 1 .. Len(w)
          /\ 1 \in 1 .. Len(w) + 1 /\ y - 1 \in 1 - 1 .. Len(w)
      BY <2>1
    <3>2. x = m + 1 /\ ch = w[y]
      OBVIOUS
    <3> HIDE DEF x, y
    <3>3. /\ SubSeq(w, x, y) = SubSeq(w, x, y - 1) \o <<w[y]>>
          /\ SubSeq(w, 1, y) = SubSeq(w, 1, y - 1) \o <<w[y]>>
      BY <3>1, SubSeqRecursiveSecond
    <3>4. SubSeq(w, x, y - 1) \in Seq(Char) /\ SubSeq(w, 1, y - 1) \in Seq(Char)
      BY <3>1, PieceFacts
    <3> QED
      BY <3>1, <3>2, <3>3, <3>4
  <2>3. <<ch>> \in Seq(Char)
    BY <2>1
  <2>4. s(j + 1) = s(j) \o <<ch>>
    <3> HIDE DEF piece, ch
    <3>1. b \o (piece(j) \o <<ch>>) = (b \o piece(j)) \o <<ch>>
      <4>1. Joins(b, piece(j), <<ch>>)
        BY <2>2, <2>3, Associative
      <4> QED
        BY <4>1, Zenon DEF Joins
    <3> QED
      BY <2>2, <3>1
  <2>5. s(j) \in Seq(Char) /\ Len(s(j)) = Len(b) + j /\ Len(b) \in Nat
    BY <1>2
  <2>6. Len(s(j)) < MAX_LINE
    BY <1>2, <2>5, EchoAssumption
  <2>7. /\ \E n : IsEnd(n, s(j))
        /\ EchoOf[SubSeq(w, 1, m + j)] = Readcb(E, s(j))
    BY <1>2
  <2> HIDE DEF s, ch
  <2>8. /\ s(j + 1) = Append(s(j), ch)
        /\ SubSeq(w, 1, m + (j + 1)) = Append(SubSeq(w, 1, m + j), ch)
    BY <2>1, <2>2, <2>4, <2>5, AppendIsConcat
  <2>9. /\ s(j + 1) \in Seq(Char) /\ Len(s(j + 1)) = Len(s(j)) + 1
        /\ \E n : IsEnd(n, s(j + 1))
        /\ EchoOf[SubSeq(w, 1, m + (j + 1))] = Readcb(E, s(j + 1))
    <3> DEFINE x == SubSeq(w, 1, m + j)
               z == s(j)
    <3>1. /\ x \in Seq(Char) /\ z \in Seq(Char) /\ \E n : IsEnd(n, z)
          /\ Len(z) < MAX_LINE /\ EchoOf[x] = Readcb(E, z) /\ ch \in Char
      BY <2>1, <2>2, <2>5, <2>6, <2>7
    <3>2. s(j + 1) = Append(z, ch) /\ SubSeq(w, 1, m + (j + 1)) = Append(x, ch)
      BY <2>8
    <3> HIDE DEF x, z
    <3>3. /\ Append(z, ch) \in Seq(Char) /\ Len(Append(z, ch)) = Len(z) + 1
          /\ \E n : IsEnd(n, Append(z, ch))
          /\ EchoOf[Append(x, ch)] = Readcb(E, Append(z, ch))
      BY <3>1, OneByteMore, SMTT(30)
    <3> QED
      BY <3>2, <3>3 DEF z
  <2> QED
    BY <2>5, <2>9
<1> HIDE DEF Done
<1>3. T = Nat
  <2>1. 0 \in T
    BY <1>1
  <2>2. ASSUME NEW j \in T PROVE j + 1 \in T
    BY <1>2
  <2>3. T \in SUBSET Nat
    OBVIOUS
  <2> HIDE DEF T
  <2> QED
    BY <2>1, <2>2, <2>3, AllNumbers
<1>4. Done(k)
  <2>1. k \in T
    BY <1>3
  <2> QED
    BY <2>1
<1> QED
  BY <1>4 DEF Done, SameEcho

LEMMA EchoOfType ==
  \A s \in Seq(Char) : EchoOf[s] \in [echo : Seq(Char), line : Seq(Char)]
<1> DEFINE Result == [echo : Seq(Char), line : Seq(Char)]
           T == {n \in Nat : \A s \in Seq(Char) : Len(s) <= n => EchoOf[s] \in Result}
<1>1. EchoOf[<< >>] \in Result
  BY EchoOfNothing DEF NothingEchoed
<1>2. 0 \in T
  <2>1. ASSUME NEW s \in Seq(Char), Len(s) <= 0 PROVE s = << >>
    BY <2>1
  <2> HIDE DEF Result
  <2> QED
    BY <1>1, <2>1
<1>3. ASSUME NEW e \in Result, NEW ch \in Char PROVE EchoChar(e, ch) \in Result
  <2>1. e.echo \in Seq(Char) /\ e.line \in Seq(Char) /\ LF \in Char
    BY EchoAssumption
  <2>2. Append(e.line, ch) \in Seq(Char)
    BY <2>1
  <2>3. e.echo \o Append(e.line, ch) \o (IF ch = LF THEN << >> ELSE <<LF>>) \in Seq(Char)
    BY <2>1, <2>2
  <2>4. [e EXCEPT !.line = Append(@, ch)] \in Result
    BY <2>2
  <2> QED
    BY <2>3, <2>4 DEF EchoChar
<1>4. ASSUME NEW n \in T PROVE n + 1 \in T
  <2> HIDE DEF Result
  <2>1. ASSUME NEW s \in Seq(Char), Len(s) <= n + 1, s # << >>
        PROVE  EchoOf[s] \in Result
    <3>1. Front(s) \in Seq(Char) /\ Len(Front(s)) <= n /\ s[Len(s)] \in Char
      BY <2>1, FrontFacts
    <3>2. EchoOf[Front(s)] \in Result
      BY <3>1
    <3> QED
      BY <2>1, <3>1, <3>2, <1>3, EchoOfEquation DEF Equation
  <2> QED
    BY <1>1, <2>1
<1> HIDE DEF T
<1>5. T = Nat
  BY <1>2, <1>4, AllNumbers, T \in SUBSET Nat DEF T
<1>6. ASSUME NEW s \in Seq(Char) PROVE EchoOf[s] \in Result
  <2>1. Len(s) \in T /\ Len(s) <= Len(s)
    BY <1>5
  <2> QED
    BY <2>1 DEF T
<1> QED
  BY <1>6

------------------------------------------------------------------------------
(* The server.                                                             *)

\* The client program sends nothing before its first event.
ProgramInv == client = "connecting" => typed[Program] = << >>

\* readcb has left no whole line, and room below the watermark.
BufferInv == \A c \in Conn : IsEnd(0, input[c]) /\ Len(input[c]) < MAX_LINE

EchoInv == TypeOK /\ ProgramInv /\ BufferInv /\ EchoIsTheStream

\* The property, one connection at a time.
StreamOf(c) ==
  EchoOf[SubSeq(typed[c], 1, taken[c])] =
    [echo |-> echoed[c] \o output[c], line |-> input[c]]

LEMMA StreamOfAll ==
  ASSUME TypeOK
  PROVE  EchoIsTheStream <=> \A c \in Conn : StreamOf(c)
<1>1. ASSUME NEW c \in Conn
      PROVE  LET e == EchoOf[SubSeq(typed[c], 1, taken[c])]
             IN  (echoed[c] \o output[c] = e.echo /\ input[c] = e.line) <=> StreamOf(c)
  <2> DEFINE e == EchoOf[SubSeq(typed[c], 1, taken[c])]
  <2>1. SubSeq(typed[c], 1, taken[c]) \in Seq(Char)
    <3>1. typed[c] \in Seq(Char) /\ taken[c] \in 0 .. Len(typed[c])
      BY DEF TypeOK
    <3> QED
      BY <3>1, RestFacts
  <2>2. e \in [echo : Seq(Char), line : Seq(Char)]
    BY <2>1, EchoOfType
  <2>3. e = [echo |-> e.echo, line |-> e.line]
    <3> HIDE DEF e
    <3> QED
      BY <2>2
  <2>4. StreamOf(c) <=> e = [echo |-> echoed[c] \o output[c], line |-> input[c]]
    BY DEF StreamOf
  <2> HIDE DEF e
  <2>5. (echoed[c] \o output[c] = e.echo /\ input[c] = e.line)
          <=> e = [echo |-> echoed[c] \o output[c], line |-> input[c]]
    <3>1. ASSUME NEW x, NEW y, e = [echo |-> x, line |-> y]
          PROVE  e.echo = x /\ e.line = y
      BY <3>1
    <3>2. ASSUME echoed[c] \o output[c] = e.echo, input[c] = e.line
          PROVE  e = [echo |-> echoed[c] \o output[c], line |-> input[c]]
      BY <2>3, <3>2, Zenon
    <3>3. ASSUME e = [echo |-> echoed[c] \o output[c], line |-> input[c]]
          PROVE  echoed[c] \o output[c] = e.echo /\ input[c] = e.line
      BY <3>1, <3>3, Zenon
    <3> QED
      BY <3>2, <3>3, Zenon
  <2> QED
    BY <2>4, <2>5 DEF e
<1> QED
  BY <1>1 DEF EchoIsTheStream

LEMMA EchoInit == Init => EchoInv
<1> SUFFICES ASSUME Init PROVE EchoInv
  OBVIOUS
<1> USE EchoAssumption DEF Init
<1>1. << >> \in Seq(Char) /\ Len(<< >>) = 0
  OBVIOUS
<1>2. TypeOK
  BY <1>1 DEF TypeOK, Peer
<1>3. ProgramInv /\ BufferInv
  BY <1>1 DEF ProgramInv, BufferInv, IsEnd
<1>4. ASSUME NEW c \in Conn PROVE StreamOf(c)
  <2>1. SubSeq(typed[c], 1, taken[c]) = << >>
    BY SubSeqEmpty
  <2>2. echoed[c] \o output[c] = << >> /\ input[c] = << >>
    BY <1>1
  <2> QED
    BY <2>1, <2>2, EchoOfNothing DEF StreamOf, NothingEchoed
<1> QED
  BY <1>2, <1>3, <1>4, StreamOfAll DEF EchoInv

\* One read event, of as many bytes as the watermark lets through.
LEMMA ReadEventStep ==
  ASSUME EchoInv, NEW c \in Conn, ReadEvent(c)
  PROVE  /\ output' \in [Conn -> Seq(Char)] /\ input' \in [Conn -> Seq(Char)]
         /\ taken' \in [Conn -> Nat]
         /\ \A d \in Conn : taken'[d] <= Len(typed[d])
         /\ BufferInv' /\ \A d \in Conn : StreamOf(d)'
<1>1. PICK k \in 1 .. Unread(c) :
        /\ k <= HowMuch(c)
        /\ LET s == input[c] \o SubSeq(typed[c], taken[c] + 1, taken[c] + k)
           IN /\ output' = [output EXCEPT ![c] = @ \o Answer(s)]
              /\ input' = [input EXCEPT ![c] = Kept(s)]
        /\ taken' = [taken EXCEPT ![c] = @ + k]
  BY DEF ReadEvent
<1>2. UNCHANGED <<typed, echoed>>
  BY DEF ReadEvent, outVars
<1> DEFINE b == input[c]
           m == taken[c]
           w == typed[c]
           E == echoed[c] \o output[c]
           s == b \o SubSeq(w, m + 1, m + k)
<1>3. /\ w \in Seq(Char) /\ m \in Nat /\ b \in Seq(Char) /\ m <= Len(w)
      /\ echoed[c] \in Seq(Char) /\ output[c] \in Seq(Char)
  BY DEF EchoInv, TypeOK
<1>4. k \in Nat /\ m + k <= Len(w) /\ Len(b) + k <= MAX_LINE
  BY <1>1, <1>3, EchoAssumption DEF Unread, HowMuch
<1>5. IsEnd(0, b) /\ Len(b) < MAX_LINE
  BY DEF EchoInv, BufferInv
<1>6. EchoOf[SubSeq(w, 1, m)] = [echo |-> E, line |-> b]
  BY StreamOfAll DEF EchoInv, StreamOf
<1>7. E \in Seq(Char)
  BY <1>3
<1>8. /\ s \in Seq(Char) /\ \E n : IsEnd(n, s)
      /\ EchoOf[SubSeq(w, 1, m + k)] = Readcb(E, s)
  <2>1. SameEcho(w, m, k, E, b)
    <3> HIDE DEF b, m, w, E
    <3> QED
      BY <1>3, <1>4, <1>5, <1>6, <1>7, ReadStep
  <2> QED
    BY <2>1 DEF SameEcho
<1>9. /\ Answer(s) \in Seq(Char) /\ Kept(s) \in Seq(Char)
      /\ Len(Kept(s)) < MAX_LINE /\ IsEnd(0, Kept(s))
  <2> HIDE DEF s
  <2> QED
    BY <1>8, KeptFacts
<1>10. /\ output' = [output EXCEPT ![c] = @ \o Answer(s)]
       /\ input' = [input EXCEPT ![c] = Kept(s)]
       /\ taken' = [taken EXCEPT ![c] = @ + k]
  BY <1>1
<1>11. (echoed[c] \o output[c]) \o Answer(s) = echoed[c] \o (output[c] \o Answer(s))
  <2>1. Joins(echoed[c], output[c], Answer(s))
    BY <1>3, <1>9, Associative
  <2> QED
    BY <2>1, Zenon DEF Joins
<1> HIDE DEF s
<1>12. /\ output' \in [Conn -> Seq(Char)] /\ input' \in [Conn -> Seq(Char)]
       /\ taken' \in [Conn -> Nat]
       /\ \A d \in Conn : taken'[d] <= Len(typed[d])
  BY <1>3, <1>4, <1>9, <1>10 DEF EchoInv, TypeOK
<1>13. BufferInv'
  <2>1. ASSUME NEW d \in Conn PROVE IsEnd(0, input'[d]) /\ Len(input'[d]) < MAX_LINE
    <3>1. CASE d = c
      BY <3>1, <1>9, <1>10 DEF EchoInv, TypeOK
    <3>2. CASE d # c
      BY <3>2, <1>10 DEF EchoInv, TypeOK, BufferInv
    <3> QED
      BY <3>1, <3>2
  <2> QED
    BY <2>1 DEF BufferInv, IsEnd
<1>14. ASSUME NEW d \in Conn PROVE StreamOf(d)'
  <2>1. CASE d = c
    <3>1. /\ output'[c] = output[c] \o Answer(s) /\ input'[c] = Kept(s)
          /\ taken'[c] = taken[c] + k
      BY <1>10 DEF EchoInv, TypeOK
    <3>2. echoed'[c] \o output'[c] = E \o Answer(s)
      BY <1>2, <1>11, <3>1
    <3>3. EchoOf[SubSeq(typed'[c], 1, taken'[c])] =
            [echo |-> echoed'[c] \o output'[c], line |-> input'[c]]
      <4>1. EchoOf[SubSeq(typed'[c], 1, taken'[c])] = Readcb(E, s)
        BY <1>2, <1>8, <3>1
      <4> QED
        BY <4>1, <3>1, <3>2 DEF Readcb
    <3> QED
      BY <3>3, <2>1 DEF StreamOf
  <2>2. CASE d # c
    <3>1. /\ output'[d] = output[d] /\ input'[d] = input[d] /\ taken'[d] = taken[d]
      BY <1>10, <2>2 DEF EchoInv, TypeOK
    <3>2. StreamOf(d)
      BY StreamOfAll DEF EchoInv
    <3> QED
      BY <3>1, <3>2, <1>2 DEF StreamOf
  <2> QED
    BY <2>1, <2>2
<1> QED
  BY <1>12, <1>13, <1>14

LEMMA WriteEventStep ==
  ASSUME EchoInv, NEW c \in Conn, WriteEvent(c)
  PROVE  /\ output' \in [Conn -> Seq(Char)] /\ echoed' \in [Conn -> Seq(Char)]
         /\ \A d \in Conn : Len(echoed[d]) <= Len(echoed'[d])
         /\ \A d \in Conn : echoed'[d] \o output'[d] = echoed[d] \o output[d]
<1>1. PICK k \in 1 .. Len(output[c]) :
        /\ echoed' = [echoed EXCEPT ![c] = @ \o SubSeq(output[c], 1, k)]
        /\ output' = [output EXCEPT ![c] = SubSeq(@, k + 1, Len(@))]
  BY DEF WriteEvent
<1> DEFINE o == output[c]
           a == SubSeq(o, 1, k)
           z == SubSeq(o, k + 1, Len(o))
<1>2. o \in Seq(Char) /\ echoed[c] \in Seq(Char) /\ k \in 0 .. Len(o)
  BY <1>1 DEF EchoInv, TypeOK
<1>3. a \in Seq(Char) /\ z \in Seq(Char) /\ a \o z = o
  BY <1>2, RestFacts
<1>4. /\ echoed' = [echoed EXCEPT ![c] = @ \o a]
      /\ output' = [output EXCEPT ![c] = z]
  BY <1>1
<1> HIDE DEF a, z
<1>5. (echoed[c] \o a) \o z = echoed[c] \o (a \o z)
  <2>1. Joins(echoed[c], a, z)
    BY <1>2, <1>3, Associative
  <2> QED
    BY <2>1, Zenon DEF Joins
<1>6. /\ echoed[c] \o a \in Seq(Char) /\ Len(echoed[c]) <= Len(echoed[c] \o a)
  BY <1>2, <1>3
<1>7. output' \in [Conn -> Seq(Char)] /\ echoed' \in [Conn -> Seq(Char)]
  BY <1>3, <1>4, <1>6 DEF EchoInv, TypeOK
<1>8. ASSUME NEW d \in Conn
      PROVE  /\ Len(echoed[d]) <= Len(echoed'[d])
             /\ echoed'[d] \o output'[d] = echoed[d] \o output[d]
  <2>1. CASE d = c
    <3>1. echoed'[c] = echoed[c] \o a /\ output'[c] = z
      BY <1>4 DEF EchoInv, TypeOK
    <3> QED
      BY <3>1, <1>3, <1>5, <1>6, <2>1
  <2>2. CASE d # c
    <3>1. echoed'[d] = echoed[d] /\ output'[d] = output[d] /\ echoed[d] \in Seq(Char)
      BY <1>4, <2>2 DEF EchoInv, TypeOK
    <3> QED
      BY <3>1
  <2> QED
    BY <2>1, <2>2
<1> QED
  BY <1>7, <1>8

------------------------------------------------------------------------------
(* Every step.                                                             *)

LEMMA HeldFinite ==
  ASSUME TypeOK
  PROVE  /\ IsFiniteSet(held) /\ Cardinality(held) \in Nat
         /\ \A c \in Conn : /\ Cardinality(held \cup {c}) \in Nat
                           /\ Cardinality(held \cup {c}) <= Cardinality(held) + 1
<1>1. IsFiniteSet(held) /\ Cardinality(held) \in Nat
  BY EchoAssumption, FS_Subset, FS_CardinalityType DEF TypeOK
<1>2. ASSUME NEW c \in Conn
      PROVE  /\ Cardinality(held \cup {c}) \in Nat
             /\ Cardinality(held \cup {c}) <= Cardinality(held) + 1
  <2>1. Cardinality(held \cup {c}) =
          IF c \in held THEN Cardinality(held) ELSE Cardinality(held) + 1
    BY <1>1, FS_AddElement
  <2> QED
    BY <1>1, <2>1
<1> QED
  BY <1>1, <1>2

LEMMA TypeOfOthers ==
  ASSUME EchoInv, Others \/ Established
  PROVE  TypeOK'
<1> USE EchoAssumption DEF EchoInv, TypeOK, Peer
<1>1. ASSUME NEW c \in Conn, Connect(c) PROVE TypeOK'
  BY <1>1 DEF Connect, NewFd, enabledVars, bufferVars, inVars, outVars
<1>2. ASSUME NEW c \in Conn, Receive(c) PROVE TypeOK'
  <2>1. got' = [got EXCEPT ![c] = @ + 1] /\ got[c] < Len(echoed[c])
    BY <1>2 DEF Receive
  <2>2. \A d \in Conn : Len(echoed[d]) \in Nat
    OBVIOUS
  <2>3. got' \in [Conn -> Nat]
    <3>1. got \in [Conn -> Nat]
      BY Zenon
    <3> HIDE DEF EchoInv, TypeOK
    <3>2. got[c] + 1 \in Nat
      BY <3>1
    <3> QED
      BY <2>1, <3>1, <3>2
  <2>4. ASSUME NEW d \in Conn PROVE got'[d] <= Len(echoed[d])
    <3>1. got'[d] = IF d = c THEN got[c] + 1 ELSE got[d]
      BY <2>1
    <3> QED
      BY <2>1, <2>2, <3>1
  <2> QED
    BY <1>2, <2>3, <2>4 DEF Receive, NewFd, acceptVars, enabledVars, bufferVars, inVars
<1>3. ASSUME NEW c \in Conn, HangUp(c) PROVE TypeOK'
  BY <1>3 DEF HangUp, NewFd, acceptVars, enabledVars, bufferVars, inVars, outVars
<1>4. ASSUME NEW c \in Conn, NEW ch \in Char, TypeChar(c, ch) PROVE TypeOK'
  <2>1. typed' = [typed EXCEPT ![c] = Append(@, ch)] /\ typed[c] \in Seq(Char)
    BY <1>4 DEF TypeChar
  <2>2. Append(typed[c], ch) \in Seq(Char) /\ Len(Append(typed[c], ch)) = Len(typed[c]) + 1
    BY <2>1
  <2>3. typed' \in [Conn -> Seq(Char)]
    BY <2>1, <2>2
  <2>4. \A d \in Conn : taken[d] <= Len(typed'[d])
    <3> SUFFICES ASSUME NEW d \in Conn PROVE taken[d] <= Len(typed'[d])
      OBVIOUS
    <3>1. taken[d] \in Nat /\ Len(typed[d]) \in Nat /\ taken[d] <= Len(typed[d])
      OBVIOUS
    <3>2. typed'[d] = IF d = c THEN Append(typed[c], ch) ELSE typed[d]
      BY <2>1
    <3> QED
      BY <3>1, <3>2, <2>2
  <2> QED
    BY <1>4, <2>3, <2>4
    DEF TypeChar, NewFd, acceptVars, enabledVars, bufferVars, outVars
<1> QED
  BY <1>1, <1>2, <1>3, <1>4 DEF Others, Established

LEMMA TypeOfProgram ==
  ASSUME EchoInv, ClientProgram
  PROVE  TypeOK'
<1> USE EchoAssumption DEF EchoInv, TypeOK, Peer
<1>1. CASE WriteCb
  <2>1. taken[Program] = 0
    BY <1>1 DEF WriteCb, ProgramInv
  <2> QED
    BY <1>1, <2>1 DEF WriteCb, NewFd, acceptVars, enabledVars, bufferVars, outVars
<1>2. CASE WriteCbTimeout
  BY <1>2 DEF WriteCbTimeout, NewFd, acceptVars, enabledVars, bufferVars, inVars, outVars
<1>3. ASSUME NEW k \in 1 .. SendSize, ReadCb(k) PROVE TypeOK'
  <2>1. /\ k \in 1 .. Len(echoed[Program]) - got[Program]
        /\ got' = [got EXCEPT ![Program] = @ + k]
    BY <1>3 DEF ReadCb
  <2>2. got[Program] \in Nat /\ Len(echoed[Program]) \in Nat /\ k \in Nat
    BY <1>3
  <2>3. got' \in [Conn -> Nat] /\ \A d \in Conn : got'[d] <= Len(echoed[d])
    BY <2>1, <2>2
  <2>4. peer' \in [Conn -> Peer] /\ client' \in {"connecting", "reading", "waiting", "ended"}
    BY <1>3 DEF ReadCb
  <2>5. UNCHANGED <<server, acceptVars, enabledVars, bufferVars, inVars, echoed>>
    BY <1>3 DEF ReadCb
  <2> QED
    BY <2>3, <2>4, <2>5 DEF NewFd, acceptVars, enabledVars, bufferVars, inVars
<1>4. CASE ReadCbEnd
  BY <1>4 DEF ReadCbEnd, NewFd, acceptVars, enabledVars, bufferVars, inVars, outVars
<1> QED
  BY <1>1, <1>2, <1>3, <1>4 DEF ClientProgram

\* What is within a stream is within a longer one.
LEMMA WithinLonger ==
  \A s \in Seq(Char), t \in Seq(Char), n \in Nat :
    n <= Len(s) /\ Len(s) <= Len(t) => n <= Len(t)
<1>1. \A t \in Seq(Char) : Len(t) \in Nat
  OBVIOUS
<1> QED
  BY <1>1

\* A client has read no more than was written to it.
LEMMA GotWithin ==
  ASSUME EchoInv, NEW c \in Conn, WriteEvent(c), NEW d \in Conn
  PROVE  got'[d] <= Len(echoed'[d])
<1>1. got[d] \in Nat /\ echoed[d] \in Seq(Char) /\ got[d] <= Len(echoed[d])
  BY DEF EchoInv, TypeOK
<1>2. echoed'[d] \in Seq(Char) /\ Len(echoed[d]) <= Len(echoed'[d])
  BY WriteEventStep
<1>3. got'[d] = got[d]
  BY DEF WriteEvent
<1>4. got[d] <= Len(echoed'[d])
  BY <1>1, <1>2, WithinLonger
<1> QED
  BY <1>3, <1>4

LEMMA TypeOfServer ==
  ASSUME EchoInv, DoAccept \/ \E c \in Conn : Reads(c) \/ Writes(c)
  PROVE  TypeOK'
<1> USE EchoAssumption DEF EchoInv, TypeOK, Peer
<1>1. CASE DoAccept
  <2>1. PICK c \in backlog :
          /\ backlog' = backlog \ {c}
          /\ IF TooHigh(NewFd)
             THEN dropped' = dropped \cup {c} /\ UNCHANGED <<held, enabledVars>>
             ELSE /\ held' = held \cup {c}
                  /\ reading' = reading \cup {c}
                  /\ writing' = writing \cup {c}
                  /\ UNCHANGED dropped
    BY <1>1 DEF DoAccept
  <2>2. UNCHANGED <<server, first_fd, nofile, bufferVars, peer, inVars, outVars, client>>
    BY <1>1 DEF DoAccept
  <2>3. CASE TooHigh(NewFd)
    <3>1. UNCHANGED <<held, reading, writing>> /\ dropped' \subseteq Conn
      BY <2>1, <2>3 DEF enabledVars
    <3> QED
      BY <2>1, <2>2, <3>1 DEF NewFd, bufferVars, inVars, outVars
  <2>4. CASE ~TooHigh(NewFd)
    <3>1. held' = held \cup {c} /\ c \in Conn
      BY <2>1, <2>4
    <3>2. /\ Cardinality(held') <= Cardinality(held) + 1
          /\ Cardinality(held) \in Nat /\ Cardinality(held') \in Nat
      BY <3>1, HeldFinite
    <3>3. first_fd \in Nat /\ first_fd' = first_fd /\ FD_SETSIZE \in Nat
      BY <2>2
    <3>4. first_fd + Cardinality(held) <= FD_SETSIZE
      BY <2>4, <3>2, <3>3 DEF TooHigh, NewFd
    <3>5. (first_fd' + Cardinality(held')) - 1 <= FD_SETSIZE
      <4>1. \A a, h, m, f \in Nat : a + h <= f /\ m <= h + 1 => (a + m) - 1 <= f
        OBVIOUS
      <4> QED
        BY <3>2, <3>3, <3>4, <4>1
    <3>6. /\ reading' = reading \cup {c} /\ writing' = writing \cup {c}
          /\ dropped' = dropped
      BY <2>1, <2>4
    <3>7. reading' \subseteq held' /\ writing' \subseteq held' /\ held' \subseteq Conn
      BY <3>1, <3>6
    <3> QED
      <4>1. backlog' \subseteq Conn /\ dropped' \subseteq Conn
        BY <2>1, <3>6
      <4>2. held' # {} => NewFd' - 1 <= FD_SETSIZE
        BY <3>5 DEF NewFd
      <4> QED
        BY <2>2, <3>7, <4>1, <4>2 DEF bufferVars, inVars, outVars
  <2> QED
    BY <2>3, <2>4
<1>2. ASSUME NEW c \in Conn, ReadEvent(c) PROVE TypeOK'
  <2>1. /\ output' \in [Conn -> Seq(Char)] /\ input' \in [Conn -> Seq(Char)]
        /\ taken' \in [Conn -> Nat]
        /\ \A d \in Conn : taken'[d] <= Len(typed[d])
    BY <1>2, ReadEventStep
  <2> QED
    BY <1>2, <2>1 DEF ReadEvent, NewFd, acceptVars, enabledVars, outVars
<1>3. ASSUME NEW c \in Conn, ReadEnds(c) PROVE TypeOK'
  BY <1>3 DEF ReadEnds, NewFd, acceptVars, bufferVars, inVars, outVars
<1>4. ASSUME NEW c \in Conn, WriteEvent(c) PROVE TypeOK'
  <2>1. /\ output' \in [Conn -> Seq(Char)] /\ echoed' \in [Conn -> Seq(Char)]
        /\ \A d \in Conn : Len(echoed[d]) <= Len(echoed'[d])
    BY <1>4, WriteEventStep
  <2>2. UNCHANGED <<server, acceptVars, enabledVars, input, inVars, got, client>>
    BY <1>4 DEF WriteEvent
  <2>3. peer' \in [Conn -> Peer]
    BY <1>4 DEF WriteEvent
  <2>4. \A d \in Conn : got'[d] <= Len(echoed'[d])
    BY <1>4, GotWithin, EchoInv
  <2> QED
    BY <2>1, <2>2, <2>3, <2>4 DEF NewFd, acceptVars, enabledVars, inVars
<1>5. ASSUME NEW c \in Conn, WriteFails(c) \/ KilledBySigpipe(c) PROVE TypeOK'
  BY <1>5 DEF WriteFails, KilledBySigpipe, NewFd, acceptVars, enabledVars, bufferVars,
              inVars, outVars
<1> QED
  BY <1>1, <1>2, <1>3, <1>4, <1>5 DEF Reads, Writes

LEMMA ProgramStep == EchoInv /\ [Next]_vars => ProgramInv'
<1> SUFFICES ASSUME EchoInv, [Next]_vars PROVE ProgramInv'
  OBVIOUS
<1> USE DEF EchoInv, ProgramInv
<1>1. CASE Others
  <2>1. client' = client /\ typed'[Program] = typed[Program]
    <3>1. ASSUME NEW c \in Conn \ {Program}, NEW ch \in Char, TypeChar(c, ch)
          PROVE  client' = client /\ typed'[Program] = typed[Program]
      BY <3>1 DEF TypeChar, TypeOK
    <3>2. ASSUME NEW c \in Conn, Connect(c) \/ Receive(c) \/ HangUp(c)
          PROVE  client' = client /\ typed'[Program] = typed[Program]
      BY <3>2 DEF Connect, Receive, HangUp, inVars
    <3> QED
      BY <1>1, <3>1, <3>2 DEF Others
  <2> QED
    BY <2>1
<1>2. CASE Established
  BY <1>2 DEF Established, Connect, inVars
<1>3. CASE ClientProgram
  BY <1>3 DEF ClientProgram, WriteCb, WriteCbTimeout, ReadCb, ReadCbEnd, inVars
<1>4. CASE DoAccept
  BY <1>4 DEF DoAccept, inVars
<1>5. ASSUME NEW c \in Conn, Reads(c) \/ Writes(c) PROVE ProgramInv'
  BY <1>5 DEF Reads, Writes, ReadEvent, ReadEnds, WriteEvent, WriteFails,
              KilledBySigpipe, inVars
<1>6. CASE UNCHANGED vars
  BY <1>6 DEF vars, inVars
<1> QED
  BY <1>1, <1>2, <1>3, <1>4, <1>5, <1>6 DEF Next

\* Bytes that come later change nothing of what was read before.
LEMMA TypedLater ==
  ASSUME EchoInv, NEW c \in Conn, NEW w \in Seq(Char), taken[c] <= Len(w),
         \A i \in 1 .. taken[c] : w[i] = typed[c][i]
  PROVE  SubSeq(w, 1, taken[c]) = SubSeq(typed[c], 1, taken[c])
<1> DEFINE n == taken[c]
           v == typed[c]
<1>1. v \in Seq(Char) /\ n \in 0 .. Len(v) /\ n \in Nat /\ n \in 0 .. Len(w)
  BY DEF EchoInv, TypeOK
<1>2. /\ 1 \in 1 .. Len(v) + 1 /\ n \in 1 - 1 .. Len(v)
      /\ 1 \in 1 .. Len(w) + 1 /\ n \in 1 - 1 .. Len(w) /\ n - 1 + 1 = n
  BY <1>1
<1> DEFINE a == SubSeq(w, 1, n)
           b == SubSeq(v, 1, n)
<1>3. w \in Seq(Char) /\ \A i \in 1 .. n : w[i] = v[i]
  OBVIOUS
<1> HIDE DEF n, v
<1>4. a \in Seq(Char) /\ Len(a) = n /\ \A i \in 1 .. n : a[i] = w[1 + i - 1]
  BY <1>1, <1>2, <1>3, PieceFacts, Zenon
<1>5. b \in Seq(Char) /\ Len(b) = n /\ \A i \in 1 .. n : b[i] = v[1 + i - 1]
  BY <1>1, <1>2, PieceFacts, Zenon
<1> HIDE DEF a, b
<1>6. ASSUME NEW i \in 1 .. Len(a) PROVE a[i] = b[i]
  <2>1. i \in 1 .. n /\ 1 + i - 1 = i
    BY <1>1, <1>4
  <2> QED
    BY <2>1, <1>3, <1>4, <1>5
<1>7. a = b
  BY <1>4, <1>5, <1>6, SeqEqual
<1> QED
  BY <1>7 DEF a, b, n, v

LEMMA StreamStep ==
  ASSUME EchoInv, [Next]_vars
  PROVE  BufferInv' /\ \A d \in Conn : StreamOf(d)'
<1>1. \A d \in Conn : StreamOf(d)
  BY StreamOfAll DEF EchoInv
<1>2. ASSUME UNCHANGED <<typed, taken, echoed, output, input>>
      PROVE  BufferInv' /\ \A d \in Conn : StreamOf(d)'
  BY <1>1, <1>2 DEF EchoInv, BufferInv, IsEnd, StreamOf
<1>3. ASSUME NEW c \in Conn, NEW w \in Seq(Char), taken[c] <= Len(w),
             \A i \in 1 .. taken[c] : w[i] = typed[c][i],
             typed' = [typed EXCEPT ![c] = w],
             UNCHANGED <<taken, echoed, output, input>>
      PROVE  BufferInv' /\ \A d \in Conn : StreamOf(d)'
  <2>1. BufferInv'
    BY <1>3 DEF EchoInv, BufferInv, IsEnd
  <2>2. ASSUME NEW d \in Conn
        PROVE  SubSeq(typed'[d], 1, taken[d]) = SubSeq(typed[d], 1, taken[d])
    <3>1. CASE d = c
      <4>1. typed'[c] = w
        BY <1>3 DEF EchoInv, TypeOK
      <4>2. SubSeq(w, 1, taken[c]) = SubSeq(typed[c], 1, taken[c])
        BY <1>3, TypedLater
      <4> QED
        BY <3>1, <4>1, <4>2
    <3>2. CASE d # c
      <4>1. typed'[d] = typed[d]
        BY <1>3, <3>2 DEF EchoInv, TypeOK
      <4> QED
        BY <4>1
    <3> QED
      BY <3>1, <3>2
  <2>3. ASSUME NEW d \in Conn PROVE StreamOf(d)'
    BY <1>1, <1>3, <2>2 DEF StreamOf
  <2> QED
    BY <2>1, <2>3
<1>4. CASE Others
  <2>1. ASSUME NEW c \in Conn, NEW ch \in Char, TypeChar(c, ch)
        PROVE  BufferInv' /\ \A d \in Conn : StreamOf(d)'
    <3> DEFINE w == Append(typed[c], ch)
    <3>1. typed[c] \in Seq(Char) /\ taken[c] \in Nat /\ taken[c] <= Len(typed[c])
      BY DEF EchoInv, TypeOK
    <3>2. /\ w \in Seq(Char) /\ taken[c] <= Len(w)
          /\ \A i \in 1 .. taken[c] : w[i] = typed[c][i]
      BY <3>1
    <3>3. /\ typed' = [typed EXCEPT ![c] = w]
          /\ UNCHANGED <<taken, echoed, output, input>>
      BY <2>1 DEF TypeChar, bufferVars, outVars
    <3> HIDE DEF w
    <3> QED
      BY <1>3, <3>2, <3>3
  <2>2. ASSUME NEW c \in Conn, Connect(c) \/ Receive(c) \/ HangUp(c)
        PROVE  UNCHANGED <<typed, taken, echoed, output, input>>
    BY <2>2 DEF Connect, Receive, HangUp, bufferVars, inVars, outVars
  <2> QED
    BY <1>2, <1>4, <2>1, <2>2 DEF Others
<1>5. CASE Established \/ DoAccept \/ UNCHANGED vars
  <2>1. UNCHANGED <<typed, taken, echoed, output, input>>
    BY <1>5 DEF Established, Connect, DoAccept, vars, bufferVars, inVars, outVars
  <2> QED
    BY <1>2, <2>1
<1>6. CASE ClientProgram
  <2>1. CASE WriteCb /\ ~Cut(Program)
    <3>1. taken[Program] = 0 /\ Program \in Conn /\ echo_contents \in Seq(Char)
      BY <2>1, EchoAssumption DEF WriteCb, EchoInv, ProgramInv, TypeOK
    <3>2. /\ taken[Program] <= Len(echo_contents)
          /\ \A i \in 1 .. taken[Program] : echo_contents[i] = typed[Program][i]
      BY <3>1
    <3>3. /\ typed' = [typed EXCEPT ![Program] = echo_contents]
          /\ UNCHANGED <<taken, echoed, output, input>>
      BY <2>1 DEF WriteCb, bufferVars, outVars
    <3> QED
      BY <1>3, <3>1, <3>2, <3>3
  <2>2. CASE ~(WriteCb /\ ~Cut(Program))
    <3>1. UNCHANGED <<typed, taken, echoed, output, input>>
      BY <1>6, <2>2
      DEF ClientProgram, WriteCb, WriteCbTimeout, ReadCb, ReadCbEnd, bufferVars, inVars, outVars
    <3> QED
      BY <1>2, <3>1
  <2> QED
    BY <2>1, <2>2
<1>7. ASSUME NEW c \in Conn, ReadEvent(c)
      PROVE  BufferInv' /\ \A d \in Conn : StreamOf(d)'
  BY <1>7, ReadEventStep
<1>8. ASSUME NEW c \in Conn, WriteEvent(c)
      PROVE  BufferInv' /\ \A d \in Conn : StreamOf(d)'
  <2>1. UNCHANGED <<typed, taken, input>>
    BY <1>8 DEF WriteEvent, inVars
  <2>2. \A d \in Conn : echoed'[d] \o output'[d] = echoed[d] \o output[d]
    BY <1>8, WriteEventStep
  <2>3. BufferInv'
    BY <2>1 DEF EchoInv, BufferInv, IsEnd
  <2> QED
    BY <1>1, <2>1, <2>2, <2>3 DEF StreamOf
<1>9. ASSUME NEW c \in Conn, ReadEnds(c) \/ WriteFails(c) \/ KilledBySigpipe(c)
      PROVE  UNCHANGED <<typed, taken, echoed, output, input>>
  BY <1>9 DEF ReadEnds, WriteFails, KilledBySigpipe, bufferVars, inVars, outVars
<1> QED
  BY <1>2, <1>4, <1>5, <1>6, <1>7, <1>8, <1>9 DEF Next, Reads, Writes

(***************************************************************************)
(* The types, the room in the buffers, and what was read is what was       *)
(* answered, in every state.                                               *)
(***************************************************************************)
THEOREM EchoCorrect == Spec => []EchoInv
<1> DEFINE Streams == \A d \in Conn : StreamOf(d)
<1>1. TypeOK => (EchoIsTheStream <=> Streams)
  BY StreamOfAll
<1>2. EchoInv /\ [Next]_vars => EchoInv'
  <2> SUFFICES ASSUME EchoInv, [Next]_vars PROVE EchoInv'
    OBVIOUS
  <2>1. TypeOK'
    <3>1. UNCHANGED vars => TypeOK'
      BY DEF EchoInv, TypeOK, NewFd, vars, acceptVars, enabledVars, bufferVars,
             inVars, outVars
    <3> QED
      BY <3>1, TypeOfOthers, TypeOfProgram, TypeOfServer DEF Next
  <2>2. ProgramInv' /\ BufferInv' /\ Streams'
    BY ProgramStep, StreamStep
  <2> HIDE DEF Streams
  <2>3. TypeOK' => (EchoIsTheStream' <=> Streams')
    BY <1>1, PTL
  <2> QED
    BY <2>1, <2>2, <2>3 DEF EchoInv
<1> QED
  BY <1>2, EchoInit, PTL DEF Spec

(***************************************************************************)
(* Every variable of the server and the clients holds what it should; a    *)
(* connection that is kept has a descriptor of at most FD_SETSIZE          *)
(* (originEchoServer.cpp:107-113).                                         *)
(***************************************************************************)
THEOREM TypeCorrect == Spec => []TypeOK
BY EchoCorrect, PTL DEF EchoInv

(***************************************************************************)
(* What goes back on a connection is what an echo of one byte after the    *)
(* other gives, however the reads and writes were cut and interleaved with *)
(* those of others (originEchoServer.cpp:58-94, 128).                      *)
(***************************************************************************)
THEOREM StreamCorrect == Spec => []EchoIsTheStream
BY EchoCorrect, PTL DEF EchoInv

(***************************************************************************)
(* The high watermark never stops a connection for good: readcb leaves     *)
(* room for a byte in every buffer (originEchoServer.cpp:84-94, 128).      *)
(***************************************************************************)
THEOREM RoomCorrect == Spec => [](\A c \in Conn : HowMuch(c) > 0)
<1>1. EchoInv => \A c \in Conn : HowMuch(c) > 0
  <2> SUFFICES ASSUME EchoInv, NEW c \in Conn PROVE HowMuch(c) > 0
    OBVIOUS
  <2>1. Len(input[c]) < MAX_LINE /\ input[c] \in Seq(Char) /\ MAX_LINE \in Nat
    BY EchoAssumption DEF EchoInv, BufferInv, TypeOK
  <2> QED
    BY <2>1 DEF HowMuch
<1> QED
  BY <1>1, EchoCorrect, PTL

==============================================================================
