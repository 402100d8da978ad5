----------------------------- MODULE PacketHeader -----------------------------
(***************************************************************************)
(* The message classes of protobufTest/packet.pb.h and packet.pb.cc as     *)
(* functions: PacketHeader with its nested LoginPacket and                 *)
(* ConnectedPacket, their accessors, their bytes, and what                 *)
(* PacketHandler.cpp makes of them.                                        *)
(*                                                                         *)
(* An object is one record with the has bits and the values of all three   *)
(* classes.  A byte is a number; tags, lengths and values are below 128,   *)
(* one byte each.  Fields of other numbers (unknown_fields) do not occur:  *)
(* no program of the repository sends one.                                 *)
(***************************************************************************)
EXTENDS Integers, Sequences, FiniteSets

HeaderField == {"login_packet", "connected_packet", "auth_code"}
LoginField == {"username", "password", "version"}
ConnectedField == {"connected", "character_list"}

NumberField == {"version", "connected"}
StringField == {"username", "password", "character_list", "auth_code"}
Field == HeaderField \cup LoginField \cup ConnectedField

\* The fields of a nested message; none for the others.
Nested(f) ==
  CASE f = "login_packet" -> LoginField
    [] f = "connected_packet" -> ConnectedField
    [] OTHER -> {}

\* A new object: SharedCtor of the three classes.
Empty == [has |-> {},
          str |-> [f \in StringField |-> << >>],
          num |-> [f \in NumberField |-> 0]]

------------------------------------------------------------------------------
(* Accessors.                                                              *)

\* mutable_login_packet() and mutable_connected_packet() set the bit of the
\* nested message, the setter of the field its own.
Parent(f) == {g \in HeaderField : f \in Nested(g)}

SetString(m, f, v) ==
  [m EXCEPT !.has = @ \cup {f} \cup Parent(f), !.str[f] = v]

SetNumber(m, f, v) ==
  [m EXCEPT !.has = @ \cup {f} \cup Parent(f), !.num[f] = v]

SetMessage(m, f) == [m EXCEPT !.has = @ \cup {f}]

\* clear_<f>() of a string or number, and release_<f>() of a string.
ClearField(m, f) ==
  [m EXCEPT !.has = @ \ {f},
            !.str = [g \in StringField |-> IF g = f THEN << >> ELSE @[g]],
            !.num = [g \in NumberField |-> IF g = f THEN 0 ELSE @[g]]]

\* Mutant of ClearIn: the numbers keep their values.
ClearStringsIn(m, F) ==
  [m EXCEPT !.has = @ \ F,
            !.str = [f \in StringField |->
                       IF f \in F \cap m.has THEN << >> ELSE @[f]]]

\* Clear() of a class with the fields F: strings whose bit is set are emptied,
\* the number is zeroed if any bit is.
ClearIn(m, F) ==
  [has |-> m.has \ F,
   str |-> [f \in StringField |->
              IF f \in F \cap m.has THEN << >> ELSE m.str[f]],
   num |-> [f \in NumberField |->
              IF f \in F /\ F \cap m.has # {} THEN 0 ELSE m.num[f]]]

ClearConnected(m) == ClearIn(m, ConnectedField)

ClearLogin(m) == ClearIn(m, LoginField)

\* clear_login_packet() and clear_connected_packet(), and their release.
ClearMessage(m, f) ==
  [(IF f = "login_packet" THEN ClearLogin(m) ELSE ClearConnected(m))
     EXCEPT !.has = @ \ {f}]

\* PacketHeader::Clear(): a nested message is cleared if its bit is set.
Clear(m) ==
  LET login == IF "login_packet" \in m.has THEN ClearLogin(m) ELSE m
      both == IF "connected_packet" \in m.has THEN ClearConnected(login) ELSE login
  IN ClearIn(both, HeaderField)

\* MergeFrom() of a class: which of the fields F is set in from is set here.
MergeIn(m, from, F) ==
  LET G == F \cap from.has
  IN [has |-> m.has \cup G,
      str |-> [f \in StringField |-> IF f \in G THEN from.str[f] ELSE m.str[f]],
      num |-> [f \in NumberField |-> IF f \in G THEN from.num[f] ELSE m.num[f]]]

MergeConnected(m, from) == MergeIn(m, from, ConnectedField)

MergeLogin(m, from) == MergeIn(m, from, LoginField)

MergeFrom(m, from) ==
  LET login == IF "login_packet" \in from.has
               THEN MergeLogin(SetMessage(m, "login_packet"), from) ELSE m
      both == IF "connected_packet" \in from.has
              THEN MergeConnected(SetMessage(login, "connected_packet"), from)
              ELSE login
  IN MergeIn(both, from, {"auth_code"})

CopyFrom(m, from) == MergeFrom(Clear(m), from)

------------------------------------------------------------------------------
(* Serialisation.                                                          *)

StringBytes(m, tag, f) ==
  IF f \in m.has THEN <<tag, Len(m.str[f])>> \o m.str[f] ELSE << >>

NumberBytes(m, tag, f) ==
  IF f \in m.has THEN <<tag, m.num[f]>> ELSE << >>

LoginBytes(m) ==
  StringBytes(m, 18, "username") \o StringBytes(m, 26, "password")
    \o NumberBytes(m, 32, "version")

ConnectedBytes(m) ==
  NumberBytes(m, 8, "connected") \o StringBytes(m, 18, "character_list")

\* ByteSize(): sizes are added up before a byte is written.
StringSize(m, f) == IF f \in m.has THEN 2 + Len(m.str[f]) ELSE 0
NumberSize(m, f) == IF f \in m.has THEN 2 ELSE 0

LoginSize(m) ==
  StringSize(m, "username") + StringSize(m, "password") + NumberSize(m, "version")

\* Mutant of ConnectedSize: character_list is left out.
ConnectedNumberSize(m) == NumberSize(m, "connected")

ConnectedSize(m) ==
  NumberSize(m, "connected") + StringSize(m, "character_list")

ByteSize(m) ==
  (IF "login_packet" \in m.has THEN 2 + LoginSize(m) ELSE 0)
    + (IF "connected_packet" \in m.has THEN 2 + ConnectedSize(m) ELSE 0)
    + StringSize(m, "auth_code")

\* A nested message is preceded by the size ByteSize() has cached for it.
SerializeToString(m) ==
  (IF "login_packet" \in m.has
   THEN <<10, LoginSize(m)>> \o LoginBytes(m) ELSE << >>)
    \o (IF "connected_packet" \in m.has
        THEN <<18, ConnectedSize(m)>> \o ConnectedBytes(m) ELSE << >>)
    \o StringBytes(m, 26, "auth_code")

------------------------------------------------------------------------------
(* Parsing, byte by byte: MergePartialFromCodedStream of the three classes *)
(* as one automaton.  Wherever the bytes end, what has been read so far    *)
(* stays in the object, and the bit of a string or message is set before   *)
(* its length is read (mutable_<f>() is an argument of the read).          *)

Message == [has : SUBSET Field,
            str : [StringField -> Seq(Nat)],
            num : [NumberField -> Nat]]

Parser == [ok : BOOLEAN, msg : Message,
           message : {"header", "login_packet", "connected_packet"},
           room : Nat,
           want : {"tag", "value", "length", "bytes"},
           field : Field, left : Nat]

Reading(m) ==
  [ok |-> TRUE, msg |-> m, message |-> "header", room |-> 0,
   want |-> "tag", field |-> "auth_code", left |-> 0]

\* The field that a class reads behind a tag, if there is one: the cases of
\* its MergePartialFromCodedStream.
ConnectedCase(b) ==
  CASE b = 8 -> {"connected"}
    [] b = 18 -> {"character_list"}
    [] OTHER -> {}

LoginCase(b) ==
  CASE b = 18 -> {"username"}
    [] b = 26 -> {"password"}
    [] b = 32 -> {"version"}
    [] OTHER -> {}

HeaderCase(b) ==
  CASE b = 10 -> {"login_packet"}
    [] b = 18 -> {"connected_packet"}
    [] b = 26 -> {"auth_code"}
    [] OTHER -> {}

FieldWithTag(message, b) ==
  CASE message = "header" -> HeaderCase(b)
    [] message = "login_packet" -> LoginCase(b)
    [] message = "connected_packet" -> ConnectedCase(b)

\* A tag; one that names no field is not skipped over: the only such bytes
\* sent have no valid wire type.
TakeTag(p, b) ==
  IF FieldWithTag(p.message, b) = {} THEN [p EXCEPT !.ok = FALSE]
  ELSE LET f == CHOOSE g \in FieldWithTag(p.message, b) : TRUE
       IN IF f \in NumberField
          THEN [p EXCEPT !.field = f, !.want = "value"]
          ELSE [p EXCEPT !.field = f, !.want = "length",
                         !.msg.has = @ \cup {f}]

TakeValue(p, b) ==
  [p EXCEPT !.want = "tag", !.msg.has = @ \cup {p.field},
            !.msg.num[p.field] = b]

TakeLength(p, b) ==
  IF p.field \in StringField
  THEN [p EXCEPT !.msg.str[p.field] = << >>, !.left = b,
                 !.want = IF b = 0 THEN "tag" ELSE "bytes"]
  ELSE [p EXCEPT !.want = "tag", !.room = b,
                 !.message = IF b = 0 THEN "header" ELSE p.field]

\* Mutant of TakeByte: the first byte is not appended but stands alone.
TakeByteOver(p, b) ==
  [p EXCEPT !.msg.str[p.field] = <<b>>, !.left = @ - 1,
            !.want = IF p.left = 1 THEN "tag" ELSE "bytes"]

TakeByte(p, b) ==
  [p EXCEPT !.msg.str[p.field] = Append(@, b), !.left = @ - 1,
            !.want = IF p.left = 1 THEN "tag" ELSE "bytes"]

\* One byte less of the nested message: at its limit it must be complete.
Within(p, q) ==
  IF p.message = "header" THEN q
  ELSE IF p.room > 1 THEN [q EXCEPT !.room = @ - 1]
  ELSE [q EXCEPT !.room = 0, !.message = "header",
                 !.ok = q.ok /\ q.want = "tag"]

\* The automaton, behind the next byte.
Take[p \in Parser] ==
  [b \in Nat |->
     IF ~p.ok THEN p
     ELSE Within(p, CASE p.want = "tag" -> TakeTag(p, b)
                      [] p.want = "value" -> TakeValue(p, b)
                      [] p.want = "length" -> TakeLength(p, b)
                      [] p.want = "bytes" -> TakeByte(p, b))]

\* The automaton, behind all of them.
TakeAll(p, bytes) ==
  LET behind[s \in Seq(Nat)] ==
        IF s = << >> THEN p
        ELSE Take[behind[SubSeq(s, 1, Len(s) - 1)]][s[Len(s)]]
  IN behind[bytes]

\* ParseFromString(): Clear() and merge.  Nobody looks at what it returns.
ParseFromString(m, bytes) == TakeAll(Reading(Clear(m)), bytes).msg

------------------------------------------------------------------------------
(* PacketHandler.cpp.  Lines 9 and 25 do not compile as they stand; they   *)
(* are read as the nested class and the call that they mean.               *)

login_packet(username, pwd, version) ==
  SerializeToString(
    SetNumber(SetString(SetString(SetMessage(Empty, "login_packet"),
      "username", username), "password", pwd), "version", version))

auth_code_packet(auth_code) ==
  SerializeToString(SetString(Empty, "auth_code", auth_code))

connected_packet(conn) ==
  SerializeToString(
    IF conn THEN SetNumber(Empty, "connected", 1)
    ELSE SetMessage(Empty, "connected_packet"))

\* A char array given to ParseFromString is a string up to its first 0 byte.
CString(buf) ==
  CHOOSE n \in 0 .. Len(buf) : /\ \A i \in 1 .. n : buf[i] # 0
                               /\ n < Len(buf) => buf[n + 1] = 0

UpToNul(buf) == SubSeq(buf, 1, CString(buf))

==============================================================================
