------------------------------- MODULE Messages -------------------------------
(***************************************************************************)
(* Two PacketHeader objects in a program that uses their whole interface:  *)
(* fields are set and cleared, objects merged, copied, swapped, and parsed *)
(* from the bytes of the other object, of which a part may be missing.     *)
(***************************************************************************)
EXTENDS PacketHeader

CONSTANTS
  Object,    \* the two objects
  Text,      \* Text[f]: values of the string field f, sequences of bytes
  Number,    \* values of number fields
  MaxFields  \* bound of the model: fields set in one object

ASSUME MessagesAssumption ==
  /\ Cardinality(Object) = 2
  /\ \A f \in StringField : Text[f] \subseteq Seq(Nat)
  /\ Number \subseteq Nat
  /\ MaxFields \in Nat

VARIABLE obj       \* obj[o]: the value of object o

TheOther(o) == CHOOSE p \in Object : p # o

MessagesInit == obj = [o \in Object |-> Empty]

Becomes(o, m) ==
  /\ Cardinality(m.has) <= MaxFields
  /\ obj' = [obj EXCEPT ![o] = m]

Set(o) ==
  \/ \E f \in StringField : \E v \in Text[f] : Becomes(o, SetString(obj[o], f, v))
  \/ \E f \in NumberField, v \in Number : Becomes(o, SetNumber(obj[o], f, v))
  \/ \E f \in {"login_packet", "connected_packet"} :
       Becomes(o, SetMessage(obj[o], f))

\* The field of a nested message is cleared through mutable_<message>(), which
\* sets the bit of the message.
Unset(o) ==
  \/ \E f \in StringField \cup NumberField :
       Becomes(o, [ClearField(obj[o], f) EXCEPT !.has = @ \cup Parent(f)])
  \/ \E f \in {"login_packet", "connected_packet"} :
       Becomes(o, ClearMessage(obj[o], f))

ClearAll(o) == Becomes(o, Clear(obj[o]))

Merge(o) == Becomes(o, MergeFrom(obj[o], obj[TheOther(o)]))

Copy(o) == Becomes(o, CopyFrom(obj[o], obj[TheOther(o)]))

Swap == obj' = [o \in Object |-> obj[TheOther(o)]]

\* The first k bytes of the other object arrive.
Parse(o) ==
  LET bytes == SerializeToString(obj[TheOther(o)])
  IN \E k \in 0 .. Len(bytes) :
       Becomes(o, ParseFromString(obj[o], SubSeq(bytes, 1, k)))

MessagesNext ==
  \/ Swap
  \/ \E o \in Object :
       Set(o) \/ Unset(o) \/ ClearAll(o) \/ Merge(o) \/ Copy(o) \/ Parse(o)

MessagesSpec == MessagesInit /\ [][MessagesNext]_obj

------------------------------------------------------------------------------
MessagesTypeOK ==
  obj \in [Object -> Message]

(***************************************************************************)
(* A field whose bit is not set has its default, and a nested message that *)
(* is not there has no fields.  Clear() relies on it: it looks only at     *)
(* what is set (packet.pb.cc:217, 487, 811), so what is left behind once   *)
(* would show up in a later message.                                       *)
(***************************************************************************)
DefaultsBehindBits ==
  \A o \in Object :
    LET m == obj[o]
    IN /\ \A f \in m.has : Parent(f) \subseteq m.has
       /\ \A f \in StringField \ m.has : m.str[f] = << >>
       /\ \A f \in NumberField \ m.has : m.num[f] = 0

(***************************************************************************)
(* Parsing what an object was serialised to gives the object again, and    *)
(* the sizes computed beforehand are the numbers of bytes written          *)
(* (packet.pb.cc:306, 330, 607, 641, 924, 957).                            *)
(***************************************************************************)
RoundTrip ==
  \A o \in Object :
    LET bytes == SerializeToString(obj[o])
    IN /\ ByteSize(obj[o]) = Len(bytes)
       /\ ParseFromString(obj[TheOther(o)], bytes) = obj[o]

(***************************************************************************)
(* Of a message whose end is missing nothing is invented: fields that were *)
(* not sent are not set, numbers are those sent, and strings are those     *)
(* sent but for the last, which may be shorter (packet.pb.cc:230, 505,     *)
(* 829).  The programs depend on it: none looks at the result of           *)
(* ParseFromString.                                                        *)
(***************************************************************************)
NothingInvented ==
  \A o \in Object :
    LET m == obj[o]
        bytes == SerializeToString(m)
    IN \A k \in 0 .. Len(bytes) :
         LET p == ParseFromString(Empty, SubSeq(bytes, 1, k))
         IN /\ p.has \subseteq m.has
            /\ \A f \in NumberField \cap p.has : p.num[f] = m.num[f]
            /\ \A f \in StringField \cap p.has :
                 /\ Len(p.str[f]) <= Len(m.str[f])
                 /\ p.str[f] = SubSeq(m.str[f], 1, Len(p.str[f]))
            /\ Cardinality({f \in StringField \cap p.has :
                              p.str[f] # m.str[f]}) <= 1

==============================================================================
