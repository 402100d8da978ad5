------------------------------ MODULE ByteBuffer -----------------------------
(***************************************************************************)
(* class ByteBuffer of bytebuffer/mangosByteBuffer/ByteBuffer.h: values    *)
(* are appended with << at mWritePos and read back with >> at mReadPos.    *)
(*                                                                         *)
(* The module models a buffer that is used as the comment at line 488 asks *)
(* for: every >> is of the type of the << it answers.  put() patches a     *)
(* value in place at the position its writer took from wpos(), and rpos(0) *)
(* starts reading again.  A byte has Base values; uint16 stands for all    *)
(* integers of several bytes.                                              *)
(***************************************************************************)
EXTENDS Integers, Sequences, FiniteSetsExt

CONSTANTS
  Base,      \* values of a byte: 256
  Types,     \* the types the program reads and writes
  Chars,     \* the characters of its strings
  Unset,     \* what a variable holds that >> did not assign
  MaxLength, \* bound of the model: length of a string
  MaxBytes   \* bound of the model: bytes in the buffer

ASSUME BufferAssumption ==
  /\ Base \in Nat /\ Base > 3
  /\ Types \subseteq {"bool", "uint8", "uint16", "time_t", "string"}
  /\ Chars \subseteq 1 .. Base - 1      \* a C string holds no 0
  /\ MaxLength \in Nat /\ MaxBytes \in Nat

Byte == 0 .. Base - 1

\* The values of each type; those of several bytes are the ones at the edges.
ValuesOf(type) ==
  CASE type = "bool" -> BOOLEAN
    [] type = "uint8" -> {0, Base - 1}
    [] type \in {"uint16", "time_t"} -> {0, 1, Base, Base * Base - 1}
    [] type = "string" -> UNION {[1 .. n -> Chars] : n \in 0 .. MaxLength}

Value == UNION {[type : {t}, val : ValuesOf(t)] : t \in Types}

\* What a char array of the program may hold that is long enough for any string.
Array == [1 .. MaxLength + 1 -> Chars \cup {0}]

VARIABLES
  mStorage, mReadPos, mWritePos,
  aborted,   \* an assert has failed
  wrote,     \* values written since the last clear()
  at,        \* at[k]: wpos() before value k was written
  read       \* values read since the last clear() or rpos(0); for an array also
             \* what it held before

storageVars == <<mStorage, mReadPos, mWritePos>>
bufferVars == <<storageVars, aborted, wrote, at, read>>

BufferInit ==
  /\ mStorage = << >> /\ mReadPos = 0 /\ mWritePos = 0
  /\ aborted = FALSE
  /\ wrote = << >> /\ at = << >> /\ read = << >>

size == Len(mStorage)

------------------------------------------------------------------------------
(* operator<<                                                              *)

\* Mutant of Terminated: the 0 behind a string is left out.
Unterminated(s) == s

Terminated(s) == Append(s, 0)

\* Little endian, as on the machine the program was built for.
Bytes(v) ==
  CASE v.type = "bool" -> <<IF v.val THEN 1 ELSE 0>>
    [] v.type = "uint8" -> <<v.val>>
    [] v.type \in {"uint16", "time_t"} -> <<v.val % Base, v.val \div Base>>
    [] v.type = "string" -> Terminated(v.val)

\* memcpy of bytes to position pos of a storage that is made long enough.
Overwritten(pos, bytes) ==
  [k \in 1 .. IF size < pos + Len(bytes) THEN pos + Len(bytes) ELSE size |->
     IF k \in pos + 1 .. pos + Len(bytes) THEN bytes[k - pos]
     ELSE IF k <= size THEN mStorage[k] ELSE 0]

Write(v) ==
  /\ ~aborted
  /\ mWritePos + Len(Bytes(v)) <= MaxBytes
  /\ mStorage' = Overwritten(mWritePos, Bytes(v))
  /\ mWritePos' = mWritePos + Len(Bytes(v))
  /\ wrote' = Append(wrote, v) /\ at' = Append(at, mWritePos)
  /\ UNCHANGED <<mReadPos, aborted, read>>

------------------------------------------------------------------------------
(* operator>>                                                              *)

ByteSizeOf(type) == IF type \in {"bool", "uint8"} THEN 1 ELSE 2

\* Where the string at mReadPos ends: its 0, or the end of the storage.
StringEnd ==
  Min({k \in mReadPos + 1 .. size : mStorage[k] = 0} \cup {size})

\* The string that ends there, without its 0.
StringRead ==
  SubSeq(mStorage, mReadPos + 1,
         IF mReadPos < size /\ mStorage[StringEnd] = 0 THEN StringEnd - 1 ELSE StringEnd)

\* The position behind a value of this type.
PosBehind(type) == IF type = "string" THEN StringEnd ELSE mReadPos + ByteSizeOf(type)

\* What the variable behind >> holds afterwards.  operator>>(time_t value)
\* takes its argument by value and assigns the copy.
Assigned(type) ==
  CASE type = "bool" -> mStorage[mReadPos + 1] \in 1 .. Base \div 2 - 1
    [] type = "uint8" -> mStorage[mReadPos + 1]
    [] type = "uint16" -> mStorage[mReadPos + 1] + Base * mStorage[mReadPos + 2]
    [] type = "time_t" -> Unset
    [] type = "string" -> StringRead

\* The assertion of read(); the loop of a string ends at the storage's end.
InStorage(type) == type = "string" \/ mReadPos + ByteSizeOf(type) <= size

\* Use as the comment asks for: the next type to read is the next one written.
Due(type) == Len(read) < Len(wrote) /\ wrote[Len(read) + 1].type = type

Read(type) ==
  /\ ~aborted /\ Due(type) /\ InStorage(type)
  /\ read' = Append(read, [type |-> type, val |-> Assigned(type)])
  /\ mReadPos' = PosBehind(type)
  /\ UNCHANGED <<mStorage, mWritePos, aborted, wrote, at>>

\* The assertion of read() fails; nothing stops a program from reading when
\* no value is left.
ReadAborts(type) ==
  /\ ~aborted /\ ~InStorage(type)
  /\ Due(type) \/ Len(read) = Len(wrote)
  /\ aborted' = TRUE
  /\ UNCHANGED <<storageVars, wrote, at, read>>

\* strncpy(value, s.c_str(), s.size()) to an array that holds was: no 0 is
\* written behind the characters, and what was there stays.
Copied(s, was) == [j \in DOMAIN was |-> IF j <= Len(s) THEN s[j] ELSE was[j]]

\* operator>>(char value[]) reads a string like operator>>(std::string&).
ReadArray(was) ==
  /\ ~aborted /\ Due("string") /\ InStorage("string")
  /\ read' = Append(read, [type |-> "array", was |-> was, val |-> Copied(StringRead, was)])
  /\ mReadPos' = PosBehind("string")
  /\ UNCHANGED <<mStorage, mWritePos, aborted, wrote, at>>

------------------------------------------------------------------------------
(* clear(), put() and rpos(0).                                             *)

\* Mutant of WritePosCleared: clear() forgets it.
WritePosKept == mWritePos

WritePosCleared == 0

Clear ==
  /\ ~aborted
  /\ mStorage' = << >>
  /\ mReadPos' = 0 /\ mWritePos' = WritePosCleared
  /\ wrote' = << >> /\ at' = << >> /\ read' = << >>
  /\ UNCHANGED aborted

\* put(pos, value) over a value of the same type that was not read yet.
Put(k, v) ==
  /\ ~aborted
  /\ Len(read) < k /\ v.type = wrote[k].type /\ v.type # "string"
  /\ at[k] + Len(Bytes(v)) <= size      \* the assertion of put()
  /\ mStorage' = Overwritten(at[k], Bytes(v))
  /\ wrote' = [wrote EXCEPT ![k] = v]
  /\ UNCHANGED <<mReadPos, mWritePos, aborted, at, read>>

\* rpos(0)
Rewind ==
  /\ ~aborted
  /\ mReadPos' = 0
  /\ read' = << >>
  /\ UNCHANGED <<mStorage, mWritePos, aborted, wrote, at>>

\* vector::resize(): what is there stays, and 0 bytes follow.
Resized(n) == [k \in 1 .. n |-> IF k <= size THEN mStorage[k] ELSE 0]

\* resize() to where value k + 1 begins, or to one byte more than there is.
Shrink(k) ==
  /\ ~aborted
  /\ mStorage' = Resized(at[k + 1])
  /\ mReadPos' = 0 /\ mWritePos' = Len(mStorage')
  /\ wrote' = SubSeq(wrote, 1, k) /\ at' = SubSeq(at, 1, k) /\ read' = << >>
  /\ UNCHANGED aborted

Enlarge ==
  /\ ~aborted
  /\ size < MaxBytes
  /\ mStorage' = Resized(size + 1)
  /\ mReadPos' = 0 /\ mWritePos' = Len(mStorage')
  /\ wrote' = Append(wrote, [type |-> "uint8", val |-> 0])
  /\ at' = Append(at, size) /\ read' = << >>
  /\ UNCHANGED aborted

\* append() of a copy of the buffer.  It takes size() bytes from the copy's
\* mReadPos on, which are all there only before anything is read.
AppendCopy ==
  /\ ~aborted /\ mReadPos = 0
  /\ mWritePos + size <= MaxBytes
  /\ mStorage' = Overwritten(mWritePos, mStorage)
  /\ mWritePos' = mWritePos + size
  /\ wrote' = wrote \o wrote
  /\ at' = at \o [k \in 1 .. Len(at) |-> mWritePos + at[k]]
  /\ UNCHANGED <<mReadPos, aborted, read>>

BufferNext ==
  \/ \E v \in Value : Write(v)
  \/ \E t \in Types : Read(t) \/ ReadAborts(t)
  \/ \E was \in Array : ReadArray(was)
  \/ Clear
  \/ \E k \in 1 .. Len(wrote), v \in Value : Put(k, v)
  \/ Rewind
  \/ \E k \in 0 .. Len(wrote) - 1 : Shrink(k)
  \/ Enlarge
  \/ AppendCopy

BufferSpec == BufferInit /\ [][BufferNext]_bufferVars

------------------------------------------------------------------------------
BufferTypeOK ==
  /\ mStorage \in Seq(Byte)
  /\ mReadPos \in 0 .. size
  /\ mWritePos \in Nat
  /\ aborted \in BOOLEAN
  /\ wrote \in Seq(Value \cup {[type |-> "uint8", val |-> 0]})
  /\ at \in Seq(Nat) /\ Len(at) = Len(wrote)

(***************************************************************************)
(* What was written comes back, value by value, whatever was put(), read,  *)
(* cut off or appended before (ByteBuffer.h:488: "<< and >> correspond to  *)
(* each other"), with two exceptions.  Of a time_t nothing comes back, but *)
(* it is passed by as a whole (line 214).  A string read into a char array *)
(* is there in front of what the array held, without a 0 behind it (line   *)
(* 248): it comes back as a string only if the array happened to have one. *)
(***************************************************************************)
AsWrittenOverRest(r, w) ==
  /\ w.type = "string"
  /\ \A j \in DOMAIN r.val : r.val[j] = IF j <= Len(w.val) THEN w.val[j] ELSE r.was[j]

RoundTrip ==
  \A k \in 1 .. Len(read) :
    IF read[k].type = "time_t" THEN wrote[k].type = "time_t" /\ read[k].val = Unset
    ELSE IF read[k].type = "array" THEN AsWrittenOverRest(read[k], wrote[k])
    ELSE read[k] = wrote[k]

(***************************************************************************)
(* The assertion of read() fails only for a value that was never written:  *)
(* the bytes of every value still due are there (lines 281-291).           *)
(***************************************************************************)
AbortsOnOverread == aborted => Len(read) = Len(wrote)

==============================================================================
