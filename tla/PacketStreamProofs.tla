-------------------------- MODULE PacketStreamProofs --------------------------
(***************************************************************************)
(* For any sizes of the header, the packets and the buffer, and any number *)
(* of packets: TcpClient::run finds in the stream the packets that         *)
(* TcpServer::run sent, and never calls recv() with a full buffer.         *)
(* For any bytes, strings and number of values: what << puts into a        *)
(* ByteBuffer, the payload of a serialised packet, comes back with >>.     *)
(***************************************************************************)
EXTENDS PacketStream, ByteBuffer, TLAPS

\* The position behind packet k, and the one where packet k begins.
Behind(k) == packets[k].at + SizeOf(packets[k].op)
Start(k) == IF k = 1 THEN 0 ELSE Behind(k - 1)

\* The packets lie in the stream one behind the other; a server that was
\* killed may have left the end of the last one out.
Layout ==
  /\ \A k \in 1 .. Len(packets) : packets[k].at = Start(k)
  /\ \A j, k \in 1 .. Len(packets) : j < k => Behind(j) <= packets[k].at
  /\ sent <= Start(Len(packets) + 1)
  /\ server # "killed" => sent = Start(Len(packets) + 1)

\* The client's buffer begins where a packet begins, the first that was not
\* handled, and ends within what was sent.
Aligned ==
  /\ Len(handled) <= Len(packets)
  /\ recvFrom = Start(Len(handled) + 1)
  /\ recvFrom + m_nRecvSize <= sent

StreamInv == TypeOK /\ Layout /\ Aligned /\ HandledAsSent /\ RecvHasRoom

LEMMA Sizes ==
  ASSUME NEW op \in Opcode
  PROVE  /\ SizeOf(op) \in Nat /\ HeaderSize \in Nat
         /\ HeaderSize < SizeOf(op) /\ SizeOf(op) <= NET_PACKET_SIZE
BY PacketAssumption DEF SizeOf

\* Positions are numbers.
LEMMA Positions ==
  ASSUME TypeOK
  PROVE  /\ Len(packets) \in Nat
         /\ \A k \in 1 .. Len(packets) :
              /\ packets[k] \in Packet
              /\ SizeOf(packets[k].op) \in Nat /\ SizeOf(packets[k].op) > 0
              /\ Behind(k) \in Nat /\ Behind(k) > packets[k].at
         /\ \A k \in 1 .. Len(packets) + 1 : Start(k) \in Nat
<1>1. ASSUME NEW k \in 1 .. Len(packets)
      PROVE  /\ packets[k] \in Packet
             /\ SizeOf(packets[k].op) \in Nat /\ SizeOf(packets[k].op) > 0
             /\ Behind(k) \in Nat /\ Behind(k) > packets[k].at
  <2>1. packets[k] \in Packet
    BY DEF TypeOK
  <2>2. packets[k].op \in Opcode /\ packets[k].at \in Nat
    BY <2>1 DEF Packet
  <2> QED
    BY <2>1, <2>2, Sizes DEF Behind
<1>2. Len(packets) \in Nat
  BY DEF TypeOK
<1> QED
  BY <1>1, <1>2 DEF Start

------------------------------------------------------------------------------
(* What lies at the front of the client's buffer.                          *)

\* The first packet that was not handled, and no other.
Front == packets[Len(handled) + 1]

LEMMA FrontIsThere ==
  ASSUME StreamInv, HasHeader
  PROVE  /\ Len(handled) + 1 \in 1 .. Len(packets)
         /\ PacketsAt(recvFrom) = {Front}
         /\ HeaderAt(recvFrom) =
              {[op |-> Front.op, size |-> SizeOf(Front.op), index |-> Front.index]}
<1> USE DEF StreamInv
<1>1. m_nRecvSize > 0 /\ m_nRecvSize \in Nat /\ recvFrom \in Nat /\ sent \in Nat
  BY PacketAssumption DEF HasHeader, TypeOK
<1>2. Len(handled) \in Nat /\ Len(packets) \in Nat
  BY DEF TypeOK
<1>3. Len(handled) # Len(packets)
  <2> SUFFICES ASSUME Len(handled) = Len(packets) PROVE FALSE
    OBVIOUS
  <2>1. recvFrom >= sent
    BY <1>1 DEF Aligned, Layout
  <2> QED
    BY <1>1, <2>1 DEF Aligned
<1>4. Len(handled) + 1 \in 1 .. Len(packets)
  BY <1>2, <1>3 DEF Aligned
<1>5. Front.at = recvFrom
  BY <1>4 DEF Layout, Aligned, Front
<1>6. ASSUME NEW j \in 1 .. Len(packets), packets[j].at = recvFrom
      PROVE  j = Len(handled) + 1
  <2>1. packets[j].at \in Nat /\ Behind(j) > packets[j].at /\ Behind(j) \in Nat
    BY <1>1, <1>6, Positions
  <2>2. Front.at \in Nat /\ Behind(Len(handled) + 1) > Front.at
        /\ Behind(Len(handled) + 1) \in Nat
    BY <1>1, <1>4, <1>5, Positions DEF Front
  <2>3. ~(j < Len(handled) + 1)
    BY <1>4, <1>5, <1>6, <2>1, <2>2 DEF Layout, Front
  <2>4. ~(Len(handled) + 1 < j)
    BY <1>4, <1>5, <1>6, <2>1, <2>2 DEF Layout, Front
  <2> QED
    BY <1>2, <2>3, <2>4
<1>7. PacketsAt(recvFrom) = {Front}
  BY <1>4, <1>5, <1>6 DEF PacketsAt, Front
<1> QED
  BY <1>4, <1>7 DEF HeaderAt

LEMMA StreamInit == Init => StreamInv
<1> SUFFICES ASSUME Init PROVE StreamInv
  OBVIOUS
<1>1. TypeOK
  BY PacketAssumption DEF Init, TypeOK, Packet
<1>2. NET_PACKET_SIZE > 0
  BY PacketAssumption
<1>3. Start(1) = 0
  BY DEF Start
<1>4. /\ Len(packets) = 0 /\ Len(handled) = 0 /\ sent = 0
      /\ recvFrom = 0 /\ m_nRecvSize = 0
  BY DEF Init
<1>5. Layout
  BY <1>3, <1>4 DEF Layout
<1>6. Aligned /\ HandledAsSent /\ RecvHasRoom
  BY <1>2, <1>3, <1>4, PacketAssumption DEF Aligned, HandledAsSent, RecvHasRoom, Room
<1> QED
  BY <1>1, <1>5, <1>6 DEF StreamInv

------------------------------------------------------------------------------
(* The server.                                                             *)

LEMMA SendStep == StreamInv /\ Send => StreamInv'
<1> SUFFICES ASSUME StreamInv, Send, NEW n, n = Len(packets) + 1 PROVE StreamInv'
  OBVIOUS
<1> USE DEF StreamInv
<1>1. NextOpcode \in Opcode
  BY DEF NextOpcode, Opcode
<1> DEFINE p == [op |-> NextOpcode, index |-> nIndex, at |-> sent]
<1>2. /\ packets' = Append(packets, p) /\ p \in Packet
      /\ p.at = sent /\ p.op = NextOpcode /\ p.index = nIndex
      /\ sent' = sent + SizeOf(NextOpcode)
      /\ SizeOf(NextOpcode) \in Nat /\ sent \in Nat
      /\ server # "killed" /\ UNCHANGED <<server, clientVars>>
  BY <1>1, Sizes DEF Send, TypeOK, Packet
<1>3. /\ Len(packets) \in Nat /\ Len(packets') = n /\ n \in Nat
      /\ packets'[n] = p
      /\ \A k \in 1 .. Len(packets) : packets'[k] = packets[k]
      /\ packets' \in Seq(Packet)
  BY <1>2 DEF TypeOK
<1>4. TypeOK'
  BY <1>2, <1>3 DEF Send, TypeOK, clientVars
<1>5. /\ Behind(n)' = sent' /\ sent = Start(n)
      /\ \A k \in 1 .. Len(packets) : Behind(k)' = Behind(k)
  BY <1>2, <1>3 DEF Behind, Layout
<1>6. \A k \in 1 .. n : Start(k)' = Start(k)
  <2> SUFFICES ASSUME NEW k \in 1 .. n PROVE Start(k)' = Start(k)
    OBVIOUS
  <2>1. CASE k = 1
    BY <2>1 DEF Start
  <2>2. CASE k # 1
    <3>1. k - 1 \in 1 .. Len(packets)
      BY <1>3, <2>2
    <3> QED
      BY <1>5, <2>2, <3>1 DEF Start
  <2> QED
    BY <2>1, <2>2
<1>7. \A j \in 1 .. Len(packets) : Behind(j) <= sent
  <2> SUFFICES ASSUME NEW j \in 1 .. Len(packets) PROVE Behind(j) <= sent
    OBVIOUS
  <2>1. Len(packets) \in 1 .. Len(packets) /\ Len(packets) # 0
    BY <1>3
  <2>2. sent = Behind(Len(packets))
    BY <1>5, <2>1 DEF Start
  <2>3. CASE j = Len(packets)
    BY <1>2, <2>2, <2>3
  <2>4. CASE j < Len(packets)
    <3>1. Behind(j) <= packets[Len(packets)].at
      BY <2>1, <2>4 DEF Layout
    <3>2. packets[Len(packets)].at \in Nat
      BY <2>1, Positions DEF Packet
    <3>3. /\ Behind(j) \in Nat /\ Behind(Len(packets)) \in Nat
          /\ Behind(Len(packets)) > packets[Len(packets)].at
      BY <2>1, Positions
    <3> QED
      BY <2>2, <3>1, <3>2, <3>3
  <2> QED
    BY <1>3, <2>3, <2>4
<1>8. Layout'
  <2>1. \A k \in 1 .. n : packets'[k].at = Start(k)'
    BY <1>2, <1>3, <1>5, <1>6 DEF Layout
  <2>2. ASSUME NEW j \in 1 .. n, NEW k \in 1 .. n, j < k
        PROVE  Behind(j)' <= packets'[k].at
    <3>1. j \in 1 .. Len(packets)
      BY <1>3, <2>2
    <3>2. CASE k = n
      BY <1>2, <1>3, <1>5, <1>7, <3>1, <3>2
    <3>3. CASE k \in 1 .. Len(packets)
      BY <1>3, <1>5, <2>2, <3>1, <3>3 DEF Layout
    <3> QED
      BY <1>3, <2>2, <3>2, <3>3
  <2>3. Start(n + 1)' = sent' /\ sent' \in Nat
    BY <1>2, <1>3, <1>5 DEF Start
  <2> QED
    BY <1>3, <2>1, <2>2, <2>3 DEF Layout
<1>9. Aligned'
  <2>1. Len(handled) + 1 \in 1 .. n
    BY <1>3 DEF Aligned, TypeOK
  <2> QED
    BY <1>2, <1>3, <1>6, <2>1 DEF Aligned, clientVars, TypeOK
<1>10. HandledAsSent'
  BY <1>2, <1>3 DEF HandledAsSent, clientVars, TypeOK
<1>11. RecvHasRoom'
  BY <1>2 DEF Send, RecvHasRoom, Room, clientVars
<1> QED
  BY <1>4, <1>8, <1>9, <1>10, <1>11

\* A server that dies has sent a part of its last packet, and what the client
\* has received.
LEMMA ServerEndsStep == StreamInv /\ (SendFails \/ ServerDies) => StreamInv'
<1> SUFFICES ASSUME StreamInv, SendFails \/ ServerDies PROVE StreamInv'
  OBVIOUS
<1> USE DEF StreamInv
<1>1. /\ UNCHANGED <<packets, nIndex, socket, clientVars>>
      /\ server' \in {"failed", "killed"}
  BY DEF SendFails, ServerDies
<1>2. /\ sent' \in Nat /\ sent' <= sent /\ recvFrom + m_nRecvSize <= sent'
      /\ server' # "killed" => sent' = sent /\ server # "killed"
  BY DEF SendFails, ServerDies, Aligned, TypeOK
<1>3. Start(Len(packets) + 1) \in Nat /\ sent \in Nat
  BY Positions DEF TypeOK
<1>4. TypeOK'
  BY <1>1, <1>2 DEF TypeOK, clientVars
<1>5. Layout'
  BY <1>1, <1>2, <1>3 DEF Layout, Start, Behind
<1>6. Aligned' /\ HandledAsSent' /\ RecvHasRoom'
  BY <1>1, <1>2
  DEF Aligned, Start, Behind, HandledAsSent, RecvHasRoom, Room, clientVars
<1> QED
  BY <1>4, <1>5, <1>6

------------------------------------------------------------------------------
(* The client.                                                             *)

LEMMA UnpackStep == StreamInv /\ Unpack => StreamInv'
<1> SUFFICES ASSUME StreamInv, Unpack PROVE StreamInv'
  OBVIOUS
<1> USE DEF StreamInv
<1> DEFINE n == Len(handled) + 1
           m == [op |-> Front.op, index |-> Front.index]
<1>1. n \in 1 .. Len(packets) /\ Front = packets[n] /\ Front \in Packet
  BY FrontIsThere DEF Unpack, Front, TypeOK
<1>2. /\ HasPacket(SizeOf(Front.op))
      /\ recvFrom' = recvFrom + SizeOf(Front.op)
      /\ m_nRecvSize' = m_nRecvSize - SizeOf(Front.op)
      /\ handled' = Append(handled, m)
  <2>1. PICK h \in HeaderAt(recvFrom) :
          /\ HasPacket(h.size)
          /\ recvFrom' = AfterMove(h.size)
          /\ m_nRecvSize' = m_nRecvSize - h.size
          /\ handled' = Append(handled, [op |-> h.op, index |-> h.index])
    BY DEF Unpack
  <2>2. h = [op |-> Front.op, size |-> SizeOf(Front.op), index |-> Front.index]
    BY <2>1, FrontIsThere DEF Unpack
  <2> QED
    BY <2>1, <2>2 DEF AfterMove
<1>3. /\ pc = "unpack" /\ nCount' = nCount + 1 /\ nCount < Enough
      /\ UNCHANGED <<serverVars, socket, pc>>
  BY DEF Unpack
<1>4. /\ SizeOf(Front.op) \in Nat /\ recvFrom \in Nat /\ m_nRecvSize \in Nat
      /\ Len(handled) \in Nat /\ m_nRecvSize <= NET_PACKET_SIZE
  BY <1>1, Sizes, PacketAssumption DEF Packet, TypeOK
<1>5. TypeOK'
  <2>1. m \in [op : Opcode \cup {"unknown"}, index : Int]
    BY <1>1 DEF Packet
  <2>2. handled' \in Seq([op : Opcode \cup {"unknown"}, index : Int])
    BY <1>2, <2>1 DEF TypeOK
  <2>3. recvFrom' \in Nat /\ m_nRecvSize' \in 0 .. NET_PACKET_SIZE
    BY <1>2, <1>4, PacketAssumption DEF HasPacket
  <2> QED
    BY <1>3, <2>2, <2>3, PacketAssumption DEF TypeOK, serverVars
<1>6. /\ Len(handled') = n /\ handled'[n] = m
      /\ \A k \in 1 .. Len(handled) : handled'[k] = handled[k]
  BY <1>2 DEF TypeOK
<1>7. recvFrom' = Start(n + 1)
  <2>1. Front.at = recvFrom
    BY <1>1 DEF Layout, Aligned
  <2> QED
    BY <1>1, <1>2, <1>4, <2>1 DEF Start, Behind
<1>8. Aligned'
  BY <1>1, <1>2, <1>3, <1>4, <1>6, <1>7 DEF Aligned, Start, Behind, serverVars, TypeOK
<1>9. HandledAsSent'
  <2> SUFFICES ASSUME NEW k \in 1 .. n
               PROVE  handled'[k] = [op |-> packets[k].op, index |-> packets[k].index]
    BY <1>1, <1>3, <1>6 DEF HandledAsSent, serverVars
  <2>1. CASE k = n
    BY <1>1, <1>6, <2>1
  <2>2. CASE k \in 1 .. Len(handled)
    BY <1>6, <2>2 DEF HandledAsSent
  <2> QED
    BY <1>4, <2>1, <2>2
<1>10. Layout' /\ RecvHasRoom'
  BY <1>3 DEF Layout, Start, Behind, RecvHasRoom, serverVars
<1> QED
  BY <1>5, <1>8, <1>9, <1>10

\* It goes back to recv() only with less than a header or a packet, and either
\* is smaller than the buffer.
LEMMA WaitStep == StreamInv /\ WaitForMore => StreamInv'
<1> SUFFICES ASSUME StreamInv, WaitForMore PROVE StreamInv'
  OBVIOUS
<1> USE DEF StreamInv
<1>1. /\ pc' = "recv"
      /\ UNCHANGED <<serverVars, socket, recvFrom, m_nRecvSize, nCount, handled>>
  BY DEF WaitForMore
<1>2. m_nRecvSize < NET_PACKET_SIZE
  <2>1. m_nRecvSize \in Nat /\ NET_PACKET_SIZE \in Nat
    BY PacketAssumption DEF TypeOK
  <2>2. CASE ~HasHeader
    BY <2>1, <2>2, PacketAssumption DEF HasHeader
  <2>3. CASE HasHeader
    <3>1. ~HasPacket(SizeOf(Front.op))
      BY <2>3, FrontIsThere DEF WaitForMore
    <3>2. Front.op \in Opcode
      BY <2>3, FrontIsThere, Positions DEF Packet, Front
    <3> QED
      BY <2>1, <3>1, <3>2, Sizes DEF HasPacket
  <2> QED
    BY <2>2, <2>3
<1>3. TypeOK' /\ Layout' /\ Aligned' /\ HandledAsSent'
  BY <1>1 DEF TypeOK, Layout, Aligned, HandledAsSent, Start, Behind, serverVars
<1> QED
  BY <1>1, <1>2, <1>3, PacketAssumption DEF RecvHasRoom, Room, TypeOK

LEMMA OtherStep == StreamInv /\ (Recv \/ RecvEnds \/ Leave \/ UNCHANGED vars) => StreamInv'
<1> SUFFICES ASSUME StreamInv, Recv \/ RecvEnds \/ Leave \/ UNCHANGED vars
             PROVE  StreamInv'
  OBVIOUS
<1> USE PacketAssumption DEF StreamInv
<1>1. UNCHANGED <<serverVars, recvFrom, nCount, handled>>
  BY DEF Recv, RecvEnds, Leave, vars, clientVars
<1>2. Layout' /\ HandledAsSent'
  BY <1>1 DEF Layout, Start, Behind, HandledAsSent, serverVars
<1>3. CASE Recv
  <2>1. /\ m_nRecvSize' \in 0 .. NET_PACKET_SIZE
        /\ recvFrom + m_nRecvSize' <= sent /\ pc' = "unpack" /\ socket' = socket
    BY <1>3 DEF Recv, Room, Unread, TypeOK
  <2> QED
    BY <1>1, <1>2, <2>1 DEF TypeOK, Aligned, Start, Behind, RecvHasRoom, serverVars
<1>4. CASE RecvEnds \/ Leave \/ UNCHANGED vars
  <2>1. /\ m_nRecvSize' = m_nRecvSize
        /\ \/ pc' = "ended" /\ socket' = socket
           \/ pc' = "recv" /\ socket' = "closed"
           \/ pc' = pc /\ socket' = socket
    BY <1>4 DEF RecvEnds, Leave, vars, clientVars
  <2> QED
    BY <1>1, <1>2, <2>1
    DEF TypeOK, Aligned, Start, Behind, RecvHasRoom, Room, serverVars
<1> QED
  BY <1>3, <1>4

(***************************************************************************)
(* The inductive invariant holds: packets lie one behind the other, and    *)
(* the client's buffer begins at one of them (client.cpp:37-81).           *)
(***************************************************************************)
THEOREM StreamCorrect == Spec => []StreamInv
<1>1. StreamInv /\ [Next]_vars => StreamInv'
  BY SendStep, ServerEndsStep, UnpackStep, WaitStep, OtherStep DEF Next, Client
<1> QED
  BY <1>1, StreamInit, PTL DEF Spec

(***************************************************************************)
(* The values of the variables stay in their types; m_nRecvSize stays      *)
(* within the buffer.                                                      *)
(***************************************************************************)
THEOREM TypeCorrect == Spec => []TypeOK
BY StreamCorrect, PTL DEF StreamInv

(***************************************************************************)
(* OnNetMessage sees the packets that were sent, in order, each once, and  *)
(* with their own contents, however recv() cuts the stream and wherever    *)
(* the server dies (client.cpp:44-81).                                     *)
(***************************************************************************)
THEOREM HandledCorrect == Spec => []HandledAsSent
BY StreamCorrect, PTL DEF StreamInv

(***************************************************************************)
(* recv() on the open socket is given room, so that 0 means the end of the *)
(* connection (client.cpp:37-38).                                          *)
(***************************************************************************)
THEOREM RoomCorrect == Spec => []RecvHasRoom
BY StreamCorrect, PTL DEF StreamInv

------------------------------------------------------------------------------
(* The bytes of a value.                                                   *)

Zero == [type |-> "uint8", val |-> 0]
Written == Value \cup {Zero}

LEMMA ValueFields ==
  ASSUME NEW v \in Written
  PROVE  /\ v.type \in {"bool", "uint8", "uint16", "time_t", "string"}
         /\ v = [type |-> v.type, val |-> v.val]
         /\ v.type = "bool" => v.val \in BOOLEAN
         /\ v.type = "uint8" => v.val \in Byte
         /\ v.type \in {"uint16", "time_t"} => v.val \in {0, 1, Base, Base * Base - 1}
         /\ v.type = "string" => v.val \in Seq(Chars)
<1>1. CASE v = Zero
  BY <1>1, BufferAssumption DEF Zero, Byte
<1>2. CASE v \in Value
  <2>1. PICK t \in Types : v \in [type : {t}, val : ValuesOf(t)]
    BY <1>2 DEF Value
  <2>2. v.type = t /\ v.val \in ValuesOf(t) /\ v = [type |-> v.type, val |-> v.val]
    BY <2>1
  <2>3. t \in {"bool", "uint8", "uint16", "time_t", "string"}
    BY BufferAssumption
  <2>4. t = "string" => v.val \in Seq(Chars)
    <3>1. SUFFICES ASSUME t = "string" PROVE v.val \in Seq(Chars)
      OBVIOUS
    <3>2. PICK n \in 0 .. MaxLength : v.val \in [1 .. n -> Chars]
      BY <2>2, <3>1 DEF ValuesOf
    <3> QED
      BY <3>2, BufferAssumption
  <2>5. t = "bool" => v.val \in BOOLEAN
    BY <2>2 DEF ValuesOf
  <2>6. t = "uint8" => v.val \in Byte
    BY <2>2, BufferAssumption DEF ValuesOf, Byte
  <2>7. t \in {"uint16", "time_t"} => v.val \in {0, 1, Base, Base * Base - 1}
    BY <2>2 DEF ValuesOf
  <2> QED
    BY <2>2, <2>3, <2>4, <2>5, <2>6, <2>7
<1> QED
  BY <1>1, <1>2 DEF Written

\* Two bytes hold the numbers of several bytes.
LEMMA TwoBytes ==
  ASSUME NEW n \in {0, 1, Base, Base * Base - 1}
  PROVE  /\ n % Base \in Byte /\ n \div Base \in Byte
         /\ (n % Base) + Base * (n \div Base) = n
<1>1. n \in Nat /\ Base \in Nat /\ Base > 3 /\ n < Base * Base
  BY BufferAssumption
<1>2. n % Base \in 0 .. Base - 1 /\ (n % Base) + Base * (n \div Base) = n
  BY <1>1
<1>3. n \div Base \in Int /\ n \div Base >= 0
  BY <1>1
<1>4. n \div Base <= Base - 1
  <2> DEFINE q == n \div Base
  <2>1. n % Base \in 0 .. Base - 1 /\ (n % Base) + Base * q = n /\ q \in Int
    BY <1>2, <1>3
  <2> DEFINE r == n % Base
             p == Base * q
             b == Base * Base
  <2>4. p \in Int /\ b \in Int /\ r \in Nat /\ r + p = n /\ n < b
    BY <1>1, <2>1
  <2> HIDE DEF q, r, p, b
  <2>5. p < b
    BY <1>1, <2>4
  <2>2. Base * q < Base * Base
    BY <2>5 DEF p, b
  <2>3. q < Base
    BY <1>1, <2>1, <2>2
  <2> QED
    BY <1>1, <2>1, <2>3 DEF q
<1> QED
  BY <1>1, <1>2, <1>3, <1>4 DEF Byte

LEMMA BytesOf ==
  ASSUME NEW v \in Written
  PROVE  /\ Bytes(v) \in Seq(Byte) /\ Len(Bytes(v)) > 0
         /\ v.type # "string" => Len(Bytes(v)) = ByteSizeOf(v.type)
         /\ v.type = "bool" => Bytes(v)[1] = IF v.val THEN 1 ELSE 0
         /\ v.type = "uint8" => Bytes(v)[1] = v.val
         /\ v.type = "uint16" => Bytes(v)[1] + Base * Bytes(v)[2] = v.val
<1>0. 0 \in Byte /\ 1 \in Byte
  BY BufferAssumption DEF Byte
<1>1. CASE v.type = "bool"
  <2>1. Bytes(v) = <<IF v.val THEN 1 ELSE 0>>
    BY <1>1 DEF Bytes
  <2> QED
    BY <1>0, <1>1, <2>1 DEF ByteSizeOf
<1>2. CASE v.type = "uint8"
  <2>1. Bytes(v) = <<v.val>>
    BY <1>2 DEF Bytes
  <2> QED
    BY <1>2, <2>1, ValueFields DEF ByteSizeOf
<1>3. CASE v.type \in {"uint16", "time_t"}
  <2>1. Bytes(v) = <<v.val % Base, v.val \div Base>>
    BY <1>3 DEF Bytes
  <2>2. /\ v.val % Base \in Byte /\ v.val \div Base \in Byte
        /\ (v.val % Base) + Base * (v.val \div Base) = v.val
    BY <1>3, ValueFields, TwoBytes
  <2> QED
    BY <1>3, <2>1, <2>2 DEF ByteSizeOf
<1>4. CASE v.type = "string"
  <2>1. Bytes(v) = Append(v.val, 0) /\ v.val \in Seq(Chars)
    BY <1>4, ValueFields DEF Bytes, Terminated
  <2>3. Chars \subseteq Byte
    BY BufferAssumption DEF Byte
  <2>2. v.val \in Seq(Byte)
    BY <2>1, <2>3
  <2> QED
    BY <1>0, <1>4, <2>1, <2>2
<1> QED
  BY <1>1, <1>2, <1>3, <1>4, ValueFields

LEMMA StringBytes ==
  ASSUME NEW v \in Written, v.type = "string"
  PROVE  /\ v.val \in Seq(Byte) /\ Len(Bytes(v)) = Len(v.val) + 1
         /\ Bytes(v)[Len(v.val) + 1] = 0
         /\ \A j \in 1 .. Len(v.val) : Bytes(v)[j] = v.val[j] /\ v.val[j] # 0
<1>1. Bytes(v) = Append(v.val, 0) /\ v.val \in Seq(Chars)
  BY ValueFields DEF Bytes, Terminated
<1>2. Chars \subseteq Byte /\ 0 \notin Chars
  BY BufferAssumption DEF Byte
<1> QED
  BY <1>1, <1>2

------------------------------------------------------------------------------
(* The values w lie in the storage s one behind the other, at a.           *)

EndOf(w, a, k) == a[k] + Len(Bytes(w[k]))
BeginOf(w, a, k) == IF k = 1 THEN 0 ELSE EndOf(w, a, k - 1)

Laid(s, w, a) ==
  /\ s \in Seq(Byte) /\ w \in Seq(Written) /\ a \in Seq(Nat) /\ Len(a) = Len(w)
  /\ \A k \in 1 .. Len(w) : a[k] = BeginOf(w, a, k)
  /\ Len(s) = BeginOf(w, a, Len(w) + 1)
  /\ \A k \in 1 .. Len(w) : EndOf(w, a, k) <= Len(s)
  /\ \A k \in 1 .. Len(w) : \A j \in 1 .. k - 1 : EndOf(w, a, j) <= a[k]
  /\ \A k \in 1 .. Len(w) : \A j \in 1 .. Len(Bytes(w[k])) :
       s[a[k] + j] = Bytes(w[k])[j]

LEMMA LaidFacts ==
  ASSUME NEW s, NEW w, NEW a, Laid(s, w, a)
  PROVE  /\ Len(s) \in Nat /\ Len(w) \in Nat /\ Len(a) = Len(w)
         /\ \A k \in 1 .. Len(w) :
              /\ w[k] \in Written /\ a[k] \in Nat
              /\ Len(Bytes(w[k])) \in Nat /\ Len(Bytes(w[k])) > 0
              /\ EndOf(w, a, k) \in Nat
         /\ \A k \in 1 .. Len(w) + 1 : BeginOf(w, a, k) \in 0 .. Len(s)
<1>1. /\ Len(s) \in Nat /\ Len(w) \in Nat /\ Len(a) = Len(w)
      /\ w \in Seq(Written) /\ a \in Seq(Nat)
  BY DEF Laid
<1>2. ASSUME NEW k \in 1 .. Len(w)
      PROVE  /\ w[k] \in Written /\ a[k] \in Nat
             /\ Len(Bytes(w[k])) \in Nat /\ Len(Bytes(w[k])) > 0
             /\ EndOf(w, a, k) \in Nat /\ EndOf(w, a, k) <= Len(s)
  <2>1. w[k] \in Written /\ a[k] \in Nat
    BY <1>1
  <2>2. Len(Bytes(w[k])) \in Nat /\ Len(Bytes(w[k])) > 0
    BY <2>1, BytesOf
  <2>3. EndOf(w, a, k) <= Len(s)
    BY DEF Laid
  <2> QED
    BY <2>1, <2>2, <2>3 DEF EndOf
<1>3. ASSUME NEW k \in 1 .. Len(w) + 1 PROVE BeginOf(w, a, k) \in 0 .. Len(s)
  <2>1. CASE k = 1
    BY <1>1, <2>1 DEF BeginOf
  <2>2. CASE k # 1
    <3>1. k - 1 \in 1 .. Len(w)
      BY <1>1, <2>2
    <3> QED
      BY <1>1, <1>2, <2>2, <3>1 DEF BeginOf
  <2> QED
    BY <2>1, <2>2
<1> QED
  BY <1>1, <1>2, <1>3

LEMMA LaidPlace ==
  ASSUME NEW s, NEW w, NEW a, Laid(s, w, a), NEW k \in 1 .. Len(w)
  PROVE  /\ a[k] = BeginOf(w, a, k) /\ EndOf(w, a, k) = a[k] + Len(Bytes(w[k]))
         /\ a[k] \in Nat /\ EndOf(w, a, k) \in Nat /\ Len(Bytes(w[k])) \in Nat
         /\ a[k] < EndOf(w, a, k) /\ EndOf(w, a, k) <= Len(s)
<1>1. a[k] = BeginOf(w, a, k) /\ EndOf(w, a, k) <= Len(s)
  BY DEF Laid
<1>2. EndOf(w, a, k) = a[k] + Len(Bytes(w[k]))
  BY DEF EndOf
<1>3. /\ a[k] \in Nat /\ EndOf(w, a, k) \in Nat
      /\ Len(Bytes(w[k])) \in Nat /\ Len(Bytes(w[k])) > 0
  BY LaidFacts
<1> QED
  BY <1>1, <1>2, <1>3

LEMMA LaidOrder ==
  ASSUME NEW s, NEW w, NEW a, Laid(s, w, a), NEW k \in 1 .. Len(w), NEW j \in 1 .. k - 1
  PROVE  EndOf(w, a, j) <= a[k]
BY DEF Laid

LEMMA LaidByte ==
  ASSUME NEW s, NEW w, NEW a, Laid(s, w, a), NEW k \in 1 .. Len(w),
         NEW j \in 1 .. Len(Bytes(w[k]))
  PROVE  s[a[k] + j] = Bytes(w[k])[j] /\ a[k] + j \in 1 .. Len(s)
         /\ a[k] + j \in a[k] + 1 .. EndOf(w, a, k)
<1>1. s[a[k] + j] = Bytes(w[k])[j]
  BY DEF Laid
<1>2. Len(s) \in Nat
  BY LaidFacts
<1> QED
  BY <1>1, <1>2, LaidPlace

LEMMA Joined ==
  ASSUME NEW S, NEW p \in Seq(S), NEW q \in Seq(S)
  PROVE  /\ p \o q \in Seq(S) /\ Len(p \o q) = Len(p) + Len(q)
         /\ \A i \in 1 .. Len(p) : (p \o q)[i] = p[i]
         /\ \A i \in 1 .. Len(q) : (p \o q)[Len(p) + i] = q[i]
<1>1. Len(p) \in Nat /\ Len(q) \in Nat
  OBVIOUS
<1>2. p \o q \in Seq(S) /\ Len(p \o q) = Len(p) + Len(q)
  OBVIOUS
<1>3. ASSUME NEW i \in 1 .. Len(q) PROVE (p \o q)[Len(p) + i] = q[i]
  <2>1. Len(p) + i \in 1 .. Len(p) + Len(q) /\ ~(Len(p) + i <= Len(p))
        /\ (Len(p) + i) - Len(p) = i
    BY <1>1
  <2> QED
    BY <1>1, <2>1
<1> QED
  BY <1>2, <1>3

LEMMA FirstOf ==
  ASSUME NEW S, NEW p \in Seq(S), NEW k \in 0 .. Len(p)
  PROVE  /\ SubSeq(p, 1, k) \in Seq(S) /\ Len(SubSeq(p, 1, k)) = k
         /\ \A i \in 1 .. k : SubSeq(p, 1, k)[i] = p[i]
<1>1. Len(p) \in Nat
  OBVIOUS
<1> QED
  BY <1>1

\* A value more at the end.
LEMMA LaidAppend ==
  ASSUME NEW s, NEW w, NEW a, Laid(s, w, a), NEW v \in Written, NEW t \in Seq(Byte),
         Len(t) = Len(s) + Len(Bytes(v)),
         \A i \in 1 .. Len(s) : t[i] = s[i],
         \A j \in 1 .. Len(Bytes(v)) : t[Len(s) + j] = Bytes(v)[j]
  PROVE  Laid(t, Append(w, v), Append(a, Len(s)))
<1> DEFINE n == Len(w)
           W == Append(w, v)
           A == Append(a, Len(s))
<1>1. /\ n \in Nat /\ Len(a) = n /\ w \in Seq(Written) /\ a \in Seq(Nat)
      /\ Len(s) \in Nat /\ Len(t) \in Nat
      /\ Len(Bytes(v)) \in Nat /\ Len(Bytes(v)) > 0
  BY LaidFacts, BytesOf DEF Laid
<1>2. /\ W \in Seq(Written) /\ A \in Seq(Nat) /\ Len(W) = n + 1 /\ Len(A) = n + 1
      /\ W[n + 1] = v /\ A[n + 1] = Len(s)
      /\ \A k \in 1 .. n : W[k] = w[k] /\ A[k] = a[k]
  BY <1>1
<1> HIDE DEF W, A
<1>3. \A k \in 1 .. n : EndOf(W, A, k) = EndOf(w, a, k)
  BY <1>2 DEF EndOf
<1>10. Len(s) = BeginOf(w, a, n + 1)
  BY DEF Laid
<1> HIDE DEF n
<1>4. EndOf(W, A, n + 1) = Len(t)
  BY <1>1, <1>2 DEF EndOf
<1>5. \A k \in 1 .. n + 1 : BeginOf(W, A, k) = BeginOf(w, a, k)
  BY <1>1, <1>3 DEF BeginOf
<1>6. BeginOf(W, A, n + 2) = Len(t)
  BY <1>1, <1>4 DEF BeginOf
<1>7. ASSUME NEW k \in 1 .. n + 1
      PROVE  /\ A[k] = BeginOf(W, A, k) /\ EndOf(W, A, k) <= Len(t)
             /\ \A j \in 1 .. k - 1 : EndOf(W, A, j) <= A[k]
             /\ \A j \in 1 .. Len(Bytes(W[k])) : t[A[k] + j] = Bytes(W[k])[j]
  <2>1. CASE k \in 1 .. n
    <3>0. k \in 1 .. Len(w) /\ k \in 1 .. n + 1 /\ W[k] = w[k] /\ A[k] = a[k]
      BY <1>1, <1>2, <2>1 DEF n
    <3>1. /\ a[k] = BeginOf(w, a, k) /\ EndOf(w, a, k) <= Len(s)
          /\ EndOf(w, a, k) \in Nat
      BY <3>0, LaidPlace
    <3>2. /\ A[k] = BeginOf(W, A, k) /\ EndOf(W, A, k) <= Len(t)
      BY <1>1, <1>3, <1>5, <2>1, <3>0, <3>1
    <3>3. ASSUME NEW j \in 1 .. k - 1 PROVE EndOf(W, A, j) <= A[k]
      <4>1. EndOf(w, a, j) <= a[k] /\ j \in 1 .. n
        BY <1>1, <2>1, <3>0, LaidOrder
      <4> QED
        BY <1>3, <3>0, <4>1
    <3>4. ASSUME NEW j \in 1 .. Len(Bytes(W[k])) PROVE t[A[k] + j] = Bytes(W[k])[j]
      <4>1. j \in 1 .. Len(Bytes(w[k]))
        BY <3>0
      <4>2. s[a[k] + j] = Bytes(w[k])[j] /\ a[k] + j \in 1 .. Len(s)
        BY <3>0, <4>1, LaidByte
      <4> QED
        BY <3>0, <4>2
    <3> QED
      BY <3>2, <3>3, <3>4
  <2>2. CASE k = n + 1
    <3>1. A[k] = BeginOf(W, A, k)
      BY <1>1, <1>2, <1>5, <1>10, <2>2
    <3>2. ASSUME NEW j \in 1 .. k - 1 PROVE EndOf(W, A, j) <= A[k]
      <4>1. j \in 1 .. n /\ j \in 1 .. Len(w)
        BY <1>1, <2>2 DEF n
      <4>2. EndOf(w, a, j) <= Len(s)
        BY <4>1, LaidPlace
      <4> QED
        BY <1>2, <1>3, <2>2, <4>1, <4>2
    <3>3. EndOf(W, A, k) <= Len(t) /\ W[k] = v /\ A[k] = Len(s)
      BY <1>1, <1>2, <1>4, <2>2
    <3> QED
      BY <3>1, <3>2, <3>3
  <2> QED
    BY <1>1, <2>1, <2>2
<1>8. Len(W) + 1 = n + 2
  BY <1>1, <1>2
<1>9. Laid(t, W, A)
  BY <1>2, <1>6, <1>7, <1>8 DEF Laid
<1> QED
  BY <1>9 DEF W, A

\* Another value of the same size in the place of value k.
LEMMA LaidPut ==
  ASSUME NEW s, NEW w, NEW a, Laid(s, w, a), NEW k \in 1 .. Len(w), NEW v \in Written,
         Len(Bytes(v)) = Len(Bytes(w[k])), NEW t \in Seq(Byte), Len(t) = Len(s),
         \A i \in 1 .. Len(s) : i \notin a[k] + 1 .. EndOf(w, a, k) => t[i] = s[i],
         \A j \in 1 .. Len(Bytes(v)) : t[a[k] + j] = Bytes(v)[j]
  PROVE  Laid(t, [w EXCEPT ![k] = v], a)
<1> DEFINE n == Len(w)
           W == [w EXCEPT ![k] = v]
<1>1. /\ n \in Nat /\ Len(a) = n /\ w \in Seq(Written) /\ a \in Seq(Nat)
      /\ Len(s) \in Nat /\ Len(t) \in Nat
  BY LaidFacts DEF Laid
<1>2. /\ W \in Seq(Written) /\ Len(W) = n /\ W[k] = v
      /\ \A i \in 1 .. n : i # k => W[i] = w[i]
  BY <1>1
<1> HIDE DEF W
<1>7. Len(s) = BeginOf(w, a, n + 1)
  BY DEF Laid
<1>3. ASSUME NEW i \in 1 .. n PROVE EndOf(W, a, i) = EndOf(w, a, i)
  BY <1>2 DEF EndOf
<1>4. \A i \in 1 .. n + 1 : BeginOf(W, a, i) = BeginOf(w, a, i)
  BY <1>1, <1>3 DEF BeginOf
<1>5. ASSUME NEW i \in 1 .. n
      PROVE  /\ a[i] = BeginOf(W, a, i) /\ EndOf(W, a, i) <= Len(t)
             /\ \A j \in 1 .. i - 1 : EndOf(W, a, j) <= a[i]
             /\ \A j \in 1 .. Len(Bytes(W[i])) : t[a[i] + j] = Bytes(W[i])[j]
  <2>3. /\ a[i] = BeginOf(w, a, i) /\ EndOf(w, a, i) <= Len(s)
        /\ EndOf(w, a, i) \in Nat /\ a[i] \in Nat
    BY LaidPlace
  <2>4. a[i] = BeginOf(W, a, i) /\ EndOf(W, a, i) <= Len(t)
    BY <1>1, <1>3, <1>4, <2>3
  <2>5. ASSUME NEW j \in 1 .. i - 1 PROVE EndOf(W, a, j) <= a[i]
    <3>1. EndOf(w, a, j) <= a[i] /\ j \in 1 .. n
      BY <1>1, LaidOrder
    <3> QED
      BY <1>3, <3>1
  <2>6. ASSUME NEW j \in 1 .. Len(Bytes(W[i])) PROVE t[a[i] + j] = Bytes(W[i])[j]
    <3>1. CASE i = k
      BY <1>2, <2>6, <3>1
    <3>2. CASE i # k
      <4>1. W[i] = w[i] /\ j \in 1 .. Len(Bytes(w[i]))
        BY <1>2, <3>2
      <4>2. /\ s[a[i] + j] = Bytes(w[i])[j] /\ a[i] + j \in 1 .. Len(s)
            /\ a[i] + j \in a[i] + 1 .. EndOf(w, a, i)
        BY <4>1, LaidByte
      <4>3. EndOf(w, a, i) <= a[k] \/ EndOf(w, a, k) <= a[i]
        <5>1. i \in 1 .. k - 1 \/ k \in 1 .. i - 1
          BY <1>1, <3>2
        <5> QED
          BY <5>1, LaidOrder
      <4>4. EndOf(w, a, k) \in Nat /\ a[k] \in Nat
        BY LaidPlace
      <4>5. a[i] + j \notin a[k] + 1 .. EndOf(w, a, k)
        <5> DEFINE x == a[i] + j
                   e == EndOf(w, a, i)
                   f == EndOf(w, a, k)
                   y == a[i]
                   z == a[k]
        <5>1. /\ e <= a[k] \/ f <= a[i]
              /\ a[i] \in Nat /\ e \in Nat /\ f \in Nat /\ a[k] \in Nat
              /\ x \in a[i] + 1 .. e
          BY <2>3, <4>2, <4>3, <4>4
        <5>3. /\ e <= z \/ f <= y
              /\ y \in Nat /\ e \in Nat /\ f \in Nat /\ z \in Nat
              /\ x \in Int /\ x > y /\ x <= e
          BY <5>1
        <5> HIDE DEF x, e, f, y, z
        <5>4. ~(x > z /\ x <= f)
          BY <5>3
        <5>5. x \notin z + 1 .. f
          BY <5>3, <5>4
        <5>2. x \notin a[k] + 1 .. f
          BY <5>5 DEF z
        <5> QED
          BY <5>2 DEF x, f
      <4> QED
        BY <4>1, <4>2, <4>5
    <3> QED
      BY <3>1, <3>2
  <2> QED
    BY <2>4, <2>5, <2>6
<1>8. n + 1 \in 1 .. n + 1
  BY <1>1
<1>9. Len(t) = BeginOf(W, a, Len(W) + 1)
  BY <1>2, <1>4, <1>7, <1>8
<1>6. Laid(t, W, a)
  BY <1>1, <1>2, <1>5, <1>9 DEF Laid
<1> QED
  BY <1>6 DEF W

\* The first k values, and the bytes up to the next.
LEMMA LaidCut ==
  ASSUME NEW s, NEW w, NEW a, Laid(s, w, a), NEW k \in 0 .. Len(w) - 1,
         NEW t \in Seq(Byte), Len(t) = a[k + 1],
         \A i \in 1 .. Len(t) : t[i] = s[i]
  PROVE  Laid(t, SubSeq(w, 1, k), SubSeq(a, 1, k))
<1> DEFINE W == SubSeq(w, 1, k)
           A == SubSeq(a, 1, k)
<1>1. /\ Len(w) \in Nat /\ Len(a) = Len(w) /\ w \in Seq(Written) /\ a \in Seq(Nat)
      /\ k \in Nat /\ k + 1 \in 1 .. Len(w)
  BY LaidFacts DEF Laid
<1>2. /\ W \in Seq(Written) /\ A \in Seq(Nat) /\ Len(W) = k /\ Len(A) = k
      /\ \A i \in 1 .. k : W[i] = w[i] /\ A[i] = a[i]
  <2>1. k \in 0 .. Len(w) /\ k \in 0 .. Len(a)
    BY <1>1
  <2> QED
    BY <1>1, <2>1, FirstOf
<1> HIDE DEF W, A
<1>3. \A i \in 1 .. k : EndOf(W, A, i) = EndOf(w, a, i)
  BY <1>2 DEF EndOf
<1>4. \A i \in 1 .. k + 1 : BeginOf(W, A, i) = BeginOf(w, a, i)
  BY <1>1, <1>3 DEF BeginOf
<1>5. Len(t) = BeginOf(W, A, Len(W) + 1)
  <2>1. a[k + 1] = BeginOf(w, a, k + 1)
    BY <1>1, LaidPlace
  <2> QED
    BY <1>1, <1>2, <1>4, <2>1
<1>6. ASSUME NEW i \in 1 .. k
      PROVE  /\ A[i] = BeginOf(W, A, i) /\ EndOf(W, A, i) <= Len(t)
             /\ \A j \in 1 .. i - 1 : EndOf(W, A, j) <= A[i]
             /\ \A j \in 1 .. Len(Bytes(W[i])) : t[A[i] + j] = Bytes(W[i])[j]
  <2>6. i \in Nat /\ 1 <= i /\ i <= k /\ k <= Len(w)
    BY <1>1
  <2>1. /\ i \in 1 .. Len(w) /\ i \in 1 .. (k + 1) - 1 /\ i \in 1 .. k + 1
        /\ W[i] = w[i] /\ A[i] = a[i]
    <3>1. i \in 1 .. Len(w) /\ i \in 1 .. (k + 1) - 1 /\ i \in 1 .. k + 1
      BY <1>1, <2>6
    <3> QED
      BY <1>2, <3>1
  <2>2. /\ a[i] = BeginOf(w, a, i) /\ EndOf(w, a, i) <= Len(t)
        /\ a[i] \in Nat /\ EndOf(w, a, i) \in Nat
    <3>1. EndOf(w, a, i) <= a[k + 1]
      BY <1>1, <2>1, LaidOrder
    <3>2. a[i] = BeginOf(w, a, i) /\ a[i] \in Nat /\ EndOf(w, a, i) \in Nat
      BY <2>1, LaidPlace
    <3> QED
      BY <3>1, <3>2
  <2>3. A[i] = BeginOf(W, A, i) /\ EndOf(W, A, i) <= Len(t)
    BY <1>3, <1>4, <2>1, <2>2
  <2>4. ASSUME NEW j \in 1 .. i - 1 PROVE EndOf(W, A, j) <= A[i]
    <3>1. EndOf(w, a, j) <= a[i] /\ j \in 1 .. k
      BY <1>1, <2>1, LaidOrder
    <3> QED
      BY <1>3, <2>1, <3>1
  <2>5. ASSUME NEW j \in 1 .. Len(Bytes(W[i])) PROVE t[A[i] + j] = Bytes(W[i])[j]
    <3>1. j \in 1 .. Len(Bytes(w[i]))
      BY <2>1
    <3>2. s[a[i] + j] = Bytes(w[i])[j] /\ a[i] + j \in a[i] + 1 .. EndOf(w, a, i)
      BY <2>1, <3>1, LaidByte
    <3>3. Len(t) \in Nat
      OBVIOUS
    <3>4. a[i] + j \in 1 .. Len(t)
      BY <2>2, <3>2, <3>3
    <3> QED
      BY <2>1, <3>2, <3>4
  <2> QED
    BY <2>3, <2>4, <2>5
<1>7. Laid(t, W, A)
  BY <1>2, <1>5, <1>6 DEF Laid
<1> QED
  BY <1>7 DEF W, A

\* All the values once more.
LEMMA LaidTwice ==
  ASSUME NEW s, NEW w, NEW a, Laid(s, w, a), NEW t \in Seq(Byte),
         Len(t) = Len(s) + Len(s),
         \A i \in 1 .. Len(s) : t[i] = s[i] /\ t[Len(s) + i] = s[i]
  PROVE  Laid(t, w \o w, a \o [k \in 1 .. Len(a) |-> Len(s) + a[k]])
<1> DEFINE n == Len(w)
           m == Len(s)
           b == [k \in 1 .. Len(a) |-> Len(s) + a[k]]
           W == w \o w
           A == a \o b
<1>1. /\ n \in Nat /\ m \in Nat /\ Len(a) = n /\ w \in Seq(Written) /\ a \in Seq(Nat)
  BY LaidFacts DEF Laid
<1>2. b \in Seq(Nat) /\ Len(b) = n /\ \A k \in 1 .. n : b[k] = m + a[k]
  <2>1. \A k \in 1 .. n : Len(s) + a[k] \in Nat
    BY <1>1
  <2> QED
    BY <1>1, <2>1
<1>10. m = BeginOf(w, a, n + 1)
  BY DEF Laid
<1> HIDE DEF b
<1>3. /\ W \in Seq(Written) /\ A \in Seq(Nat) /\ Len(W) = n + n /\ Len(A) = n + n
      /\ \A k \in 1 .. n : /\ W[k] = w[k] /\ A[k] = a[k]
                           /\ W[n + k] = w[k] /\ A[n + k] = m + a[k]
  <2>1. /\ W \in Seq(Written) /\ Len(W) = n + n
        /\ \A k \in 1 .. n : W[k] = w[k] /\ W[n + k] = w[k]
    <3>1. \A k \in 1 .. Len(w) : (w \o w)[k] = w[k] /\ (w \o w)[Len(w) + k] = w[k]
      BY <1>1, Joined
    <3> QED
      BY <1>1, <3>1, Joined
  <2>2. /\ A \in Seq(Nat) /\ Len(A) = n + n
        /\ \A k \in 1 .. n : A[k] = a[k] /\ A[n + k] = b[k]
    <3>0. a \in Seq(Nat) /\ b \in Seq(Nat)
      BY <1>1, <1>2
    <3>1. /\ \A k \in 1 .. Len(a) : (a \o b)[k] = a[k]
          /\ \A k \in 1 .. Len(b) : (a \o b)[Len(a) + k] = b[k]
          /\ a \o b \in Seq(Nat) /\ Len(a \o b) = Len(a) + Len(b)
      BY <3>0, Joined
    <3> QED
      BY <1>1, <1>2, <3>1
  <2> QED
    BY <1>2, <2>1, <2>2
<1>11. n = Len(w) /\ m = Len(s)
  OBVIOUS
<1> HIDE DEF W, A, n, m
<1>4. ASSUME NEW k \in 1 .. n
      PROVE  /\ EndOf(W, A, k) = EndOf(w, a, k)
             /\ EndOf(W, A, n + k) = m + EndOf(w, a, k)
             /\ EndOf(w, a, k) \in 0 .. m /\ a[k] \in 0 .. m
             /\ a[k] = BeginOf(w, a, k)
  <2>1. /\ a[k] \in Nat /\ Len(Bytes(w[k])) \in Nat /\ EndOf(w, a, k) <= m
        /\ EndOf(w, a, k) = a[k] + Len(Bytes(w[k])) /\ a[k] = BeginOf(w, a, k)
        /\ EndOf(w, a, k) \in Nat /\ a[k] < EndOf(w, a, k)
    <3>1. k \in 1 .. Len(w)
      BY <1>11
    <3>2. /\ a[k] \in Nat /\ Len(Bytes(w[k])) \in Nat /\ EndOf(w, a, k) <= Len(s)
          /\ EndOf(w, a, k) = a[k] + Len(Bytes(w[k])) /\ a[k] = BeginOf(w, a, k)
          /\ EndOf(w, a, k) \in Nat /\ a[k] < EndOf(w, a, k)
      BY <3>1, LaidPlace
    <3> QED
      BY <1>11, <3>2
  <2>2. /\ EndOf(W, A, k) = a[k] + Len(Bytes(w[k]))
        /\ EndOf(W, A, n + k) = (m + a[k]) + Len(Bytes(w[k]))
    BY <1>3 DEF EndOf
  <2> DEFINE l == Len(Bytes(w[k]))
  <2>3. l \in Nat /\ a[k] \in Nat /\ a[k] + l = EndOf(w, a, k)
        /\ EndOf(W, A, n + k) = (m + a[k]) + l
    BY <2>1, <2>2
  <2> HIDE DEF l
  <2>4. EndOf(W, A, n + k) = m + EndOf(w, a, k)
    BY <1>1, <2>3
  <2> QED
    BY <1>1, <2>1, <2>2, <2>4
<1>5. ASSUME NEW k \in 1 .. n + 1 PROVE BeginOf(W, A, k) = BeginOf(w, a, k)
  <2>1. k = 1 \/ k - 1 \in 1 .. n
    BY <1>1
  <2> QED
    BY <1>4, <2>1 DEF BeginOf
<1>6. ASSUME NEW k \in 1 .. n + 1 PROVE BeginOf(W, A, n + k) = m + BeginOf(w, a, k)
  <2>1. CASE k = 1
    <3>2. n + 1 \in 1 .. n + 1
      BY <1>1
    <3>3. BeginOf(W, A, n + 1) = m
      BY <1>5, <1>10, <3>2
    <3>1. BeginOf(W, A, n + 1) = m /\ BeginOf(w, a, 1) = 0
      BY <3>3 DEF BeginOf
    <3> QED
      BY <1>1, <2>1, <3>1
  <2>2. CASE k # 1
    <3>1. k - 1 \in 1 .. n /\ (n + k) - 1 = n + (k - 1) /\ n + k # 1
      BY <1>1, <2>2
    <3> QED
      BY <1>4, <2>2, <3>1 DEF BeginOf
  <2> QED
    BY <2>1, <2>2
<1>7. Len(t) = BeginOf(W, A, Len(W) + 1)
  <2>1. Len(W) + 1 = n + (n + 1) /\ n + 1 \in 1 .. n + 1
    BY <1>1, <1>3
  <2>3. BeginOf(W, A, n + (n + 1)) = m + BeginOf(w, a, n + 1)
    BY <1>6, <2>1
  <2> QED
    BY <1>10, <1>11, <2>1, <2>3
<1>8. ASSUME NEW i \in 1 .. n + n
      PROVE  /\ A[i] = BeginOf(W, A, i) /\ EndOf(W, A, i) <= Len(t)
             /\ \A j \in 1 .. i - 1 : EndOf(W, A, j) <= A[i]
             /\ \A j \in 1 .. Len(Bytes(W[i])) : t[A[i] + j] = Bytes(W[i])[j]
  <2>1. CASE i \in 1 .. n
    <3>0. i \in 1 .. Len(w) /\ i \in 1 .. n + 1 /\ W[i] = w[i] /\ A[i] = a[i]
      BY <1>1, <1>3, <1>11, <2>1
    <3>1. A[i] = BeginOf(W, A, i) /\ EndOf(W, A, i) <= Len(t)
      BY <1>1, <1>4, <1>5, <1>11, <2>1, <3>0
    <3>2. ASSUME NEW j \in 1 .. i - 1 PROVE EndOf(W, A, j) <= A[i]
      <4>1. EndOf(w, a, j) <= a[i] /\ j \in 1 .. n
        BY <1>1, <2>1, <3>0, LaidOrder
      <4> QED
        BY <1>4, <3>0, <4>1
    <3>3. ASSUME NEW j \in 1 .. Len(Bytes(W[i])) PROVE t[A[i] + j] = Bytes(W[i])[j]
      <4>1. j \in 1 .. Len(Bytes(w[i]))
        BY <3>0
      <4>2. s[a[i] + j] = Bytes(w[i])[j] /\ a[i] + j \in 1 .. Len(s)
        BY <3>0, <4>1, LaidByte
      <4> QED
        BY <3>0, <4>2
    <3> QED
      BY <3>1, <3>2, <3>3
  <2>2. CASE i \in n + 1 .. n + n
    <3> DEFINE k == i - n
    <3>1. k \in 1 .. n /\ k \in 1 .. n + 1 /\ k \in 1 .. Len(w) /\ i = n + k
      BY <1>1, <1>11, <2>2
    <3> HIDE DEF k
    <3>2. A[i] = m + a[k] /\ W[i] = w[k] /\ EndOf(W, A, i) = m + EndOf(w, a, k)
      BY <1>3, <1>4, <3>1
    <3>3. A[i] = BeginOf(W, A, i)
      BY <1>4, <1>6, <3>1, <3>2
    <3>4. EndOf(W, A, i) <= Len(t)
      BY <1>1, <1>4, <1>11, <3>1, <3>2
    <3>5. ASSUME NEW j \in 1 .. i - 1 PROVE EndOf(W, A, j) <= A[i]
      <4>1. CASE j \in 1 .. n
        <5>1. EndOf(W, A, j) <= m /\ EndOf(W, A, j) \in Nat
          BY <1>1, <1>4, <4>1
        <5>2. a[k] \in Nat
          BY <1>1, <1>4, <3>1
        <5> QED
          BY <1>1, <3>2, <5>1, <5>2
      <4>2. CASE j \in n + 1 .. i - 1
        <5> DEFINE l == j - n
        <5>1. l \in 1 .. k - 1 /\ l \in 1 .. n /\ j = n + l
          BY <1>1, <3>1, <4>2
        <5> HIDE DEF l
        <5>2. EndOf(w, a, l) <= a[k]
          BY <3>1, <5>1, LaidOrder
        <5>3. EndOf(W, A, j) = m + EndOf(w, a, l) /\ EndOf(w, a, l) \in 0 .. m
          BY <1>4, <5>1
        <5>4. a[k] \in 0 .. m
          BY <1>4, <3>1
        <5> QED
          BY <1>1, <3>2, <5>2, <5>3, <5>4
      <4> QED
        BY <1>1, <3>1, <4>1, <4>2
    <3>6. ASSUME NEW j \in 1 .. Len(Bytes(W[i])) PROVE t[A[i] + j] = Bytes(W[i])[j]
      <4>1. j \in 1 .. Len(Bytes(w[k]))
        BY <3>2
      <4>2. s[a[k] + j] = Bytes(w[k])[j] /\ a[k] + j \in 1 .. Len(s)
        BY <3>1, <4>1, LaidByte
      <4>3. a[k] \in 0 .. m /\ j \in Nat
        BY <1>4, <3>1
      <4>4. A[i] + j = m + (a[k] + j)
        BY <1>1, <3>2, <4>3
      <4> QED
        BY <1>11, <3>2, <4>2, <4>4
    <3> QED
      BY <3>3, <3>4, <3>5, <3>6
  <2> QED
    BY <1>1, <2>1, <2>2
<1>9. Laid(t, W, A)
  BY <1>3, <1>7, <1>8 DEF Laid
<1> QED
  BY <1>9 DEF W, A, b

------------------------------------------------------------------------------
(* The steps of the buffer.                                                *)

GivenBack ==
  Written \cup {[type |-> "time_t", val |-> Unset]}
          \cup [type : {"array"}, was : Array, val : Array]

BufferInv ==
  /\ Laid(mStorage, wrote, at) /\ mWritePos = size
  /\ read \in Seq(GivenBack) /\ Len(read) <= Len(wrote)
  /\ mReadPos = BeginOf(wrote, at, Len(read) + 1)
  /\ aborted \in BOOLEAN /\ AbortsOnOverread /\ RoundTrip

LEMMA OverwrittenIs ==
  ASSUME NEW pos \in Nat, NEW bytes \in Seq(Byte), mStorage \in Seq(Byte), pos <= size
  PROVE  /\ Overwritten(pos, bytes) \in Seq(Byte)
         /\ Len(Overwritten(pos, bytes)) =
              IF size < pos + Len(bytes) THEN pos + Len(bytes) ELSE size
         /\ \A i \in 1 .. size :
              i \notin pos + 1 .. pos + Len(bytes) => Overwritten(pos, bytes)[i] = mStorage[i]
         /\ \A j \in 1 .. Len(bytes) : Overwritten(pos, bytes)[pos + j] = bytes[j]
<1> DEFINE l == Len(bytes)
           m == IF size < pos + l THEN pos + l ELSE size
           O(k) == IF k \in pos + 1 .. pos + l THEN bytes[k - pos]
                   ELSE IF k <= size THEN mStorage[k] ELSE 0
<1>1. l \in Nat /\ size \in Nat /\ m \in Nat /\ size <= m /\ pos + l <= m
  BY DEF size
<1>2. Overwritten(pos, bytes) = [k \in 1 .. m |-> O(k)]
  BY DEF Overwritten
<1>3. ASSUME NEW k \in 1 .. m PROVE O(k) \in Byte
  <2>1. CASE k \in pos + 1 .. pos + l
    <3>1. k - pos \in 1 .. Len(bytes)
      BY <1>1, <2>1
    <3> QED
      BY <2>1, <3>1
  <2>2. CASE k \notin pos + 1 .. pos + l /\ k <= size
    <3>1. k \in 1 .. Len(mStorage)
      BY <1>1, <2>2 DEF size
    <3> QED
      BY <2>2, <3>1
  <2>3. CASE k \notin pos + 1 .. pos + l /\ ~(k <= size)
    BY <2>3, BufferAssumption DEF Byte
  <2> QED
    BY <2>1, <2>2, <2>3
<1>4. \A i \in 1 .. size : i \in 1 .. m
  BY <1>1
<1>5. ASSUME NEW j \in 1 .. l
      PROVE  pos + j \in 1 .. m /\ pos + j \in pos + 1 .. pos + l /\ (pos + j) - pos = j
  BY <1>1
<1>6. \A j \in 1 .. l : O(pos + j) = bytes[j]
  BY <1>5
<1>7. \A i \in 1 .. size : i \notin pos + 1 .. pos + l => O(i) = mStorage[i]
  BY <1>1
<1>8. m = IF size < pos + Len(bytes) THEN pos + Len(bytes) ELSE size
  OBVIOUS
<1>9. l = Len(bytes)
  OBVIOUS
<1> HIDE DEF m, l, O
<1>10. /\ Overwritten(pos, bytes) \in Seq(Byte) /\ Len(Overwritten(pos, bytes)) = m
       /\ \A k \in 1 .. m : Overwritten(pos, bytes)[k] = O(k)
  BY <1>1, <1>2, <1>3
<1> QED
  BY <1>4, <1>5, <1>6, <1>7, <1>8, <1>9, <1>10

\* bytes at the end of the storage.
LEMMA AppendedIs ==
  ASSUME NEW bytes \in Seq(Byte), mStorage \in Seq(Byte)
  PROVE  /\ Overwritten(size, bytes) \in Seq(Byte)
         /\ Len(Overwritten(size, bytes)) = Len(mStorage) + Len(bytes)
         /\ \A i \in 1 .. Len(mStorage) : Overwritten(size, bytes)[i] = mStorage[i]
         /\ \A j \in 1 .. Len(bytes) :
              Overwritten(size, bytes)[Len(mStorage) + j] = bytes[j]
<1> DEFINE n == Len(mStorage)
           l == Len(bytes)
<1>1. n \in Nat /\ l \in Nat /\ size = n
  BY DEF size
<1>2. size \in Nat /\ size <= size
  BY <1>1
<1>3. /\ Overwritten(size, bytes) \in Seq(Byte)
      /\ Len(Overwritten(size, bytes)) = IF size < size + l THEN size + l ELSE size
      /\ \A i \in 1 .. size :
           i \notin size + 1 .. size + l => Overwritten(size, bytes)[i] = mStorage[i]
      /\ \A j \in 1 .. l : Overwritten(size, bytes)[size + j] = bytes[j]
  BY <1>2, OverwrittenIs
<1> DEFINE o == Overwritten(size, bytes)
<1> HIDE DEF n, l, o
<1>4. /\ Len(o) = IF n < n + l THEN n + l ELSE n
      /\ \A i \in 1 .. n : i \notin n + 1 .. n + l => o[i] = mStorage[i]
      /\ \A j \in 1 .. l : o[n + j] = bytes[j]
  BY <1>1, <1>3 DEF o
<1>5. \A i \in 1 .. n : i \notin n + 1 .. n + l
  BY <1>1
<1>6. n + l = IF n < n + l THEN n + l ELSE n
  BY <1>1
<1> QED
  BY <1>3, <1>4, <1>5, <1>6 DEF o, n, l

LEMMA ResizedIs ==
  ASSUME NEW n \in Nat, mStorage \in Seq(Byte)
  PROVE  /\ Resized(n) \in Seq(Byte) /\ Len(Resized(n)) = n
         /\ \A k \in 1 .. n : Resized(n)[k] = IF k <= size THEN mStorage[k] ELSE 0
<1>1. size \in Nat /\ 0 \in Byte
  BY BufferAssumption DEF size, Byte
<1>2. ASSUME NEW k \in 1 .. n PROVE (IF k <= size THEN mStorage[k] ELSE 0) \in Byte
  BY <1>1 DEF size
<1> QED
  BY <1>2 DEF Resized

\* Positions in front of which nothing changes stay.
LEMMA SameBegin ==
  ASSUME NEW w, NEW a, NEW v, NEW p, NEW q, NEW r, Len(w) \in Nat,
         NEW k \in 1 .. Len(w) + 1,
         \A i \in 1 .. Len(w) : q[i] = w[i] /\ r[i] = a[i]
  PROVE  BeginOf(q, r, k) = BeginOf(w, a, k)
<1>1. k = 1 \/ k - 1 \in 1 .. Len(w)
  OBVIOUS
<1> QED
  BY <1>1 DEF BeginOf, EndOf

LEMMA BufferFacts ==
  ASSUME BufferInv
  PROVE  /\ mStorage \in Seq(Byte) /\ wrote \in Seq(Written) /\ at \in Seq(Nat)
         /\ Len(at) = Len(wrote) /\ Len(wrote) \in Nat /\ Len(read) \in Nat
         /\ size \in Nat /\ mWritePos = size /\ size = Len(mStorage)
         /\ Laid(mStorage, wrote, at) /\ Len(read) + 1 \in 1 .. Len(wrote) + 1
BY LaidFacts DEF BufferInv, Laid, size

LEMMA WriteStep ==
  ASSUME BufferInv, NEW v \in Value, Write(v)
  PROVE  BufferInv'
<1>1. /\ v \in Written /\ Bytes(v) \in Seq(Byte) /\ Len(Bytes(v)) \in Nat
  BY BytesOf DEF Written
<1>2. /\ mStorage' = Overwritten(size, Bytes(v)) /\ mWritePos' = size + Len(Bytes(v))
      /\ wrote' = Append(wrote, v) /\ at' = Append(at, size)
      /\ mReadPos' = mReadPos /\ aborted' = aborted /\ read' = read /\ aborted = FALSE
  BY BufferFacts DEF Write, BufferInv
<1>3. /\ mStorage' \in Seq(Byte) /\ Len(mStorage') = Len(mStorage) + Len(Bytes(v))
      /\ \A i \in 1 .. Len(mStorage) : mStorage'[i] = mStorage[i]
      /\ \A j \in 1 .. Len(Bytes(v)) : mStorage'[Len(mStorage) + j] = Bytes(v)[j]
  BY <1>1, <1>2, BufferFacts, AppendedIs
<1>4. Laid(mStorage', wrote', at')
  BY <1>1, <1>2, <1>3, BufferFacts, LaidAppend
<1>5. /\ Len(wrote') = Len(wrote) + 1
      /\ \A i \in 1 .. Len(wrote) : wrote'[i] = wrote[i] /\ at'[i] = at[i]
  BY <1>1, <1>2, BufferFacts
<1>6. BeginOf(wrote', at', Len(read) + 1) = BeginOf(wrote, at, Len(read) + 1)
  BY <1>5, BufferFacts, SameBegin
<1>7. RoundTrip'
  BY <1>2, <1>5, BufferFacts DEF RoundTrip, BufferInv
<1> QED
  BY <1>1, <1>2, <1>3, <1>4, <1>5, <1>6, <1>7, BufferFacts
     DEF BufferInv, AbortsOnOverread, size

LEMMA PutStep ==
  ASSUME BufferInv, NEW k \in 1 .. Len(wrote), NEW v \in Value, Put(k, v)
  PROVE  BufferInv'
<1>1. /\ v \in Written /\ Bytes(v) \in Seq(Byte) /\ Len(Bytes(v)) \in Nat
  BY BytesOf DEF Written
<1>2. /\ mStorage' = Overwritten(at[k], Bytes(v)) /\ mWritePos' = mWritePos
      /\ wrote' = [wrote EXCEPT ![k] = v] /\ at' = at
      /\ mReadPos' = mReadPos /\ aborted' = aborted /\ read' = read /\ aborted = FALSE
      /\ Len(read) < k /\ v.type = wrote[k].type /\ v.type # "string"
  BY DEF Put
<1>3. Len(Bytes(v)) = Len(Bytes(wrote[k])) /\ wrote[k] \in Written
  BY <1>1, <1>2, BufferFacts, BytesOf
<1>4. /\ at[k] \in Nat /\ EndOf(wrote, at, k) = at[k] + Len(Bytes(v))
      /\ EndOf(wrote, at, k) <= size
  BY <1>3, BufferFacts, LaidPlace
<1>5. /\ mStorage' \in Seq(Byte) /\ Len(mStorage') = Len(mStorage)
      /\ \A i \in 1 .. Len(mStorage) :
           i \notin at[k] + 1 .. EndOf(wrote, at, k) => mStorage'[i] = mStorage[i]
      /\ \A j \in 1 .. Len(Bytes(v)) : mStorage'[at[k] + j] = Bytes(v)[j]
  <2>1. at[k] <= size /\ ~(size < at[k] + Len(Bytes(v)))
    BY <1>1, <1>4, BufferFacts
  <2>2. mStorage \in Seq(Byte) /\ at[k] \in Nat
    BY <1>4, BufferFacts
  <2>3. /\ mStorage' \in Seq(Byte)
        /\ Len(mStorage') =
             IF size < at[k] + Len(Bytes(v)) THEN at[k] + Len(Bytes(v)) ELSE size
        /\ \A i \in 1 .. size :
             i \notin at[k] + 1 .. at[k] + Len(Bytes(v)) => mStorage'[i] = mStorage[i]
        /\ \A j \in 1 .. Len(Bytes(v)) : mStorage'[at[k] + j] = Bytes(v)[j]
    BY <1>1, <1>2, <2>1, <2>2, OverwrittenIs
  <2> QED
    BY <1>4, <2>1, <2>3, BufferFacts
<1>6. Laid(mStorage', wrote', at')
  BY <1>1, <1>2, <1>3, <1>5, BufferFacts, LaidPut
<1>7. /\ Len(wrote') = Len(wrote)
      /\ \A i \in 1 .. Len(wrote) : i # k => wrote'[i] = wrote[i]
  BY <1>1, <1>2, BufferFacts
<1>8. BeginOf(wrote', at', Len(read) + 1) = BeginOf(wrote, at, Len(read) + 1)
  <2>1. CASE Len(read) + 1 = 1
    BY <2>1 DEF BeginOf
  <2>2. CASE Len(read) \in 1 .. Len(wrote)
    <3>1. (Len(read) + 1) - 1 = Len(read) /\ Len(read) # k
      BY <1>2, BufferFacts
    <3>2. wrote'[Len(read)] = wrote[Len(read)] /\ at' = at
      BY <1>2, <1>7, <2>2, <3>1
    <3> QED
      BY <3>1, <3>2 DEF BeginOf, EndOf
  <2> QED
    BY <2>1, <2>2, BufferFacts
<1>9. RoundTrip'
  <2>1. \A i \in 1 .. Len(read) : i \in 1 .. Len(wrote) /\ i # k
    BY <1>2, BufferFacts
  <2> QED
    BY <1>2, <1>7, <2>1 DEF RoundTrip, BufferInv
<1> QED
  BY <1>2, <1>5, <1>6, <1>7, <1>8, <1>9, BufferFacts
     DEF BufferInv, AbortsOnOverread, size

\* A buffer from which nothing was read yet.
LEMMA UnreadInv ==
  ASSUME Laid(mStorage', wrote', at'), mWritePos' = Len(mStorage'), mReadPos' = 0,
         read' = << >>, aborted' = FALSE
  PROVE  BufferInv'
<1>1. Len(read') = 0 /\ read' \in Seq(GivenBack) /\ Len(wrote') \in Nat
  BY DEF Laid
<1>2. BeginOf(wrote', at', Len(read') + 1) = 0
  BY <1>1 DEF BeginOf
<1>3. RoundTrip'
  BY <1>1 DEF RoundTrip
<1> QED
  <2>1. Len(read') <= Len(wrote')
    BY <1>1
  <2>2. aborted' \in BOOLEAN /\ AbortsOnOverread'
    BY Zenon DEF AbortsOnOverread
  <2> QED
    BY <1>1, <1>2, <1>3, <2>1, <2>2 DEF BufferInv, size

LEMMA EmptyLaid == Laid(<< >>, << >>, << >>)
BY DEF Laid, BeginOf

LEMMA ShrinkStep ==
  ASSUME BufferInv, NEW k \in 0 .. Len(wrote) - 1, Shrink(k)
  PROVE  BufferInv'
<1>1. /\ mStorage' = Resized(at[k + 1]) /\ mWritePos' = Len(mStorage') /\ mReadPos' = 0
      /\ wrote' = SubSeq(wrote, 1, k) /\ at' = SubSeq(at, 1, k)
      /\ read' = << >> /\ aborted' = FALSE
  BY DEF Shrink
<1>2. k + 1 \in 1 .. Len(wrote)
  BY BufferFacts
<1>3. at[k + 1] \in Nat /\ at[k + 1] <= size
  BY <1>2, BufferFacts, LaidPlace
<1>4. /\ mStorage' \in Seq(Byte) /\ Len(mStorage') = at[k + 1]
      /\ \A i \in 1 .. Len(mStorage') : mStorage'[i] = mStorage[i]
  <2>1. /\ mStorage' \in Seq(Byte) /\ Len(mStorage') = at[k + 1]
        /\ \A i \in 1 .. at[k + 1] :
             mStorage'[i] = IF i <= size THEN mStorage[i] ELSE 0
    BY <1>1, <1>3, BufferFacts, ResizedIs
  <2>2. \A i \in 1 .. at[k + 1] : i <= size
    BY <1>3, BufferFacts
  <2> QED
    BY <2>1, <2>2
<1>5. Laid(mStorage', wrote', at')
  BY <1>1, <1>4, BufferFacts, LaidCut
<1> QED
  BY <1>1, <1>5, UnreadInv

LEMMA EnlargeStep ==
  ASSUME BufferInv, Enlarge
  PROVE  BufferInv'
<1>1. /\ mStorage' = Resized(size + 1) /\ mWritePos' = Len(mStorage') /\ mReadPos' = 0
      /\ wrote' = Append(wrote, Zero) /\ at' = Append(at, size)
      /\ read' = << >> /\ aborted' = FALSE
  BY DEF Enlarge, Zero
<1>2. Zero \in Written /\ Len(Bytes(Zero)) = 1 /\ Bytes(Zero)[1] = 0
  <2>1. Zero \in Written /\ Zero.type = "uint8" /\ Zero.val = 0
    BY DEF Written, Zero
  <2> QED
    BY <2>1, BytesOf DEF ByteSizeOf
<1>3. /\ mStorage' \in Seq(Byte) /\ Len(mStorage') = Len(mStorage) + 1
      /\ \A i \in 1 .. Len(mStorage) : mStorage'[i] = mStorage[i]
      /\ mStorage'[Len(mStorage) + 1] = 0
  <2>1. size + 1 \in Nat
    BY BufferFacts
  <2>2. /\ mStorage' \in Seq(Byte) /\ Len(mStorage') = size + 1
        /\ \A i \in 1 .. size + 1 :
             mStorage'[i] = IF i <= size THEN mStorage[i] ELSE 0
    BY <1>1, <2>1, BufferFacts, ResizedIs
  <2>3. (\A i \in 1 .. size : i \in 1 .. size + 1 /\ i <= size)
        /\ size + 1 \in 1 .. size + 1 /\ ~(size + 1 <= size)
    BY BufferFacts
  <2> QED
    BY <2>2, <2>3, BufferFacts
<1>4. Laid(mStorage', wrote', at')
  <2>1. /\ Len(mStorage') = Len(mStorage) + Len(Bytes(Zero))
        /\ \A j \in 1 .. Len(Bytes(Zero)) : mStorage'[Len(mStorage) + j] = Bytes(Zero)[j]
    BY <1>2, <1>3
  <2> QED
    BY <1>1, <1>2, <1>3, <2>1, BufferFacts, LaidAppend
<1> QED
  BY <1>1, <1>4, UnreadInv

LEMMA AppendStep ==
  ASSUME BufferInv, AppendCopy
  PROVE  BufferInv'
<1> DEFINE b == [k \in 1 .. Len(at) |-> Len(mStorage) + at[k]]
<1>1. /\ mStorage' = Overwritten(size, mStorage) /\ mWritePos' = size + size
      /\ wrote' = wrote \o wrote /\ at' = at \o b
      /\ mReadPos' = mReadPos /\ aborted' = aborted /\ read' = read /\ aborted = FALSE
  <2>1. size = mWritePos /\ size = Len(mStorage)
    BY BufferFacts
  <2> QED
    BY <2>1 DEF AppendCopy
<1>2. /\ mStorage' \in Seq(Byte) /\ Len(mStorage') = Len(mStorage) + Len(mStorage)
      /\ \A i \in 1 .. Len(mStorage) :
           mStorage'[i] = mStorage[i] /\ mStorage'[Len(mStorage) + i] = mStorage[i]
  BY <1>1, BufferFacts, AppendedIs
<1>3. Laid(mStorage', wrote', at')
  BY <1>1, <1>2, BufferFacts, LaidTwice
<1> HIDE DEF b
<1>4. /\ Len(wrote') = Len(wrote) + Len(wrote) /\ Len(at') = Len(wrote')
      /\ \A i \in 1 .. Len(wrote) : wrote'[i] = wrote[i]
  BY <1>1, <1>3, BufferFacts, Joined, LaidFacts
<1>5. Len(read) + 1 = 1
  <2>1. mReadPos = 0
    BY DEF AppendCopy
  <2>2. ASSUME Len(read) > 0 PROVE FALSE
    <3>1. Len(read) \in 1 .. Len(wrote) /\ (Len(read) + 1) - 1 = Len(read)
      BY <2>2, BufferFacts
    <3>2. mReadPos = EndOf(wrote, at, Len(read))
      BY <2>2, <3>1, BufferFacts DEF BufferInv, BeginOf
    <3>3. EndOf(wrote, at, Len(read)) > 0
      <4>1. /\ at[Len(read)] < EndOf(wrote, at, Len(read))
            /\ at[Len(read)] \in Nat /\ EndOf(wrote, at, Len(read)) \in Nat
        BY <3>1, BufferFacts, LaidPlace
      <4> QED
        BY <4>1
    <3>4. at[Len(read)] \in Nat /\ EndOf(wrote, at, Len(read)) \in Nat
      BY <3>1, BufferFacts, LaidPlace
    <3> QED
      BY <2>1, <3>2, <3>3, <3>4
  <2> QED
    BY <2>2, BufferFacts
<1>6. BeginOf(wrote', at', Len(read) + 1) = BeginOf(wrote, at, Len(read) + 1)
  BY <1>5 DEF BeginOf
<1>7. RoundTrip'
  BY <1>1, <1>5, BufferFacts DEF RoundTrip
<1> QED
  BY <1>1, <1>2, <1>3, <1>4, <1>6, <1>7, BufferFacts
     DEF BufferInv, AbortsOnOverread, size

LEMMA MinIs ==
  ASSUME NEW S, S \subseteq Nat, NEW m \in S, \A x \in S : m <= x
  PROVE  Min(S) = m
<1>1. \A n \in S : (\A x \in S : n <= x) => n = m
  <2>1. SUFFICES ASSUME NEW n \in S, \A x \in S : n <= x PROVE n = m
    OBVIOUS
  <2>2. n <= m /\ m <= n /\ n \in Nat /\ m \in Nat
    BY <2>1
  <2> QED
    BY <2>2
<1> QED
  BY <1>1 DEF Min

\* What >> finds at mReadPos is the value that was written there.
LEMMA DueValue ==
  ASSUME BufferInv, Len(read) < Len(wrote)
  PROVE  LET k == Len(read) + 1
             v == wrote[k]
         IN /\ v \in Written /\ mReadPos = at[k] /\ k \in 1 .. Len(wrote)
            /\ InStorage(v.type) /\ PosBehind(v.type) = EndOf(wrote, at, k)
            /\ v.type # "time_t" => [type |-> v.type, val |-> Assigned(v.type)] = v
<1> DEFINE k == Len(read) + 1
           v == wrote[k]
           b == Bytes(v)
<1>1. k \in 1 .. Len(wrote) /\ v \in Written
  BY BufferFacts
<1>2. /\ mReadPos = at[k] /\ at[k] \in Nat
      /\ EndOf(wrote, at, k) = at[k] + Len(b) /\ at[k] + Len(b) <= size
  BY <1>1, BufferFacts, LaidPlace DEF BufferInv
<1>3. ASSUME NEW j \in 1 .. Len(b) PROVE mStorage[at[k] + j] = b[j]
  <2>1. Laid(mStorage, wrote, at)
    BY BufferFacts
  <2> HIDE DEF k
  <2> QED
    BY <1>1, <2>1, LaidByte
<1>4. /\ b \in Seq(Byte) /\ Len(b) > 0 /\ Len(b) \in Nat
      /\ v.type \in {"bool", "uint8", "uint16", "time_t", "string"}
      /\ v = [type |-> v.type, val |-> v.val]
  BY <1>1, BytesOf, ValueFields
<1>5. /\ v.type # "string" => Len(b) = ByteSizeOf(v.type)
      /\ v.type = "bool" => b[1] = IF v.val THEN 1 ELSE 0
      /\ v.type = "uint8" => b[1] = v.val
      /\ v.type = "uint16" => b[1] + Base * b[2] = v.val
      /\ v.type = "bool" => v.val \in BOOLEAN
  BY <1>1, BytesOf, ValueFields
<1>6. /\ v.type = "string" => v.val \in Seq(Byte) /\ Len(b) = Len(v.val) + 1
      /\ v.type = "string" => b[Len(v.val) + 1] = 0
      /\ v.type = "string" => \A j \in 1 .. Len(v.val) : b[j] = v.val[j] /\ v.val[j] # 0
  BY <1>1, StringBytes
<1>7. size \in Nat /\ size = Len(mStorage) /\ mStorage \in Seq(Byte)
  BY BufferFacts
<1> HIDE DEF k, v, b
<1>8. CASE v.type # "string"
  <2>1. InStorage(v.type) /\ PosBehind(v.type) = EndOf(wrote, at, k)
    BY <1>2, <1>5, <1>8 DEF InStorage, PosBehind
  <2>2. CASE v.type = "bool"
    <3>1. mStorage[mReadPos + 1] = IF v.val THEN 1 ELSE 0
      BY <1>2, <1>3, <1>4, <1>5, <2>2
    <3>2. 1 \in 1 .. Base \div 2 - 1 /\ 0 \notin 1 .. Base \div 2 - 1
      BY BufferAssumption
    <3>3. Assigned("bool") = (mStorage[mReadPos + 1] \in 1 .. Base \div 2 - 1)
      BY DEF Assigned
    <3>4. CASE v.val = TRUE
      <4>1. mStorage[mReadPos + 1] = 1
        BY <3>1, <3>4
      <4>2. mStorage[mReadPos + 1] \in 1 .. Base \div 2 - 1
        BY <3>2, <4>1
      <4>3. Assigned("bool") = v.val
        BY Zenon, <3>3, <3>4, <4>2
      <4> QED
        BY <1>1, <1>2, <1>4, <2>1, <2>2, <4>3 DEF k, v
    <3>5. CASE v.val = FALSE
      <4>1. mStorage[mReadPos + 1] = 0
        BY <3>1, <3>5
      <4>2. ~(mStorage[mReadPos + 1] \in 1 .. Base \div 2 - 1)
        BY <3>2, <4>1
      <4> DEFINE y == mStorage[mReadPos + 1] \in 1 .. Base \div 2 - 1
      <4>4. Assigned("bool") = y /\ ~y /\ y \in BOOLEAN
        BY <3>3, <4>2
      <4> HIDE DEF y
      <4>5. y = FALSE
        BY <4>4
      <4>3. Assigned("bool") = v.val
        BY <3>5, <4>4, <4>5
      <4> QED
        BY <1>1, <1>2, <1>4, <2>1, <2>2, <4>3 DEF k, v
    <3> QED
      BY <1>5, <2>2, <3>4, <3>5
  <2>3. CASE v.type = "uint8"
    <3>1. mStorage[mReadPos + 1] = v.val
      BY <1>2, <1>3, <1>4, <1>5, <2>3
    <3>2. Assigned("uint8") = v.val
      BY <3>1 DEF Assigned
    <3> QED
      BY <1>1, <1>2, <1>4, <2>1, <2>3, <3>2 DEF k, v
  <2>4. CASE v.type = "uint16"
    <3>1. Len(b) = 2
      BY <1>5, <2>4 DEF ByteSizeOf
    <3>2. mStorage[mReadPos + 1] = b[1] /\ mStorage[mReadPos + 2] = b[2]
      BY <1>2, <1>3, <3>1
    <3>3. Assigned("uint16") = b[1] + Base * b[2]
      BY <3>2 DEF Assigned
    <3> QED
      BY <1>1, <1>2, <1>4, <1>5, <2>1, <2>4, <3>3 DEF k, v
  <2>5. CASE v.type = "time_t"
    BY <1>1, <1>2, <2>1, <2>5 DEF k, v
  <2> QED
    BY <1>4, <1>8, <2>2, <2>3, <2>4, <2>5
<1>9. CASE v.type = "string"
  <2> DEFINE n == Len(v.val)
             Z == {i \in mReadPos + 1 .. size : mStorage[i] = 0} \cup {size}
             e == mReadPos + n + 1
  <2>1. /\ n \in Nat /\ Len(b) = n + 1 /\ b[n + 1] = 0 /\ v.val \in Seq(Byte)
        /\ \A j \in 1 .. n : b[j] = v.val[j] /\ b[j] # 0
    BY <1>6, <1>9
  <2>11. n = Len(v.val)
    OBVIOUS
  <2> HIDE DEF n
  <2>2. mReadPos \in Nat /\ e \in Nat /\ e = at[k] + Len(b) /\ e <= size
    <3> DEFINE l == Len(b)
    <3>1. mReadPos = at[k] /\ mReadPos \in Nat /\ at[k] + l <= size
      BY <1>2
    <3>2. n \in Nat /\ l = n + 1
      BY <2>1
    <3> HIDE DEF l
    <3>3. e = mReadPos + l
      BY <3>1, <3>2
    <3> QED
      BY <3>1, <3>2, <3>3 DEF l
  <2>3. mStorage[e] = 0
    <3>1. mStorage[at[k] + (n + 1)] = 0
      <4>1. n + 1 \in 1 .. Len(b)
        BY <2>1
      <4> QED
        BY <1>3, <2>1, <4>1
    <3> QED
      BY <1>2, <2>1, <3>1
  <2>4. ASSUME NEW j \in 1 .. n
        PROVE  mStorage[mReadPos + j] = v.val[j] /\ mStorage[mReadPos + j] # 0
    <3>1. j \in 1 .. Len(b)
      BY <2>1
    <3> QED
      BY <1>2, <1>3, <2>1, <3>1
  <2>5. Min(Z) = e
    <3>1. e \in Z /\ Z \subseteq Nat
      BY <1>7, <2>1, <2>2, <2>3
    <3>2. ASSUME NEW x \in Z, x < e PROVE FALSE
      <4>1. x \in mReadPos + 1 .. size /\ mStorage[x] = 0
        BY <2>2, <3>2
      <4>2. x - mReadPos \in 1 .. n /\ mReadPos + (x - mReadPos) = x
        BY <2>1, <2>2, <3>2, <4>1
      <4> QED
        BY <2>4, <4>1, <4>2
    <3>3. \A x \in Z : e <= x
      BY <2>2, <3>1, <3>2
    <3> HIDE DEF Z, e
    <3> QED
      BY <3>1, <3>3, MinIs
  <2>6. StringEnd = e
    BY <2>5 DEF StringEnd
  <2> HIDE DEF e
  <2>7. StringRead = SubSeq(mStorage, mReadPos + 1, mReadPos + n)
    <3>1. mReadPos < size /\ e - 1 = mReadPos + n
      BY <1>7, <2>1, <2>2 DEF e
    <3> QED
      BY <2>3, <2>6, <3>1 DEF StringRead
  <2>8. SubSeq(mStorage, mReadPos + 1, mReadPos + n) = v.val
    <3> DEFINE r == SubSeq(mStorage, mReadPos + 1, mReadPos + n)
    <3>1. mReadPos + n <= Len(mStorage)
      BY <1>7, <2>1, <2>2 DEF e
    <3>2. /\ r \in Seq(Byte) /\ Len(r) = n
          /\ \A j \in 1 .. n : r[j] = mStorage[mReadPos + j]
      BY <1>7, <2>1, <2>2, <3>1
    <3>3. v.val \in Seq(Byte) /\ Len(v.val) = n
      BY <2>1, <2>11
    <3> HIDE DEF r
    <3>4. r = v.val
      BY <2>4, <3>2, <3>3
    <3> QED
      BY <3>4 DEF r
  <2>9. Assigned("string") = v.val
    BY <2>7, <2>8 DEF Assigned
  <2>10. InStorage("string") /\ PosBehind("string") = EndOf(wrote, at, k)
    BY <1>2, <2>2, <2>6 DEF InStorage, PosBehind
  <2> QED
    BY <1>1, <1>2, <1>4, <1>9, <2>9, <2>10 DEF k, v
<1> QED
  BY <1>8, <1>9

LEMMA ReadStep ==
  ASSUME BufferInv, NEW type \in Types, Read(type)
  PROVE  BufferInv'
<1> DEFINE k == Len(read) + 1
           v == wrote[k]
           u == [type |-> type, val |-> Assigned(type)]
<1>1. /\ Len(read) < Len(wrote) /\ v.type = type
      /\ read' = Append(read, u) /\ mReadPos' = PosBehind(type)
      /\ mStorage' = mStorage /\ mWritePos' = mWritePos /\ aborted' = aborted
      /\ wrote' = wrote /\ at' = at /\ aborted = FALSE
  BY DEF Read, Due
<1>2. /\ v \in Written /\ k \in 1 .. Len(wrote) /\ PosBehind(type) = EndOf(wrote, at, k)
      /\ type # "time_t" => u = v
  BY <1>1, DueValue
<1>3. type = "time_t" => u = [type |-> "time_t", val |-> Unset]
  BY DEF Assigned
<1>4. u \in GivenBack
  BY <1>2, <1>3 DEF GivenBack
<1> HIDE DEF u
<1>5. /\ read' \in Seq(GivenBack) /\ Len(read') = k /\ k \in Nat /\ k - 1 = Len(read)
      /\ \A i \in 1 .. Len(read) : read'[i] = read[i]
      /\ read'[k] = u
  BY <1>1, <1>4, BufferFacts DEF BufferInv
<1>6. mReadPos' = BeginOf(wrote', at', Len(read') + 1)
  <2>1. k + 1 # 1 /\ (k + 1) - 1 = k
    BY <1>5
  <2> QED
    BY <1>1, <1>2, <1>5, <2>1 DEF BeginOf
<1>7. RoundTrip'
  <2>1. ASSUME NEW i \in 1 .. k
        PROVE  IF read'[i].type = "time_t"
               THEN wrote[i].type = "time_t" /\ read'[i].val = Unset
               ELSE IF read'[i].type = "array" THEN AsWrittenOverRest(read'[i], wrote[i])
               ELSE read'[i] = wrote[i]
    <3>1. CASE i = k
      <4>1. type = "time_t" => u.type = "time_t" /\ u.val = Unset
        BY <1>3
      <4>2. u.type = type /\ type # "array"
        BY BufferAssumption DEF u
      <4>3. read'[i] = u /\ wrote[i] = v
        BY <1>5, <3>1
      <4> QED
        BY <1>1, <1>2, <4>1, <4>2, <4>3
    <3>2. CASE i \in 1 .. Len(read)
      BY <1>5, <3>2 DEF BufferInv, RoundTrip
    <3> QED
      BY <1>5, <3>1, <3>2, BufferFacts
  <2> QED
    BY <1>1, <1>5, <2>1 DEF RoundTrip
<1>8. aborted' \in BOOLEAN /\ AbortsOnOverread'
  BY Zenon, <1>1 DEF AbortsOnOverread
<1>9. Laid(mStorage', wrote', at') /\ mWritePos' = size' /\ Len(read') <= Len(wrote')
  BY <1>1, <1>2, <1>5, BufferFacts DEF size
<1> QED
  BY <1>5, <1>6, <1>7, <1>8, <1>9 DEF BufferInv

LEMMA ReadArrayStep ==
  ASSUME BufferInv, NEW was \in Array, ReadArray(was)
  PROVE  BufferInv'
<1> DEFINE k == Len(read) + 1
           v == wrote[k]
           u == [type |-> "array", was |-> was, val |-> Copied(v.val, was)]
<1>1. /\ Len(read) < Len(wrote) /\ v.type = "string"
      /\ mStorage' = mStorage /\ mWritePos' = mWritePos /\ aborted' = aborted
      /\ wrote' = wrote /\ at' = at /\ aborted = FALSE
  BY DEF ReadArray, Due
<1>2. /\ v \in Written /\ k \in 1 .. Len(wrote) /\ PosBehind("string") = EndOf(wrote, at, k)
      /\ StringRead = v.val
  <2>1. [type |-> "string", val |-> Assigned("string")] = v
    BY <1>1, DueValue
  <2>2. Assigned("string") = v.val
    BY <2>1
  <2> QED
    BY <1>1, <2>2, DueValue DEF Assigned
<1>3. read' = Append(read, u) /\ mReadPos' = EndOf(wrote, at, k)
  BY <1>2 DEF ReadArray
<1>4. u \in GivenBack
  <2>1. v.val \in Seq(Chars)
    BY <1>1, <1>2, ValueFields
  <2>2. Copied(v.val, was) \in Array
    BY <2>1, BufferAssumption DEF Copied, Array
  <2> QED
    BY <2>2 DEF GivenBack
<1>5. u.type = "array" /\ AsWrittenOverRest(u, v)
  BY <1>1 DEF AsWrittenOverRest, Copied
<1> HIDE DEF u
<1>6. /\ read' \in Seq(GivenBack) /\ Len(read') = k /\ k \in Nat /\ k - 1 = Len(read)
      /\ \A i \in 1 .. Len(read) : read'[i] = read[i]
      /\ read'[k] = u
  BY <1>3, <1>4, BufferFacts DEF BufferInv
<1>7. mReadPos' = BeginOf(wrote', at', Len(read') + 1)
  <2>1. k + 1 # 1 /\ (k + 1) - 1 = k
    BY <1>6
  <2> QED
    BY <1>1, <1>3, <1>6, <2>1 DEF BeginOf
<1>8. RoundTrip'
  <2>1. ASSUME NEW i \in 1 .. k
        PROVE  IF read'[i].type = "time_t"
               THEN wrote[i].type = "time_t" /\ read'[i].val = Unset
               ELSE IF read'[i].type = "array" THEN AsWrittenOverRest(read'[i], wrote[i])
               ELSE read'[i] = wrote[i]
    <3>1. CASE i = k
      BY <1>5, <1>6, <3>1
    <3>2. CASE i \in 1 .. Len(read)
      BY <1>6, <3>2 DEF BufferInv, RoundTrip
    <3> QED
      BY <1>6, <3>1, <3>2, BufferFacts
  <2> QED
    BY <1>1, <1>6, <2>1 DEF RoundTrip
<1>9. aborted' \in BOOLEAN /\ AbortsOnOverread'
  BY Zenon, <1>1 DEF AbortsOnOverread
<1>10. Laid(mStorage', wrote', at') /\ mWritePos' = size' /\ Len(read') <= Len(wrote')
  BY <1>1, <1>2, <1>6, BufferFacts DEF size
<1> QED
  BY <1>6, <1>7, <1>8, <1>9, <1>10 DEF BufferInv

LEMMA SameBuffer ==
  ASSUME BufferInv, UNCHANGED <<storageVars, wrote, at, read>>,
         aborted' \in BOOLEAN, AbortsOnOverread'
  PROVE  BufferInv'
BY DEF BufferInv, storageVars, RoundTrip, size

LEMMA AbortStep ==
  ASSUME BufferInv, NEW type \in Types, ReadAborts(type)
  PROVE  BufferInv'
<1>1. UNCHANGED <<storageVars, wrote, at, read>> /\ aborted' = TRUE
  BY DEF ReadAborts
<1>2. Len(read) = Len(wrote)
  <2>1. ASSUME Due(type) PROVE FALSE
    <3>1. Len(read) < Len(wrote) /\ wrote[Len(read) + 1].type = type
      BY <2>1 DEF Due
    <3>2. InStorage(type)
      BY <3>1, DueValue
    <3> QED
      BY <3>2 DEF ReadAborts
  <2> QED
    BY <2>1 DEF ReadAborts
<1> QED
  BY <1>1, <1>2, SameBuffer DEF AbortsOnOverread

LEMMA ClearStep ==
  ASSUME Clear
  PROVE  BufferInv'
<1>1. /\ mStorage' = << >> /\ wrote' = << >> /\ at' = << >> /\ read' = << >>
      /\ mReadPos' = 0 /\ mWritePos' = 0 /\ aborted' = FALSE
  BY DEF Clear, WritePosCleared
<1> QED
  BY <1>1, EmptyLaid, UnreadInv

LEMMA RewindStep ==
  ASSUME BufferInv, Rewind
  PROVE  BufferInv'
<1>1. /\ mStorage' = mStorage /\ wrote' = wrote /\ at' = at /\ read' = << >>
      /\ mReadPos' = 0 /\ mWritePos' = mWritePos /\ aborted' = FALSE
  BY DEF Rewind
<1> QED
  BY <1>1, BufferFacts, UnreadInv

LEMMA BufferInvInit == BufferInit => BufferInv
<1> SUFFICES ASSUME BufferInit PROVE BufferInv
  OBVIOUS
<1>1. /\ mStorage = << >> /\ wrote = << >> /\ at = << >> /\ read = << >>
      /\ mReadPos = 0 /\ mWritePos = 0 /\ aborted = FALSE
  BY DEF BufferInit
<1>2. Laid(mStorage, wrote, at) /\ mWritePos = size
  BY <1>1, EmptyLaid DEF size
<1>3. mReadPos = BeginOf(wrote, at, Len(read) + 1) /\ RoundTrip /\ Len(read) <= Len(wrote)
  BY <1>1 DEF BeginOf, RoundTrip
<1>4. aborted \in BOOLEAN /\ AbortsOnOverread
  BY Zenon, <1>1 DEF AbortsOnOverread
<1> QED
  BY <1>1, <1>2, <1>3, <1>4 DEF BufferInv

LEMMA BufferInvStep == BufferInv /\ [BufferNext]_bufferVars => BufferInv'
<1> SUFFICES ASSUME BufferInv, [BufferNext]_bufferVars PROVE BufferInv'
  OBVIOUS
<1>1. CASE UNCHANGED bufferVars
  BY <1>1, SameBuffer DEF bufferVars, BufferInv, AbortsOnOverread
<1>2. CASE BufferNext
  BY <1>2, WriteStep, ReadStep, ReadArrayStep, AbortStep, ClearStep, PutStep, RewindStep, ShrinkStep,
     EnlargeStep, AppendStep DEF BufferNext
<1> QED
  BY <1>1, <1>2

(***************************************************************************)
(* The storage always holds the bytes of the values written, one behind    *)
(* the other at the positions wpos() gave, and mReadPos is where the next  *)
(* value to read begins.                                                   *)
(***************************************************************************)
THEOREM BufferCorrect == BufferSpec => []BufferInv
BY BufferInvInit, BufferInvStep, PTL DEF BufferSpec

(***************************************************************************)
(* The storage holds bytes, the values written are values of their types,  *)
(* and mReadPos is never beyond the storage (ByteBuffer.h:281-291).        *)
(***************************************************************************)
THEOREM BufferTypeCorrect == BufferSpec => []BufferTypeOK
<1>1. BufferInv => BufferTypeOK
  <2> SUFFICES ASSUME BufferInv PROVE BufferTypeOK
    OBVIOUS
  <2>1. mReadPos \in 0 .. Len(mStorage)
    BY BufferFacts, LaidFacts DEF BufferInv
  <2> QED
    BY <2>1, BufferFacts DEF BufferTypeOK, BufferInv, Written, Zero, size
<1> QED
  BY <1>1, BufferCorrect, PTL

(***************************************************************************)
(* What was written with << comes back with >>, whatever was put(), cut    *)
(* off, read, or appended before (ByteBuffer.h:488), and a string read     *)
(* into a char array is there in front of what the array held (line 248):  *)
(* for any strings, any arrays and any number of values.                   *)
(***************************************************************************)
THEOREM RoundTripCorrect == BufferSpec => []RoundTrip
<1>1. BufferInv => RoundTrip
  BY DEF BufferInv
<1> QED
  BY <1>1, BufferCorrect, PTL

(***************************************************************************)
(* The assertion of read() fails only where no value is left to read       *)
(* (ByteBuffer.h:289): the bytes of every value still due are there.       *)
(***************************************************************************)
THEOREM AbortsCorrect == BufferSpec => []AbortsOnOverread
<1>1. BufferInv => AbortsOnOverread
  BY DEF BufferInv
<1> QED
  BY <1>1, BufferCorrect, PTL

==============================================================================
