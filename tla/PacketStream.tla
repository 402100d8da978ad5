---------------------------- MODULE PacketStream -----------------------------
(***************************************************************************)
(* bytebuffer/mangosByteBuffer: TcpServer::run sends packets without end,  *)
(* a POD packet and a serialised one in turn; TcpClient::run cuts the byte *)
(* stream into packets again and leaves after ten.                         *)
(*                                                                         *)
(* A byte is its position in what the server has sent.  The client's       *)
(* buffer always holds consecutive bytes, so the buffer is the position of *)
(* its first byte and the number of bytes in it, and a header is what the  *)
(* server put at that position, or garbage where no packet begins.         *)
(***************************************************************************)
EXTENDS Integers, Sequences

CONSTANTS
  HeaderSize,      \* sizeof(NetPacketHeader)
  PodSize,         \* size of a POD packet with its header
  SerializeSize,   \* size of a serialised packet with its header
  NET_PACKET_SIZE, \* size of m_cbRecvBuf
  Enough,          \* the 10 of client.cpp:50
  MaxPackets       \* bound of the model: packets sent

ASSUME PacketAssumption ==
  /\ HeaderSize \in Nat \ {0}
  /\ PodSize \in Nat /\ SerializeSize \in Nat
  /\ HeaderSize < PodSize /\ HeaderSize < SerializeSize
  /\ NET_PACKET_SIZE \in Nat
  /\ PodSize <= NET_PACKET_SIZE /\ SerializeSize <= NET_PACKET_SIZE
  /\ Enough \in Nat /\ MaxPackets \in Nat

Opcode == {"NET_TEST_POD", "NET_TEST_SERIALIZE"}
SizeOf(op) == IF op = "NET_TEST_POD" THEN PodSize ELSE SerializeSize

VARIABLES
  server,      \* the server: "running", "failed", or "killed"
  nIndex,      \* nCount of TcpServer::run
  packets,     \* the packets sent: opcode, nIndex, position of the header
  sent,        \* bytes sent
  socket,      \* the client's socket: "open", "closed", "reset" by the server
  pc,          \* where the client is: "recv", "unpack" or "ended"
  recvFrom,    \* position of the byte in m_cbRecvBuf[0]
  m_nRecvSize, \* bytes in m_cbRecvBuf
  nCount,      \* packets the client has counted
  handled      \* opcode and index of what OnNetMessage has seen

serverVars == <<server, nIndex, packets, sent>>
clientVars == <<pc, recvFrom, m_nRecvSize, nCount, handled>>
vars == <<serverVars, clientVars, socket>>

Init ==
  /\ server = "running"
  /\ nIndex = 0
  /\ packets = << >>
  /\ sent = 0
  /\ socket = "open"
  /\ pc = "recv"
  /\ recvFrom = 0
  /\ m_nRecvSize = 0
  /\ nCount = 0
  /\ handled = << >>

------------------------------------------------------------------------------
(* TcpServer.                                                              *)

\* The loop sends both kinds in turn, with the same index.
NextOpcode ==
  IF packets = << >> \/ packets[Len(packets)].op = "NET_TEST_SERIALIZE"
  THEN "NET_TEST_POD" ELSE "NET_TEST_SERIALIZE"

\* SendData succeeds.  When the client is gone the bytes go nowhere, and its
\* host answers with a reset.
Send ==
  /\ server = "running" /\ Len(packets) < MaxPackets
  /\ socket # "reset"
  /\ packets' = Append(packets, [op |-> NextOpcode, index |-> nIndex, at |-> sent])
  /\ sent' = sent + SizeOf(NextOpcode)
  /\ nIndex' = IF NextOpcode = "NET_TEST_SERIALIZE" THEN nIndex + 1 ELSE nIndex
  /\ socket' = IF socket = "closed" THEN "reset" ELSE socket
  /\ UNCHANGED <<server, clientVars>>

\* send() to a client that is gone: ECONNRESET ends the loop, SIGPIPE the
\* process.
SendFails ==
  /\ server = "running" /\ socket # "open"
  /\ \E s \in {"failed", "killed"} : server' = s
  /\ UNCHANGED <<nIndex, packets, sent, socket, clientVars>>

\* The server dies, at worst with a part of its last packet sent.
ServerDies ==
  /\ server = "running"
  /\ server' = "killed"
  /\ \E n \in recvFrom + m_nRecvSize .. sent :
       /\ packets # << >> => packets[Len(packets)].at <= n
       /\ sent' = n
  /\ UNCHANGED <<nIndex, packets, socket, clientVars>>

------------------------------------------------------------------------------
(* TcpClient::run.                                                         *)

\* Mutant of Room: the buffer has no place for the header.
RoomForData == NET_PACKET_SIZE - HeaderSize - m_nRecvSize

Room == NET_PACKET_SIZE - m_nRecvSize

Unread == sent - recvFrom - m_nRecvSize

\* Mutant of EndOfStream: a recv() of 0 bytes is not noticed.
EndUnnoticed == FALSE

EndOfStream == server # "running" /\ Unread = 0

\* recv() returns some of the bytes that have arrived.
Recv ==
  /\ pc = "recv" /\ socket = "open"
  /\ \E n \in 1 .. Room :
       /\ n <= Unread
       /\ m_nRecvSize' = m_nRecvSize + n
  /\ pc' = "unpack"
  /\ UNCHANGED <<serverVars, socket, recvFrom, nCount, handled>>

\* recv() returns 0 at the end of the stream, and when it is given no room;
\* -1 on the socket the client has closed itself.
RecvEnds ==
  /\ pc = "recv"
  /\ \/ socket # "open"
     \/ Room = 0
     \/ EndOfStream
  /\ pc' = "ended"
  /\ UNCHANGED <<serverVars, socket, recvFrom, m_nRecvSize, nCount, handled>>

\* The packet whose header begins at position p, if there is one.
PacketsAt(p) == {packets[k] : k \in {j \in 1 .. Len(packets) : packets[j].at = p}}

\* wDataSize and wOpcode in the first bytes of the buffer.
HeaderAt(p) ==
  IF PacketsAt(p) # {}
  THEN {[op |-> h.op, size |-> SizeOf(h.op), index |-> h.index] : h \in PacketsAt(p)}
  ELSE [op : Opcode \cup {"unknown"}, size : 0 .. NET_PACKET_SIZE, index : {-1}]

HasHeader == m_nRecvSize >= HeaderSize
HasPacket(size) == m_nRecvSize >= size

\* The inner loop ends: not even a header is left, or less than a packet.
WaitForMore ==
  /\ pc = "unpack"
  /\ \/ ~HasHeader
     \/ /\ nCount < Enough
        /\ \E h \in HeaderAt(recvFrom) : ~HasPacket(h.size)
  /\ pc' = "recv"
  /\ UNCHANGED <<serverVars, socket, recvFrom, m_nRecvSize, nCount, handled>>

\* The test for ten packets comes before the next packet is looked at.
Leave ==
  /\ pc = "unpack" /\ HasHeader /\ nCount >= Enough
  /\ socket' = "closed"
  /\ pc' = "recv"
  /\ UNCHANGED <<serverVars, recvFrom, m_nRecvSize, nCount, handled>>

\* Mutant of AfterMove: the packet stays in front of the buffer's rest.
NotMoved(size) == recvFrom

\* memmove to the front of the buffer.
AfterMove(size) == recvFrom + size

Unpack ==
  /\ pc = "unpack" /\ HasHeader /\ nCount < Enough
  /\ \E h \in HeaderAt(recvFrom) :
       /\ HasPacket(h.size)
       /\ recvFrom' = AfterMove(h.size)
       /\ m_nRecvSize' = m_nRecvSize - h.size
       /\ handled' = Append(handled, [op |-> h.op, index |-> h.index])
  /\ nCount' = nCount + 1
  /\ UNCHANGED <<serverVars, socket, pc>>

Client == Recv \/ RecvEnds \/ WaitForMore \/ Leave \/ Unpack

Next == Send \/ SendFails \/ ServerDies \/ Client

Spec == Init /\ [][Next]_vars

\* Two processes the system schedules, and a network that delivers.
FairSpec == Spec /\ WF_vars(Send \/ SendFails) /\ WF_vars(Client)

------------------------------------------------------------------------------
Packet == [op : Opcode, index : Nat, at : Nat]

TypeOK ==
  /\ server \in {"running", "failed", "killed"}
  /\ nIndex \in Nat
  /\ packets \in Seq(Packet)
  /\ sent \in Nat
  /\ socket \in {"open", "closed", "reset"}
  /\ pc \in {"recv", "unpack", "ended"}
  /\ recvFrom \in Nat
  /\ m_nRecvSize \in 0 .. NET_PACKET_SIZE
  /\ nCount \in 0 .. Enough
  /\ handled \in Seq([op : Opcode \cup {"unknown"}, index : Int])

(***************************************************************************)
(* However recv() cuts the stream, OnNetMessage sees the packets that were *)
(* sent, from the first one on, in order and each once                     *)
(* (client.cpp:44-81).                                                     *)
(***************************************************************************)
HandledAsSent ==
  /\ Len(handled) <= Len(packets)
  /\ \A k \in 1 .. Len(handled) :
       handled[k] = [op |-> packets[k].op, index |-> packets[k].index]

(***************************************************************************)
(* The client never takes a full buffer for the end of the connection:     *)
(* whenever it calls recv() on its open socket there is room               *)
(* (client.cpp:37-38).                                                     *)
(***************************************************************************)
RecvHasRoom == pc = "recv" /\ socket = "open" => Room > 0

(***************************************************************************)
(* The client comes to its end, whether the server lives or not.           *)
(***************************************************************************)
ClientEnds == <>(pc = "ended")

==============================================================================
