# TLA+ models of linuxStudyNotes

The repository is a collection of small Linux network and thread programs. They
share no code; each is a system of its own. This directory holds TLA+ models of
them, the TLC configurations that check the models and the TLAPS proofs of the
results that hold for every size. `PROJECT.json` maps every definition to the
lines it stands for and lists the runs, the mutants, the hazards and the
theorems.

## 1. Inventory

| System | Source | State | Operations | Hard behaviour | What makes it correct | Module |
|---|---|---|---|---|---|---|
| chat server, one worker | `epoll_simple_chat_server/main.c`, `network.c` | `fd_map`, `ready_fd_map`, the batch `events` of `epoll_wait`; in the kernel the descriptor table, epoll's ready list, the accept queue, receive buffers | accept, register a pair, forward, close on error | stale events of a batch, reused descriptors, edge triggering, resets, SIGPIPE, partial sends | no line lost by an edge, lines in order, once and to one client; pairs that make sense | `ChatRelay`, abstract: `LineRelay`, proofs: `ChatRelayProofs` |
| chat server, processes | `process.c`, `network.c`, `main.c` | the phase of each process, the shared accept queue | fork, wait, the race for `accept()` | `accept()` fails for the loser and ends it; fork failures; EMFILE | a process is left, the parent makes up for the first worker that ends and for no later one, every client is accepted | `Prefork`, proofs: `PreforkProofs` |
| producer/consumer, condition variables | `thread/producerAndConsumer/conditionSolution.cpp` | `buffer`, `mutex`, the wait sets | produce, consume, wait, signal | lost and spurious wakeups | the items in order, both threads end | `CondBuffer`, abstract: `BoundedFifo`, proofs: `CondBufferProofs` |
| producer/consumer, semaphores | `semaphoreSolution.cpp` | `buffer`, `full`, `empty`, `mutex` | produce, consume | both semaphores block; semaphores destroyed early | never a read of an empty vector, FIFO, both threads end | `SemBuffer`, abstract: `BoundedFifo`, proofs: `SemBufferProofs` |
| packet stream | `bytebuffer/mangosByteBuffer/server.cpp`, `client.cpp`, `NetDefine.h` | `m_cbRecvBuf`, `m_nRecvSize`, `nCount` | send a packet, `recv`, cut a packet out, leave after ten | the stream is cut anywhere; the server may die | packets handled as sent, never a full buffer at `recv` | `PacketStream`, proofs: `PacketStreamProofs` |
| `ByteBuffer` | `ByteBuffer.h` | `mStorage`, `mReadPos`, `mWritePos` | `<<`, `>>`, `put`, `clear`, `rpos`, `resize`, `append` | positions and reuse; the last byte of a string | what is written is read back | `ByteBuffer`, proofs: `PacketStreamProofs` |
| tinyhttpd, the server | `tinyhttpd/httpd.c` | the client socket, two pipes, the CGI child | one request after the other | pipes and child interleave; failures after the answer has begun | the body reaches the script and its output the client; nothing stays open; it comes back for the next client unless client or script stop it | `Httpd`, proofs: `HttpdProofs` |
| tinyhttpd, requests and files | `httpd.c` (`get_line`, `accept_request`, `cat`) | `buf`, the position in the stream and in the file | read a line, scan the request line, skip headers, send a file | characters arrive one by one and may stop; full buffers; a buffer nobody initialised | the request is taken as sent and no character of the body behind it | `HttpdRequest`, proofs: `HttpdProofs` |
| libevent echo | `libevent/originEchoServer.cpp`, `originEchoClient.cpp` | the buffers of each bufferevent, enabled events, descriptors; the client's events and count | `do_accept`, `readcb`, `errorcb`, `write_cb`, `read_cb` | watermark against long lines, descriptors that are never freed, a timeout taken for a connection, SIGPIPE | what comes back depends on the bytes only, and it comes; the client ends | `Echo`, proofs: `EchoProofs` |
| login and game server | `protobufTest/AuthServer.cpp`, `GameServer.cpp`, `GameClient.cpp`, `AuthDatabaseHandler.cpp`, `PacketHandler.cpp` | the column `logged_in`, `buf` and `resp` of each thread, the client's code | log in, look up, store the code, join | a thread per connection over one locked file, updates that fail silently, buffers and flags of `recv()` nobody initialised, resets | whoever is let in has logged in, whoever has logged in is let in | `Login`, proofs: `ProtobufProofs` |
| message classes | `protobufTest/packet.pb.h`, `packet.pb.cc`, `packet.proto` | has bits and fields of three classes | accessors, `Clear`, `MergeFrom`, `CopyFrom`, `Swap`, sizes, bytes, parsing | `Clear` trusts the has bits; messages cut anywhere | bytes give the object again; nothing is invented | `PacketHeader`, driven by `Messages`, proofs: `ProtobufProofs` |

How they interact: within the chat server the workers share the listening socket
(opened before `fork`) and nothing else: the pairing maps are per process. The two
threads of each producer/consumer program share the buffer. The packet client and
server share a TCP connection; `ByteBuffer` is what the payload of a serialised
packet is written and read with. The two servers of `protobufTest` share the database
file and nothing else; the client carries the code from one to the other. The echo
client and server share a connection; `tinyhttpd` and its script two pipes.

## 2. The modules

**`ChatRelay.tla`** is one worker of the chat server. `fd_map`, `ready_fd_map` and
`events` are the variables of `main.c`; `owner`, `epoll_ready`, `backlog`, `peer`
and `inq` are the kernel's part. One action is one `epoll_wait` (`EpollWait`), one
pass of the loop body of `io_loop` with everything it calls (`Accept`,
`AcceptFails`, `HandleError`, `HandleWritable`, and for `process_request`
`Register`, `Refuse`, `ForwardNothing`, `Forward`), or a step of a client
(`Connect`, `TypeLine`, `HangUp`, `Reset`) or of another worker
(`OtherWorkerAccepts`). The order of events inside a batch is up to the order in
which descriptors became ready, so a batch is a set that is handled in any order.
`peer` tells apart an end that is closed (readable, end of file), one with an error
that no call has returned yet (`reset`, what EPOLLERR shows), and one whose error
was consumed (`dead`, a write raises SIGPIPE). `Forward` hands on what `write()` takes of the
lines (`Written`): all of them, or some, the last of which may be cut; `Part` is the number of
a line whose end is missing.

**`LineRelay.tla`** is what a relay promises: it takes all that a client has typed
and hands a prefix of it to one client. `ChatRelay` implements it with
`pending <- inq`, `delivered <- recvd`.

**`Prefork.tla`** is `fork_process` and the race of the workers for the listening
socket. A worker that is woken for a connection another one took gets -1 from
`accept()`, and `make_socket_non_blocking(-1)` ends it.

**`CondBuffer.tla`** and **`SemBuffer.tla`** are the two programs with one action
per stretch between two calls of the pthread library, `main()` included. Both
implement **`BoundedFifo.tla`**, with liveness: the one with one place and items
1..MAX, the other with its places and items 0..Items-1. `SemBuffer` splits
`MAX_SIZE`, which the program uses both as the number of places and of items, in
two constants: with the program's own value the producer would never block.

**`PacketStream.tla`** is the packet server and client. A byte is its position in
the stream, so the receive buffer is an interval, and "the header at the front of
the buffer" is what the server put at that position, or garbage if no packet begins
there. `Unpack` is the whole inner iteration: header, length test, the two memory
moves, `OnNetMessage`, `++nCount`.

**`ByteBuffer.tla`** models the class used as its comment at line 488 asks: each
`>>` is of the type of the `<<` it answers. A byte has `Base` values; `uint16`
stands for every integer of more than one byte. `time_t` is a type of its own
because `operator>>(time_t)` takes its argument by value. A string may be read into a
`char` array (`ReadArray`), as the warning at line 489 says not to: `strncpy` copies its characters
and no 0, so what the array held before stays behind them. `put()` writes at a position that
its caller took from `wpos()` before the value there was written: `at` remembers these.
`resize()` goes back to such a position (`Shrink`) or on by one 0 byte (`Enlarge`); `append()`
takes a copy of the buffer itself, before anything was read from it: it takes `size()` bytes
from `mReadPos` on, which otherwise are not there.

**`Httpd.tla`** is tinyhttpd: `main` accepts one client at a time, `accept_request`
answers its request, `execute_cgi` forks a child between two pipes. `server` is where
the process is (before `accept`, before the request has come, in the loop over the body,
in the loop over the output, in `waitpid`), `child` where the script is. Each early return of
`accept_request` and `execute_cgi` is an action that says which descriptors it leaves
open; the loops move one byte per action, and both pipes have a size, so that either
side can block. The script is any program: it reads, writes and ends when it likes. A
client's steps are taken while it is being served, because nobody sees them earlier;
`Leave` may be the first of them. A client's connection holds `SendSize` answers, lines of a file or
bytes of output that the client has not read; a `send()` waits while it is full, for a client
that reads late or never (`Sent`, `Read`).

In `Httpd` a request is taken as a whole; **`HttpdRequest.tla`** opens it up. `get_line` is
one action per `recv()` (`RecvChar`, `RecvEnd`, and `Peek` for the second one behind a
carriage return); when a line is complete, the same action goes on with what its caller
does with it: `RequestLine` scans the array `buf`, the rest of an earlier content
included, as the three loops of `accept_request` do (`MethodEnd`, `UrlBegin` and `UrlEnd` are
where they stop), and keeps the words in `parsed`; `Header` is the loop over the
headers of `accept_request`, `serve_file` and `execute_cgi`. `Cat` is one pass of the loop
of `cat`. The words of the protocol are single characters.

**`Echo.tla`** is the echo server and the client program, one action per libevent callback
with what libevent does before it: a read event takes at most what the high watermark
allows (`HowMuch`) and runs `readcb`; the end of a connection or an error runs `errorcb`,
which does nothing, so the bufferevent and its descriptor stay. The client program's
write event comes because it is connected, because the connection failed, or because ten
seconds are over. The other client types and leaves as it likes.

**`PacketHeader.tla`** holds the message classes as functions on a record of has bits and
values, the bytes they are serialised to, and a parser that takes one byte at a time, so
that a message may end anywhere. **`Messages.tla`** is a program that uses them in every
order; **`Login.tla`** the programs that send them. In `Login` a thread of a server is in
`recv()`, in a select or an update (between the step of the statement and its end, when
it holds the lock of the file), or in `send()`. `stack.server_n` and `stack.client_n` are the third argument of every
`recv()`, chosen once at the start: 0, MSG_PEEK, MSG_DONTWAIT or MSG_WAITALL, the values
under which `recv()` does different things. The array `buf` is not initialised either, and
`ParseFromString(buf)` takes it up to its first 0, wherever that is: `stack.buf[c]` are the
contents that may follow what is received up to that 0. At the servers they follow in the
first pass of the loop only, because `bzero` comes at its end (`AuthServer.cpp:69`,
`GameServer.cpp:78`, `zeroed`); the client never zeroes its two buffers (`GameClient.cpp:50`, `:100`).
A `recv()` that returns nothing leaves the garbage alone to be parsed. `stray` are the clients for
whom the garbage made a difference to what was parsed.

The `MC` modules hold the sets the configurations use.

## 3. The runs

| Run | Question | Bounds, and why they are enough |
|---|---|---|
| `ChatWorker` | types; the maps name client descriptors; no lost edge; partners are in a conversation; refinement of `LineRelay`; lines are read and unpaired dead clients closed | two clients, two lines each (so that a partial send cuts between and inside lines), two client descriptors and descriptor 0: descriptors are reused, stdin can be closed and handed out; batches of two out of up to four pollable descriptors, so events go stale; the numbers typed are 0 and 6 |
| `ChatReuse` | (violated, see 6) | three clients, one line each |
| `Fork` | a process is left, who serves in the end, every client is accepted | parent and three children, four clients, two descriptors per worker, one worker killed: a worker can run out of descriptors and all of them can be woken for one connection |
| `CondBuffer` | the right item is printed, refinement, termination | the program's MAX of 10; three spurious wakeups |
| `SemBuffer` | the semaphores add up, refinement (so no read of an empty vector), termination | seven items, two places: both threads block |
| `PacketSafety` | packets handled as sent, room at every `recv`, the client ends | header of 2, packets of 5 and 4 bytes, a buffer of 6: the buffer holds a packet and the header of the next one at most; three packets wanted, five sent |
| `BufferRoundTrip` | values come back but for the two named exceptions (`time_t`, arrays), only an over-read aborts | bytes of five values, strings of up to two characters, five bytes: a string behind two values of other sizes, and a copy of two bytes behind a value of one |
| `HttpdRequest` | the request is taken as sent, a file sent as it is but for its last line, a complete request is taken | a buffer of six characters and words of two: lines one shorter than the buffer, as long and longer; all request lines of up to three of the characters that matter, with and without an end, over two kinds of garbage; up to two headers with each kind of end; all files of up to six characters out of a letter, LF and 0 |
| `Echo` | what comes back is a function of the bytes, it comes, the client program ends | a watermark of 2 and four typed bytes: lines of 0 to more than two bytes; descriptors 4 to 6 around an FD_SETSIZE of 5, limits of 6 and 8: a connection is kept, closed at once, or never accepted; a connection holds two bytes, so that writes are cut and block |
| `Messages` | no values behind unset bits, bytes give the object again, a cut message invents nothing | strings of up to two bytes, the number 1, at most five fields set in an object |
| `Login` | who gets in, who is refused, what ends a server | two clients, the two rows of `auth_database.sql` that differ in kind (with and without a password), a wrong password; servers with flags 0 and MSG_WAITALL under all four of the client's, and MSG_DONTWAIT under clients that wait for the end; a connection holds one answer, so that a thread blocks in `send()`. Behind what is received only zeros, but with flags 0 also, for one client, a code, and for the other another password or a yes: each is parsed as a field of the message before it, or alone when nothing was received |
| `Httpd` | nothing stays open between two requests but for the named reasons, the body reaches the script and its output the client, what ends the server, what it can wait for for ever | three clients one after the other, five descriptors (a client and its four pipe ends: with one left open the next `pipe()` fails), pipes and connections of one byte with bodies and outputs of two: each of the pipes and the `send()` to the client block |

Deadlock is not checked: each of the programs or the clients may stop. That they
come to their ends is a liveness property where the program means to end.

**Fairness.** `ChatRelay` and `Prefork`: weak fairness of each process's own steps,
since the kernel schedules it and `epoll_wait` returns when something is ready;
nothing is assumed of clients. `Prefork` assumes nothing about errors on accepted
clients. `CondBuffer`, `SemBuffer`: weak fairness per thread, with the mutex and the
semaphores handed to some thread that waits; each is contended by two threads
that wait for each other in between, so weak fairness is enough. `PacketStream`:
weak fairness of the server's sends and of the client's steps. `Httpd`: weak fairness
of the server and of the script, two processes the kernel schedules; a script that is not
blocked goes on to its end, and clients owe nothing. `ComesBack` therefore names
the ways in which the server waits for ever: a client that sends no request, one that sends less
body than it said, one that does not read what it is sent, a script that waits for input
that never ends, and both pipes full, with the server and the script waiting for each other. `HttpdRequest`: weak fairness of the server and of
the network, not of `close()`; `RequestTaken` names the one wait that never ends, behind a
carriage return. `Echo`: weak fairness of each event of the server's loop, which serves
all that are ready, and of the client program, whose first event has a timeout; the
handshake owes nothing, nor do other clients. `Login`: weak fairness of every server
thread and of every client once its user has typed; the user may always quit.

## 4. What is proved

`PreforkProofs.tla`, for any number of children, clients and descriptors, from
`PreforkAssumption`: `TypeCorrect`, `WorkCorrect`, `RaceCorrect`.
The type invariant is not inductive on its own: that `Fork` stays in range needs to
know where the parent is in its loop (`ForkInv`: children the parent has not come
to do not exist, and a parent that waits has come to all of them).
The race: `WokenHaveWork` says that when all
who are alive are woken there is a connection for one of them. It is inductive over
`ForkInv`: a worker is woken only while a connection waits, and the one that takes a
connection is no longer woken. `RaceCorrect` follows: the last process to go was the
only one alive and woken, so there was a connection, so `accept()` failed for want
of a descriptor.

`ChatRelayProofs.tla`, for any set of clients, descriptors and numbers, any size of the batch
and any number of lines, from `ChatAssumption`:

* `TypeCorrect` and `MapsCorrect` from the inductive invariant `MapInv`. `MapsNameClients`
  is not inductive alone: what `process_request` writes into `fd_map` includes the
  descriptor of the event it handles, so `EventsNameClients` adds that the events of the
  batch, epoll's ready list and the open connections speak only of descriptors that
  `accept()` has returned.
* `EdgeCorrect` (`NoLostEdge`): for each descriptor with unread lines, the step that takes it
  off the ready list puts it into the batch as readable, and the step that takes that event
  out of the batch reads or closes it. Stale events of a batch do no harm to it.
* `PartnerCorrect` (`PartnerIsTalking`), over `MapInv`: what is registered is a client's
  descriptor and not 0, so both sides of a new pair are in a conversation.
* `RelayCorrect`: `Spec => RelaySpec`. `Forward` is `Pass` to the partner's connection,
  every other `read_all` is a `Pass` of nothing, `TypeLine` is `Type`, the rest stutters. What a
  `Pass` delivers is any of the `Beginnings` of the pending lines, the last whole or in part, and
  so is all that `write()` may take (`Written`).
* `RelayOrderCorrect` and `RelayRecipientCorrect` are about `LineRelay`, for any set of clients
  and numbers. Neither property is inductive: the invariant `RelayInv` adds that the pending lines
  of a client are its own and numbered upwards to at most what it has sent, and that delivered
  lines are older than every pending one of the same sender.
* `OrderCorrect` and `RecipientCorrect`: by `RelayCorrect`, what holds of every relay holds of the
  worker.

`SemBufferProofs.tla`, for any number of items and places, from `SemAssumption`:
`PlacesCorrect` (`PlacesAddUp`), `NeverReadsEmpty`, `FifoCorrect` and `OrderCorrect`. The
sum of places alone says nothing of the rounds the two threads have completed; the
inductive `SemInv` adds `RoundsAddUp`: what has been put is the producer's rounds and the
one it is about to count, what has been taken the consumer's. From it the item the
producer puts is the next one, and the consumer that holds the mutex finds an item.
`FifoOrderCorrect` is about `BoundedFifo`, for any first item, number of items and capacity:
the items taken are the first ones without a gap. Its invariant `FifoInv` adds that those in
the buffer follow them, and that the buffer keeps to its capacity.

`CondBufferProofs.tla`, for any number of items and of spurious wakeups, from
`CondAssumption`: `PrintCorrect` (`PrintsTheItem`), `FifoCorrect` and `OrderCorrect`. The
inductive `CondInv` adds `Alternate`: the producer is ahead of the consumer by the item in
the buffer, which is the number of its last round, and by nothing when the buffer is
empty; so the counter the consumer prints is that item, although it never reads it.

In both thread programs, `FifoCorrect` is `Spec => FifoSpec` of `BoundedFifo`: each step of the program puts
an item, takes one, or changes nothing of the FIFO. In `SemBufferProofs` `OrderCorrect` then
follows from `FifoOrderCorrect`; in `CondBufferProofs` from `CondInv` and
`PrintedInOrder` (the items printed are the first ones), since the one item in the buffer is the next. The fairness in `FifoLive` is left to TLC.

`HttpdProofs.tla`, for any set of clients, any limit of descriptors, any size of the pipes, of
the bodies and of the outputs, from `HttpdAssumption`: `TypeCorrect`, `HeldCorrect`
(`NothingHeldBetween`), `BodyCorrect` (`BodyAsSent`), `ReplyCorrect` (`ReplyComplete`) and
`KilledCorrect` (`KilledForAReason`), all from one inductive invariant, `HttpdInv`:

* `ChildInv`: a script exists from `fork()` to the return of `waitpid()`, for the client that is
  being served, whose descriptor the server holds meanwhile, as it does both its pipe ends. It is what
  the other parts rest on: between two requests there is no script and no pipe.
* `AnswerInv`: what each client has been answered is a function of where it is: nothing in
  the backlog, 501 alone for one whose descriptor was left open by the early return,
  200 for one whose script runs. `NothingHeldBetween` needs it, because it tells the reasons for
  an open descriptor apart by the answer; and a pipe end that stays open was left
  by the client whose second `pipe()` failed.
* `InputInv` and `OutputInv` follow a byte across the pipes: each byte taken from the client is
  with the script or in the first pipe, each byte the script has written is with the client or
  in the second one. `BodyAsSent` and `ReplyComplete` speak of the end only, where the pipes
  are empty.

That the descriptors never exceed `Limit` is part of the type invariant and goes through the
cardinality of the set of those held.

The same module proves `HttpdRequest`, for a buffer of any size above 2, words of any size from 3
up to the buffer's, any streams, files and old contents of the buffer, from
`HttpdRequestAssumption`: `RequestTypeCorrect`, `RequestCorrect` (`RequestAsSent`) and
`FileCorrect` (`FileAsSent`).

* `CatInv`: each `fgets` of `cat` begins where a line of the file begins, or a whole number of full
  buffers behind it, and what was sent by then is what `FileAsSent` says of the file up to there.
  The property speaks of the whole file and only at its end.
* `LineInv`: `RequestAsSent` speaks of the end of a connection only, and of a stream that by then
  is complete, whereas the code has to decide while characters still arrive: whether a line
  has ended, or is the blank one, may change with the next character, as behind a carriage
  return. The invariant says that `buf` is the stream from the beginning of the line to the last
  character taken (`LineTypes`), that this beginning is one whatever may
  still arrive (`BegunPart`), that no blank line has been taken (`BlankPart`), and that the length
  counted is that of the headers so far (`LengthPart`). `ArriveFacts` and `FitsBefore` say how the
  definitions in which the property is stated change when a character arrives.
* `ScanText`: the three loops over the array make of a line that fits what `Said` says of its
  text, whatever an earlier content has left behind the NUL. Where a loop stops is a least index, and
  that there is one comes from the well-foundedness of the order on the natural numbers (`Least`).

`PacketStreamProofs.tla`, for any sizes of the packets, of the header and of the buffer, any number of
packets, from `PacketAssumption`: `TypeCorrect`, `HandledCorrect` (`HandledAsSent`) and `RoomCorrect`
(`RecvHasRoom`). The inductive invariant `StreamInv` adds to the types `Layout` (the packets
the server has sent lie one behind the other in the stream, without a gap) and `Aligned`
(the client's buffer begins where the first packet it has not handled begins, and ends
within what was sent). From it follows `FrontIsThere`: a whole header at the front of the buffer
is that of the next packet and never garbage, so the length the client reads there is
right, and what `Unpack` cuts out is that packet. `RecvHasRoom`: when the client goes back to
`recv()`, it has less than a header or less than a packet, and either is less than the buffer holds.

The same module proves `ByteBuffer`, for bytes of any number of values above 3, any set of
characters without 0 and any bounds, from `BufferAssumption`: `BufferTypeCorrect`,
`RoundTripCorrect` (`RoundTrip`) and `AbortsCorrect` (`AbortsOnOverread`). The inductive
`BufferInv` says how the storage is laid out (`Laid`): the bytes of each value are at the position
its writer took from `wpos()`, each value begins where the one before it ends, the last ends
with the storage; and `mWritePos` is that end, `mReadPos` the beginning of the first value not yet
read. Appending, patching, cutting and doubling a layout are a lemma each (`LaidAppend`,
`LaidPut`, `LaidCut`, `LaidTwice`). From the layout `DueValue` follows: what `>>` makes of
the bytes behind `mReadPos` is the value due, because two bytes give back their number
(`TwoBytes`), and a string ends at its own 0, no character being one. `RoundTrip` says of a
string read into an array what is there instead (`AsWrittenOverRest`): its characters and behind them
the rest of what the array held, so that it comes back only over a 0.

`EchoProofs.tla`, for any set of clients and characters, any typed lines, any watermark and
descriptor limits, from `EchoAssumption`: `TypeCorrect`, `StreamCorrect` (`EchoIsTheStream`) and
`RoomCorrect`. It goes in three steps.

* The reference. `EchoOf` is a recursive function over all finite sequences, and what a `CHOOSE`
  defines has to be shown to exist. The library's induction theorems take an operator, which the
  provers here cannot instantiate; `AllNumbers` states induction for sets of numbers instead and
  is proved from the pigeonhole principle. `EchoUpToExists` and `EchoUpToUnique` build the
  function for sequences of a length at most n, and `EchoOfAppend` is what the rest uses: the echo
  of a stream and one byte more is one step from that of the stream.
* The code. `ReadStep`: a `readcb` that is given a piece of any size, cuts the whole lines
  out of it in its first loop and what fills the buffer in its second, does what the echo
  of its bytes one by one does. It is an induction over the length of the piece (`OneByteMore`).
* The invariant `EchoInv`: the types, `ProgramInv` (the client program has sent nothing while
  it connects), `BufferInv` (between two callbacks no input buffer holds a whole line, and
  each is below the watermark) and `EchoIsTheStream`. `BufferInv` is needed because the echo of one
  byte more is that of the code only when the rest in the buffer is an unfinished line.

`RoomCorrect` follows from `BufferInv`: `readcb` leaves room for a byte in every buffer, so the high
watermark never stops a connection for good. No run states it on its own.

`ProtobufProofs.tla` covers the message classes and the programs that use them.

* The serialised form. `Clean` says that nothing is behind a bit that is not set;
  `MessagesTypeCorrect` and `DefaultsCorrect` (`DefaultsBehindBits`) say that every operation of
  the interface keeps objects so, and `ClearEmpties` that `Clear()` may look only at what is set.
* The parser is a recursive function over sequences of any length; `AllStrings` and
  `AllNumbers` state induction for sets of sequences and of numbers, as in `EchoProofs`, and
  from them `TakeAll` is shown to exist. `Written` follows the parser through the
  bytes of an object, field by field: behind the last byte of a field it expects a tag and has the
  fields so far, which gives `RoundTripCorrect` (`RoundTrip`, with the sizes computed beforehand);
  behind any byte it has a fragment of the object, which gives `FragmentsCorrect`
  (`NothingInvented`). Both hold for strings and numbers of any
  size, with a length being one number however large: varints of several bytes
  are not in the model.
* The two servers, for any set of clients, any rows with a user name, any typed names and
  passwords without a 0, any flags, any `SendSize` and any contents of the buffers that were not initialised, from `LoginAssumption`: `LoginTypeCorrect`,
  `KilledCorrect` (`KilledByAReset`), `ConnectedCorrect` (`ConnectedMeansLoggedIn`) and
  `RefusedCorrect` (`RefusedForAReason`). `KilledByAReset` needs `FreshInv`: a
  connection that was never opened has nothing in it and no thread (`Fresh`), and where `recv()`
  waits for data, a thread that goes on has taken all that was sent, so behind its `send()` to
  a closed connection it finds nothing to answer (`ReadOnce`). The two others
  need `LoginInv`, which adds `Informed`: what is in a connection, in the hands of a
  thread or with the client is what was typed, or an answer that was earned when it was given. An
  answer once earned stays so, because codes are never taken back and what excuses a
  refusal never passes. `Informed` is kept for the clients not in `stray`; one in `stray` stays there,
and the properties name it as an exception. That is no loss of the others: a `recv()` whose garbage
makes no difference gives what the bytes received give. The packets themselves are followed byte by byte: `LoginReceived`,
  `CodeReceived`, `YesRead` and `NoRead` say that a server or client makes of the bytes, cut at their first
  0 as they are, the login, code or answer that was sent.

`OrderCorrect` and `RecipientCorrect` of the worker and of the relay state more than a run checks: the runs check
`RelaySpec`, from which they follow. `TypeCorrect` of `Prefork` is not run for the same
reason, since the theorem covers every instance.

Model-checked only are the liveness properties, since the prover has no reasoning about fairness:
`LinesAreRead`, `HangUpsAreReclaimed`, `ReserveReplacesOne`, `EveryoneAccepted`, `Termination` and the part of `FifoLive`
that is more than `FifoSpec`, `ClientEnds`, `ComesBack`, `RequestTaken`, `EchoComes` and
`GoodClientGetsIn`. Every invariant and action property of a passing run, and every
refinement, is a theorem.

The type invariants of `BoundedFifo` and `LineRelay` are parts of the inductive invariants `FifoInv` and
`RelayInv`; that of every other module is a theorem of its own. The theorem covers every instance, so most
runs do not check it.

## 5. What is left out

* The size of the buffers of `read_all`: lines are assumed to fit the `char buf[10]` of
  the registration.
* Lines: one is one segment, as telnet sends it; a line split in two segments would be
  read as two.
* Numbers outside the descriptors and 0: negative numbers and numbers beyond `MAX_FD`
  index outside the maps.
* The README of the chat server names port 2020, the code listens on 8001.
* Blocking sends (`SendData` of the packet server) are one step.
* `ByteBuffer`: arrays too small for what is read into them (undefined), `wpos(pos)`, `operator[]`, which change a position behind the back of the
  values, `append` of a buffer that was read in part (undefined), and the container
  templates, which only the macros of the Microsoft library switch on.
* In the thread programs the thread functions have no `return`: the models end
  them at the end of the function, as the unoptimised build does.
* tinyhttpd: how many bytes an answer has: an answer is its status lines, and a connection in
  which nothing waits has room for it. A client that leaves closes both directions at once. The
  byte that nobody initialised (`c`, `httpd.c:212`) is 0 until `recv()` writes it. The loops over
  `buf` look at `buf[j]` before they compare `j` with the size (`httpd.c:73`); what is there
  makes no difference. `execl` that fails is a script that ends at once. In `HttpdRequest` GET, POST and Content-Length are
  single characters, and a request is for a file that is there.
* libevent: the memory an output buffer may take (it has no limit), `rot13_char`, which is
  never called, and errors other than a lost connection.
* protobufTest: `PacketHandler.cpp:9` and `:25` do not compile as committed (a member is
  named for the class, a call has no parentheses); they are read as the only thing they can
  mean. `AuthServer.cpp:36` gives `accept()` the address of a pointer for the address of what
  it points to; what that overwrites is not modelled, nor is a `bind()` that fails. The servers never close a connection and are
  taken not to run out of descriptors. Of what `buf` holds, the run has fields of the messages
  and no unknown ones; the theorems have any bytes, but the parser of the model stops at a tag it
  does not know, where the library may skip the field. A code is one byte,
  not `uniqueauthcode`, a login one segment. The server with MSG_PEEK, and with MSG_DONTWAIT
  under clients that do not wait for the end, are in the model (`Stack`) and not in the run:
  such a server goes on answering what it has answered, and the state space with it.
* Message classes: fields of unknown numbers, reflection and descriptors, `set_allocated_*`,
  varints of more than one byte. `SerializeToString` of an object without its required fields
  gives its bytes, as in a release build; a debug build of protobuf stops there.
* The CGI scripts and pages of tinyhttpd are content, and the other programs and notes of the
  repository are examples of single calls.

## 6. Where code and documentation disagree

* `ChatReuse`: `README:11` says a client first inputs the number of its partner; a
  client on a reused descriptor is in a conversation from the start.

Three more are not run: `main.c:6` describes `fd_map` as "fd[1]=2,fd[2]=1", but a registration
(`main.c:76-77`) overwrites one side of a pair and leaves the other, so the map need not be mutual.
`client.cpp:49` says that the
client disconnects after ten packets; it waits for the header of an eleventh (line 50).
`ByteBuffer.h:488` says that `<<` and `>>` correspond; `>>` of a `time_t` (line 214) assigns a copy
of its argument, which `RoundTrip` names as its exception.

## 7. What could follow

Larger instances where a run leaves some out: servers with MSG_PEEK in `Login`, three
connections in `Echo`; a run of `Httpd` and `HttpdRequest` composed, in which the
characters of a request that `get_line` leaves are those the script reads.
