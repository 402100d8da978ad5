--------------------------------- MODULE Echo ---------------------------------
(***************************************************************************)
(* originEchoServer.cpp and originEchoClient.cpp of libevent/: a server of *)
(* one event loop with a bufferevent per connection, and the client        *)
(* program, which sends its text once and ends when as many bytes came     *)
(* back.  The other clients may do what they like.                         *)
(*                                                                         *)
(* One action is one callback of libevent with what the callback does: a   *)
(* read event reads what fits below the high watermark and runs readcb, a  *)
(* write event sends what the socket takes, an end or an error runs        *)
(* errorcb.                                                                *)
(***************************************************************************)
EXTENDS Integers, Sequences, FiniteSets

CONSTANTS
  Conn,        \* connections, one of them of the client program
  Program,     \* the connection of the client program
  Char,        \* what clients type
  LF,          \* the end of a line
  echo_contents,   \* the text of the client program
  MAX_LINE,    \* high watermark of the input buffers
  FD_SETSIZE,  \* the largest descriptor do_accept keeps
  FirstFds,    \* what the first descriptor accept() returns may be
  Limits,      \* what the limit of descriptors may be (ulimit -n)
  SendSize,    \* size of the buffers between the server and one client
  MaxTyped     \* bound of the model: bytes a client types

ASSUME EchoAssumption ==
  /\ Program \in Conn /\ LF \in Char
  /\ IsFiniteSet(Conn)
  /\ echo_contents \in Seq(Char)
  /\ MAX_LINE \in Nat \ {0} /\ SendSize \in Nat \ {0}
  /\ FD_SETSIZE \in Nat /\ MaxTyped \in Nat
  /\ FirstFds \subseteq Nat /\ Limits \subseteq Nat

VARIABLES
  server,     \* "running", or "killed" by SIGPIPE
  first_fd,   \* lowest descriptor free at start
  nofile,     \* limit of descriptors
  backlog,    \* connections waiting in accept()
  held,       \* connections with a bufferevent
  dropped,    \* connections closed by do_accept
  reading,    \* those with EV_READ enabled
  writing,    \* those with EV_WRITE enabled
  input,      \* input[c], output[c]: the buffers of c's bufferevent
  output,
  peer,       \* peer[c]: the remote end of c as the kernel sees it
  typed,      \* typed[c]: all that was sent on c
  taken,      \* taken[c]: how much of it the server has read
  echoed,     \* echoed[c]: all the server has written to c
  got,        \* got[c]: how much of it the client has read
  client      \* the client program

acceptVars == <<first_fd, nofile, backlog, held, dropped>>
enabledVars == <<reading, writing>>
bufferVars == <<input, output>>
inVars == <<typed, taken>>
outVars == <<echoed, got>>
vars == <<server, acceptVars, enabledVars, bufferVars, peer, inVars, outVars,
          client>>

Init ==
  /\ server = "running"
  /\ first_fd \in FirstFds /\ nofile \in Limits
  /\ backlog = {} /\ held = {} /\ dropped = {}
  /\ reading = {} /\ writing = {}
  /\ input = [c \in Conn |-> << >>] /\ output = [c \in Conn |-> << >>]
  /\ peer = [c \in Conn |-> "none"]
  /\ typed = [c \in Conn |-> << >>] /\ taken = [c \in Conn |-> 0]
  /\ echoed = [c \in Conn |-> << >>] /\ got = [c \in Conn |-> 0]
  /\ client = "connecting"

Alive == server = "running"

\* The server is gone, or has closed this connection.
Cut(c) == ~Alive \/ c \in dropped

------------------------------------------------------------------------------
(* The other clients.                                                      *)

\* The handshake is done by the kernel of the server.
Connect(c) ==
  /\ Alive /\ peer[c] = "none"
  /\ peer' = [peer EXCEPT ![c] = "open"]
  /\ backlog' = backlog \cup {c}
  /\ UNCHANGED <<server, first_fd, nofile, held, dropped, enabledVars,
                 bufferVars, inVars, outVars, client>>

TypeChar(c, ch) ==
  /\ peer[c] = "open" /\ ~Cut(c)
  /\ Len(typed[c]) < MaxTyped
  /\ typed' = [typed EXCEPT ![c] = Append(@, ch)]
  /\ UNCHANGED <<server, acceptVars, enabledVars, bufferVars, peer, taken,
                 outVars, client>>

Receive(c) ==
  /\ peer[c] = "open" /\ got[c] < Len(echoed[c])
  /\ got' = [got EXCEPT ![c] = @ + 1]
  /\ UNCHANGED <<server, acceptVars, enabledVars, bufferVars, peer, inVars,
                 echoed, client>>

\* The client closes; what it typed before stays readable.  With bytes it has
\* not read yet, or when it crashes, this is a reset.
HangUp(c) ==
  /\ peer[c] = "open" /\ ~Cut(c)
  /\ peer' = [peer EXCEPT ![c] = "reset"] \/ peer' = [peer EXCEPT ![c] = "closed"]
  /\ UNCHANGED <<server, acceptVars, enabledVars, bufferVars, inVars, outVars,
                 client>>

Others ==
  \E c \in Conn \ {Program} :
    \/ Connect(c) \/ Receive(c) \/ HangUp(c)
    \/ \E ch \in Char : TypeChar(c, ch)

------------------------------------------------------------------------------
(* The client program.                                                     *)

\* connect() of a non-blocking socket is done some time later, or never.
Established == Connect(Program)

\* write_cb with EV_WRITE: the socket is connected, or the connection failed
\* and send() with it; event_read is added in both cases.
WriteCb ==
  /\ client = "connecting"
  /\ peer[Program] = "open" \/ ~Alive
  /\ client' = "reading"
  /\ typed' = IF Cut(Program) THEN typed
              ELSE [typed EXCEPT ![Program] = echo_contents]
  /\ UNCHANGED <<server, acceptVars, enabledVars, bufferVars, peer, taken,
                 outVars>>

\* write_cb with EV_TIMEOUT: it does not look at the flag, send() fails with
\* EAGAIN, and event_write is not added again.
WriteCbTimeout ==
  /\ client = "connecting" /\ peer[Program] = "none" /\ Alive
  /\ client' = "waiting"
  /\ UNCHANGED <<server, acceptVars, enabledVars, bufferVars, peer, inVars,
                 outVars>>

\* Mutant of Wants: one byte more than the server sends.
WantsOneMore(n) == n <= Len(echo_contents)

\* ec->recved < ec->echo_contents_len: the read event is added again.
Wants(n) == n < Len(echo_contents)

\* The last event is gone: event_base_dispatch returns and main ends.
ReadCb(k) ==
  /\ client \in {"reading", "waiting"}
  /\ k \in 1 .. Len(echoed[Program]) - got[Program]
  /\ got' = [got EXCEPT ![Program] = @ + k]
  /\ IF Wants(got[Program] + k)
     THEN UNCHANGED <<client, peer>>
     ELSE client' = "ended" /\ peer' = [peer EXCEPT ![Program] = "closed"]
  /\ UNCHANGED <<server, acceptVars, enabledVars, bufferVars, inVars, echoed>>

\* recv() returns 0, after an error (-1) that read_cb takes for nothing.  Bytes
\* the client had not read by then may be lost in the reset.
ReadCbEnd ==
  /\ client \in {"reading", "waiting"}
  /\ Cut(Program)
  /\ client' = "ended"
  /\ peer' = [peer EXCEPT ![Program] = "closed"]
  /\ UNCHANGED <<server, acceptVars, enabledVars, bufferVars, inVars, outVars>>

ClientProgram ==
  \/ WriteCb \/ WriteCbTimeout \/ ReadCbEnd
  \/ \E k \in 1 .. SendSize : ReadCb(k)

------------------------------------------------------------------------------
(* do_accept.                                                              *)

\* No bufferevent is ever freed: the descriptors in use are the first ones.
NewFd == first_fd + Cardinality(held)

CanAccept == NewFd < nofile

TooHigh(fd) == fd > FD_SETSIZE

\* Without a descriptor accept() returns -1, again and again: "accept" is
\* printed and nothing else happens.
DoAccept ==
  /\ Alive /\ CanAccept
  /\ \E c \in backlog :
       /\ backlog' = backlog \ {c}
       /\ IF TooHigh(NewFd)
          THEN dropped' = dropped \cup {c} /\ UNCHANGED <<held, enabledVars>>
          ELSE /\ held' = held \cup {c}
               /\ reading' = reading \cup {c}
               /\ writing' = writing \cup {c}
               /\ UNCHANGED dropped
  /\ UNCHANGED <<server, first_fd, nofile, bufferVars, peer, inVars, outVars,
                 client>>

------------------------------------------------------------------------------
(* A bufferevent.                                                          *)

Unread(c) == Len(typed[c]) - taken[c]

\* Mutant of HowMuch: no watermark.
NoWatermark(c) == Unread(c)

\* A bufferevent with a high watermark reads no more than up to it.
HowMuch(c) == MAX_LINE - Len(input[c])

\* What evbuffer_readln(EVBUFFER_EOL_LF) leaves begins behind the last newline.
LinesEnd(s) == CHOOSE n \in 0 .. Len(s) :
  /\ n = 0 \/ s[n] = LF
  /\ \A i \in n + 1 .. Len(s) : s[i] # LF

\* Mutant of TooLong: it must be longer.
Longer(s) == Len(s) > MAX_LINE

TooLong(s) == Len(s) >= MAX_LINE

Rest(s) == SubSeq(s, LinesEnd(s) + 1, Len(s))

\* readcb: every line goes back with its newline; what is left goes back with
\* a newline too if it is too long.
Answer(s) ==
  IF TooLong(Rest(s)) THEN Append(s, LF) ELSE SubSeq(s, 1, LinesEnd(s))

Kept(s) == IF TooLong(Rest(s)) THEN << >> ELSE Rest(s)

ReadEvent(c) ==
  /\ Alive /\ c \in reading
  /\ \E k \in 1 .. Unread(c) :
       /\ k <= HowMuch(c)
       /\ LET s == input[c] \o SubSeq(typed[c], taken[c] + 1, taken[c] + k)
          IN /\ output' = [output EXCEPT ![c] = @ \o Answer(s)]
             /\ input' = [input EXCEPT ![c] = Kept(s)]
       /\ taken' = [taken EXCEPT ![c] = @ + k]
  /\ UNCHANGED <<server, acceptVars, enabledVars, peer, typed, outVars, client>>

\* End of file or an error: libevent stops reading, errorcb does nothing.
ReadEnds(c) ==
  /\ Alive /\ c \in reading
  /\ Unread(c) = 0 /\ HowMuch(c) > 0
  /\ peer[c] \in {"closed", "reset", "dead"}
  /\ reading' = reading \ {c}
  /\ peer' = [peer EXCEPT ![c] = IF @ = "reset" THEN "dead" ELSE @]
  /\ UNCHANGED <<server, acceptVars, writing, bufferVars, inVars, outVars,
                 client>>

HasOutput(c) == Alive /\ c \in writing /\ output[c] # << >>

\* The socket takes what its buffer has room for; a client that is gone
\* answers with a reset.
WriteEvent(c) ==
  /\ HasOutput(c) /\ peer[c] \in {"open", "closed"}
  /\ \E k \in 1 .. Len(output[c]) :
       /\ k <= SendSize - (Len(echoed[c]) - got[c])
       /\ echoed' = [echoed EXCEPT ![c] = @ \o SubSeq(output[c], 1, k)]
       /\ output' = [output EXCEPT ![c] = SubSeq(@, k + 1, Len(@))]
  /\ peer' = [peer EXCEPT ![c] = IF @ = "closed" THEN "reset" ELSE @]
  /\ UNCHANGED <<server, acceptVars, enabledVars, input, inVars, got, client>>

\* write() returns the error; libevent stops writing, errorcb does nothing.
WriteFails(c) ==
  /\ HasOutput(c) /\ peer[c] = "reset"
  /\ writing' = writing \ {c}
  /\ peer' = [peer EXCEPT ![c] = "dead"]
  /\ UNCHANGED <<server, acceptVars, reading, bufferVars, inVars, outVars,
                 client>>

\* Nothing ignores SIGPIPE.
KilledBySigpipe(c) ==
  /\ HasOutput(c) /\ peer[c] \in {"reset", "dead"}
  /\ server' = "killed"
  /\ UNCHANGED <<acceptVars, enabledVars, bufferVars, peer, inVars, outVars,
                 client>>

Reads(c) == ReadEvent(c) \/ ReadEnds(c)
Writes(c) == WriteEvent(c) \/ WriteFails(c) \/ KilledBySigpipe(c)

Next ==
  \/ Others
  \/ Established \/ ClientProgram
  \/ DoAccept
  \/ \E c \in Conn : Reads(c) \/ Writes(c)

Spec == Init /\ [][Next]_vars

\* The loop serves every event that is ready, the client program is scheduled
\* too and its event has a timeout.  Nobody makes the handshake succeed, and
\* the other clients owe nothing.
FairSpec ==
  /\ Spec
  /\ WF_vars(ClientProgram)
  /\ WF_vars(DoAccept)
  /\ \A c \in Conn : WF_vars(Reads(c)) /\ WF_vars(Writes(c))

------------------------------------------------------------------------------
Peer == {"none", "open", "closed", "reset", "dead"}

\* In addition, a bufferevent's descriptor is at most FD_SETSIZE.
TypeOK ==
  /\ server \in {"running", "killed"}
  /\ first_fd \in FirstFds /\ nofile \in Limits
  /\ backlog \subseteq Conn /\ held \subseteq Conn /\ dropped \subseteq Conn
  /\ held # {} => NewFd - 1 <= FD_SETSIZE
  /\ reading \subseteq held /\ writing \subseteq held
  /\ input \in [Conn -> Seq(Char)] /\ output \in [Conn -> Seq(Char)]
  /\ peer \in [Conn -> Peer]
  /\ typed \in [Conn -> Seq(Char)] /\ echoed \in [Conn -> Seq(Char)]
  /\ taken \in [Conn -> Nat] /\ got \in [Conn -> Nat]
  /\ \A c \in Conn : taken[c] <= Len(typed[c]) /\ got[c] <= Len(echoed[c])
  /\ client \in {"connecting", "reading", "waiting", "ended"}

\* What an echo of one byte after the other gives: a line with its newline as
\* soon as it is complete or MAX_LINE bytes long; an unfinished line stays.
EchoChar(e, ch) ==
  IF ch = LF \/ Len(e.line) + 1 = MAX_LINE
  THEN [echo |-> e.echo \o Append(e.line, ch) \o (IF ch = LF THEN << >> ELSE <<LF>>),
        line |-> << >>]
  ELSE [e EXCEPT !.line = Append(@, ch)]

NothingEchoed == [echo |-> << >>, line |-> << >>]

EchoOf[s \in Seq(Char)] ==
  IF s = << >> THEN NothingEchoed
  ELSE EchoChar(EchoOf[SubSeq(s, 1, Len(s) - 1)], s[Len(s)])

(***************************************************************************)
(* What goes back is a function of the bytes that came, however the        *)
(* network cut them into reads and the server's answers into writes: the   *)
(* watermark makes readcb break long lines at the same places              *)
(* (originEchoServer.cpp:58-94, 128).                                      *)
(***************************************************************************)
EchoIsTheStream ==
  \A c \in Conn :
    LET e == EchoOf[SubSeq(typed[c], 1, taken[c])]
    IN echoed[c] \o output[c] = e.echo /\ input[c] = e.line

(***************************************************************************)
(* Whatever a client does and sends, each connection whose client is there *)
(* comes to the point where all that was sent is read and all answers are  *)
(* out, unless the client reads no more (originEchoServer.cpp:46-95).      *)
(***************************************************************************)
EchoComes ==
  \A c \in Conn :
    \/ []<>(\/ ~Alive \/ c \notin held \/ peer[c] # "open"
            \/ Unread(c) = 0 /\ output[c] = << >>)
    \/ <>[](Len(echoed[c]) - got[c] = SendSize)

(***************************************************************************)
(* The client program ends, unless its timeout came before the connection  *)
(* (then it waits for an echo of what it never sent), or all descriptors   *)
(* of the server are taken, by clients that may be gone (originEchoClient  *)
(* .cpp:42-80, 121; originEchoServer.cpp:96-119).                          *)
(***************************************************************************)
ClientEnds ==
  client = "connecting" ~>
    \/ client = "ended"
    \/ client = "waiting"
    \/ Program \in backlog /\ ~CanAccept

==============================================================================
