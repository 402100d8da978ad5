-------------------------------- MODULE Httpd --------------------------------
(***************************************************************************)
(* tinyhttpd/httpd.c: one process that accepts a client, answers its       *)
(* request, closes it and accepts the next.  A CGI script runs in a child  *)
(* behind two pipes: the server first writes the request's body to the     *)
(* one, then reads the other to its end.                                   *)
(*                                                                         *)
(* The script is any program: it may read, write and end when it likes.    *)
(* The k-th byte of a body, and of a script's output, is the number k.     *)
(***************************************************************************)
EXTENDS Integers, Sequences, FiniteSets

CONSTANTS
  Conn,       \* clients
  NoClient,
  Limit,      \* descriptors the server may have besides the listening one
  PipeSize,   \* bytes a pipe holds
  SendSize,   \* what a client's connection holds: answers, lines of a file or
              \* bytes of output that it has not read
  MaxBody,    \* bound of the model: Content-Length
  MaxOutput   \* bound of the model: bytes a script writes, and lines of a file

ASSUME HttpdAssumption ==
  /\ NoClient \notin Conn
  /\ Limit \in Nat \ {0} /\ PipeSize \in Nat \ {0} /\ SendSize \in Nat \ {0}
  /\ MaxBody \in Nat /\ MaxOutput \in Nat

\* content_length is -1 without a Content-Length header.  "unreadable" is a
\* file that stat() finds and fopen() does not open.
Request ==
  [method : {"GET"}, target : {"missing", "file", "unreadable", "script"},
   content_length : {-1}]
    \cup [method : {"POST"}, target : {"missing", "file", "script"},
          content_length : -1 .. MaxBody]

\* What accept_request makes of any other method, and of no line at all.
NoRequest == [method |-> "other", target |-> "missing", content_length |-> -1]

VARIABLES
  server,      \* the server: "accept", "request", "file" (in cat), "failed" (no
               \* pipe or no process), "body", "output", "send" (of a byte of
               \* output), "reap", or "exited" by error_die, "killed" by a signal
  client,      \* the client whose request is being processed
  held,        \* clients whose descriptor the server has not closed
  leaked,      \* pipe ends nobody will close
  backlog,     \* connections waiting in accept()
  request,     \* the request that client has sent
  asked,       \* client has sent its request
  body,        \* bytes of its body that client has sent
  gone,        \* client has closed its end
  unread,      \* what client was sent and has not read
  answer,      \* answer[c]: the status lines sent to c
  reply,       \* the bytes of script output sent to client
  child,       \* the script: "none", "running", "reading", "writing", "ended"
  cgi_input,   \* bytes in the pipe to the script
  cgi_output,  \* bytes in the pipe from it
  i,           \* loop counter of the body
  byte,        \* the variable c of execute_cgi; 0 while nothing was assigned to it
  lines,       \* lines of the file that cat has not sent
  stdin,       \* bytes the script has read
  stdout       \* how many bytes it has written

askVars == <<request, asked, body, gone>>
clientVars == <<askVars, unread>>
descVars == <<held, leaked, backlog>>
answerVars == <<answer, reply>>
pipeVars == <<cgi_input, cgi_output, stdin, stdout>>
loopVars == <<i, byte, lines>>
vars == <<server, client, descVars, clientVars, answerVars, child, pipeVars,
          loopVars>>

Init ==
  /\ server = "accept" /\ client = NoClient
  /\ held = {} /\ leaked = 0 /\ backlog = {}
  /\ request = NoRequest /\ asked = FALSE
  /\ body = 0 /\ gone = FALSE /\ unread = 0
  /\ answer = [c \in Conn |-> << >>]
  /\ reply = << >>
  /\ child = "none"
  /\ cgi_input = << >> /\ cgi_output = << >>
  /\ stdin = << >> /\ stdout = 0
  /\ i = 0 /\ byte = 0 /\ lines = 0

Alive == server \notin {"exited", "killed"}

------------------------------------------------------------------------------
(* The clients.  What a client sends is seen by nobody before the server   *)
(* turns to it, so it is sent then; a client that left before is one that  *)
(* leaves at once.                                                         *)

Connect(c) ==
  /\ c \notin backlog \cup held /\ answer[c] = << >>
  /\ backlog' = backlog \cup {c}
  /\ UNCHANGED <<server, client, held, leaked, clientVars, answerVars, child,
                 pipeVars, loopVars>>

Here == Alive /\ server # "accept" /\ ~gone

\* The request line and the headers.
SendRequest(r) ==
  /\ Here /\ ~asked
  /\ request' = r
  /\ asked' = TRUE
  /\ UNCHANGED <<server, client, descVars, body, gone, unread, answerVars, child,
                 pipeVars, loopVars>>

\* One more byte of the body; the client need not send all it announced.
SendBody ==
  /\ Here /\ body < request.content_length
  /\ body' = body + 1
  /\ UNCHANGED <<server, client, descVars, request, asked, gone, unread, answerVars,
                 child, pipeVars, loopVars>>

\* The client reads something of what it was sent; it may never do so.
ReadAnswer ==
  /\ Here /\ unread > 0
  /\ unread' = unread - 1
  /\ UNCHANGED <<server, client, descVars, askVars, answerVars, child, pipeVars,
                 loopVars>>

Leave ==
  /\ Here
  /\ gone' = TRUE
  /\ UNCHANGED <<server, client, descVars, request, asked, body, unread, answerVars,
                 child, pipeVars, loopVars>>

Clients ==
  \/ \E c \in Conn : Connect(c)
  \/ \E r \in Request \cup {NoRequest} : SendRequest(r)
  \/ SendBody \/ ReadAnswer \/ Leave

------------------------------------------------------------------------------
(* main and accept_request.                                                *)

\* Descriptors in use; a running script's pipes have two ends here.
InUse ==
  Cardinality(held) + leaked + (IF child = "none" THEN 0 ELSE 2)
    + (IF server = "file" THEN 1 ELSE 0)
Free == Limit - InUse

Accept ==
  /\ server = "accept" /\ Free > 0
  /\ \E c \in backlog :
       /\ backlog' = backlog \ {c}
       /\ held' = held \cup {c}
       /\ client' = c
  /\ request' = NoRequest /\ asked' = FALSE
  /\ body' = 0 /\ gone' = FALSE /\ unread' = 0 /\ reply' = << >>
  /\ server' = "request"
  /\ UNCHANGED <<leaked, answer, child, pipeVars, loopVars>>

\* error_die("accept")
AcceptFails ==
  /\ server = "accept" /\ backlog # {} /\ Free = 0
  /\ server' = "exited"
  /\ UNCHANGED <<client, descVars, clientVars, answerVars, child, pipeVars,
                 loopVars>>

\* Mutant of Closed: close(client) is left out.
NotClosed == held

\* close(client) at the end of accept_request.
Closed == held \ {client}

\* send() blocks while the connection is full and the client there.
CanSend == gone \/ unread < SendSize

\* A send().  A client that is gone answers the first one with a reset, and the
\* next one is then killed by SIGPIPE.
Sent(next) ==
  /\ CanSend
  /\ unread' = IF gone THEN unread ELSE unread + 1
  /\ \/ server' = next
     \/ gone /\ server' = "killed"

\* The status lines of an answer and what goes with them are sent.
Send(status, next) ==
  /\ answer' = [answer EXCEPT ![client] = Append(@, status)]
  /\ Sent(next)

\* get_line has the request line, and the headers behind it, or the end of the
\* connection.
HaveRequest ==
  /\ server = "request"
  /\ asked \/ gone

\* 501: returns without close(client).
Unimplemented ==
  /\ HaveRequest
  /\ request.method = "other"
  /\ Send("501", "accept")
  /\ UNCHANGED <<client, descVars, askVars, reply, child, pipeVars, loopVars>>

\* Mutant of Missing: the result of stat() is not looked at.
StatIgnored == FALSE

Missing == request.target = "missing"

NotFound ==
  /\ HaveRequest
  /\ request.method # "other" /\ Missing
  /\ Send("404", "accept")
  /\ held' = Closed
  /\ UNCHANGED <<client, leaked, backlog, askVars, reply, child, pipeVars,
                 loopVars>>

\* A POST, and what may be executed.  (A query makes a script of a file too.)
Cgi == request.method = "POST" \/ request.target = "script"

OpenFails == request.target \in {"missing", "unreadable"} \/ Free = 0

\* serve_file sends the headers, and cat the lines behind them.
ServeFile ==
  /\ HaveRequest
  /\ request.method # "other" /\ ~Missing /\ ~Cgi
  /\ IF OpenFails
     THEN /\ Send("404", "killed")     \* fclose(NULL)
          /\ UNCHANGED lines
     ELSE /\ Send("200", "file")
          /\ lines' \in 0 .. MaxOutput
  /\ UNCHANGED <<client, descVars, askVars, reply, child, pipeVars, i, byte>>

SendLine ==
  /\ server = "file" /\ lines > 0
  /\ Sent("file")
  /\ lines' = lines - 1
  /\ UNCHANGED <<client, descVars, askVars, answerVars, child, pipeVars, i, byte>>

\* feof: fclose, and close(client) in accept_request.
FileEnds ==
  /\ server = "file" /\ lines = 0
  /\ server' = "accept"
  /\ held' = Closed
  /\ UNCHANGED <<client, leaked, backlog, clientVars, answerVars, child, pipeVars,
                 loopVars>>

------------------------------------------------------------------------------
(* execute_cgi.                                                            *)

WantsScript == HaveRequest /\ request.method # "other" /\ ~Missing /\ Cgi

BadRequest ==
  /\ WantsScript
  /\ request.method = "POST" /\ request.content_length = -1
  /\ Send("400", "accept")
  /\ held' = Closed
  /\ UNCHANGED <<client, leaked, backlog, askVars, reply, child, pipeVars,
                 loopVars>>

Executable == request.method = "GET" \/ request.content_length # -1

\* Pipe ends left open when pipe() or fork() fails: none or those of the first
\* pipe without descriptors for two, else all four and no process.
LeftOpen == IF Free < 2 THEN 0 ELSE IF Free < 4 THEN 2 ELSE 4

\* 200 OK is sent, but pipe() or fork() fails.
SetupFails ==
  /\ WantsScript /\ Executable
  /\ Send("200", "failed")
  /\ leaked' = leaked + LeftOpen
  /\ UNCHANGED <<client, held, backlog, askVars, reply, child, pipeVars, loopVars>>

CannotExecute ==
  /\ server = "failed"
  /\ Send("500", "accept")
  /\ held' = Closed
  /\ UNCHANGED <<client, leaked, backlog, askVars, reply, child, pipeVars,
                 loopVars>>

Execute ==
  /\ WantsScript /\ Executable /\ Free >= 4
  /\ Send("200", IF request.method = "POST" THEN "body" ELSE "output")
  /\ child' = "running"
  /\ cgi_input' = << >> /\ cgi_output' = << >>
  /\ stdin' = << >> /\ stdout' = 0
  /\ i' = 0 /\ byte' = 0
  /\ UNCHANGED <<client, descVars, askVars, reply, lines>>

\* Mutant of NextByte: recv() is asked for the byte behind the next.
ByteSkipped == i + 2

\* recv() of one byte; at the end of the connection c keeps what it holds.
NextByte == IF i < body THEN i + 1 ELSE byte

CanRecv == i < body \/ gone

MoreBody == i < request.content_length

PassByte ==
  /\ server = "body" /\ MoreBody
  /\ CanRecv
  /\ child # "ended" /\ Len(cgi_input) < PipeSize
  /\ byte' = NextByte
  /\ cgi_input' = Append(cgi_input, NextByte)
  /\ i' = i + 1
  /\ UNCHANGED <<server, client, descVars, clientVars, answerVars, child,
                 cgi_output, stdin, stdout, lines>>

\* The script has ended and with it the only reader of its input: SIGPIPE.
NobodyReads ==
  /\ server = "body" /\ MoreBody
  /\ CanRecv
  /\ child = "ended"
  /\ server' = "killed"
  /\ UNCHANGED <<client, descVars, clientVars, answerVars, child, pipeVars,
                 loopVars>>

BodyDone ==
  /\ server = "body" /\ ~MoreBody
  /\ server' = "output"
  /\ UNCHANGED <<client, descVars, clientVars, answerVars, child, pipeVars,
                 loopVars>>

\* read() returns a byte...
TakeOutput ==
  /\ server = "output" /\ cgi_output # << >>
  /\ byte' = Head(cgi_output)
  /\ cgi_output' = Tail(cgi_output)
  /\ server' = "send"
  /\ UNCHANGED <<client, descVars, clientVars, answerVars, child, cgi_input, stdin,
                 stdout, i, lines>>

\* ...and send() passes it on, when the client lets it.
PassOutput ==
  /\ server = "send"
  /\ Sent("output")
  /\ reply' = Append(reply, byte)
  /\ UNCHANGED <<client, descVars, askVars, answer, child, pipeVars, loopVars>>

\* Mutants of EndOfOutput: the server keeps its own cgi_output[1] open; and
\* leaves as soon as the pipe is empty.
NeverEnds == FALSE
EndsWhenEmpty == cgi_output = << >>

\* read() returns 0: the pipe is empty and the script has ended.
EndOfOutput == cgi_output = << >> /\ child = "ended"

OutputEnds ==
  /\ server = "output" /\ EndOfOutput
  /\ server' = "reap"
  /\ UNCHANGED <<client, descVars, clientVars, answerVars, child, pipeVars,
                 loopVars>>

\* waitpid, and close(client) in accept_request.
Reap ==
  /\ server = "reap" /\ child = "ended"
  /\ child' = "none"
  /\ held' = Closed
  /\ server' = "accept"
  /\ UNCHANGED <<client, leaked, backlog, clientVars, answerVars, pipeVars,
                 loopVars>>

Server ==
  \/ Accept \/ AcceptFails
  \/ Unimplemented \/ NotFound \/ ServeFile \/ SendLine \/ FileEnds \/ BadRequest
  \/ SetupFails \/ CannotExecute \/ Execute
  \/ PassByte \/ NobodyReads \/ BodyDone
  \/ TakeOutput \/ PassOutput \/ OutputEnds \/ Reap

------------------------------------------------------------------------------
(* The script.                                                             *)

\* It calls read() on its standard input...
ScriptReads ==
  /\ Alive /\ child = "running" /\ request.target = "script"
  /\ child' = "reading"
  /\ UNCHANGED <<server, client, descVars, clientVars, answerVars, pipeVars,
                 loopVars>>

\* ...and gets a byte.  It never gets the end: the server closes cgi_input[1]
\* only after the script has ended.
ScriptGets ==
  /\ Alive /\ child = "reading" /\ cgi_input # << >>
  /\ child' = "running"
  /\ stdin' = Append(stdin, Head(cgi_input))
  /\ cgi_input' = Tail(cgi_input)
  /\ UNCHANGED <<server, client, descVars, clientVars, answerVars, cgi_output,
                 stdout, loopVars>>

ScriptWrites ==
  /\ Alive /\ child = "running" /\ request.target = "script"
  /\ stdout < MaxOutput
  /\ child' = "writing"
  /\ UNCHANGED <<server, client, descVars, clientVars, answerVars, pipeVars,
                 loopVars>>

\* write() blocks while the pipe is full.
ScriptPuts ==
  /\ Alive /\ child = "writing" /\ Len(cgi_output) < PipeSize
  /\ child' = "running"
  /\ cgi_output' = Append(cgi_output, stdout + 1)
  /\ stdout' = stdout + 1
  /\ UNCHANGED <<server, client, descVars, clientVars, answerVars, cgi_input,
                 stdin, loopVars>>

\* The end of the script, and of the child when execl() fails.
ScriptEnds ==
  /\ Alive /\ child = "running"
  /\ child' = "ended"
  /\ UNCHANGED <<server, client, descVars, clientVars, answerVars, pipeVars,
                 loopVars>>

Script ==
  ScriptReads \/ ScriptGets \/ ScriptWrites \/ ScriptPuts \/ ScriptEnds

Next == Clients \/ Server \/ Script

Spec == Init /\ [][Next]_vars

\* The kernel schedules both processes; clients owe nothing.
FairSpec == Spec /\ WF_vars(Server) /\ WF_vars(Script)

------------------------------------------------------------------------------
Bytes == Seq(0 .. MaxBody + MaxOutput)

TypeOK ==
  /\ server \in {"accept", "request", "file", "failed", "body", "output", "send",
                 "reap", "exited", "killed"}
  /\ client \in Conn \cup {NoClient}
  /\ held \in SUBSET Conn /\ leaked \in 0 .. Limit /\ InUse <= Limit
  /\ backlog \in SUBSET Conn
  /\ request \in Request \cup {NoRequest}
  /\ asked \in BOOLEAN /\ gone \in BOOLEAN
  /\ body \in 0 .. MaxBody /\ unread \in 0 .. SendSize
  /\ answer \in [Conn -> Seq({"200", "400", "404", "500", "501"})]
  /\ reply \in Bytes
  /\ child \in {"none", "running", "reading", "writing", "ended"}
  /\ cgi_input \in Bytes /\ Len(cgi_input) <= PipeSize
  /\ cgi_output \in Bytes /\ Len(cgi_output) <= PipeSize
  /\ i \in 0 .. MaxBody /\ byte \in 0 .. MaxBody + MaxOutput
  /\ lines \in 0 .. MaxOutput
  /\ stdin \in Bytes /\ stdout \in 0 .. MaxOutput

(***************************************************************************)
(* Between two requests the server holds no descriptor but those of the    *)
(* clients it answered 501 (line 67), and pipe ends only if pipe() or      *)
(* fork() has failed (lines 243-251): every other way through              *)
(* accept_request and execute_cgi closes what it opened.                   *)
(***************************************************************************)
NothingHeldBetween ==
  server = "accept" =>
    /\ child = "none"
    /\ \A c \in held : answer[c] = <<"501">>
    /\ leaked > 0 => \E c \in Conn : answer[c] = <<"200", "500">>

(***************************************************************************)
(* The script reads the body its client sent, byte by byte; of a client    *)
(* that is gone before its body is through it reads the last byte again,   *)
(* or, when there was none, what c happened to hold (lines 278-281).       *)
(***************************************************************************)
BodyAsSent ==
  child # "none" =>
    \A k \in 1 .. Len(stdin) :
      /\ stdin[k] = IF k <= body THEN k ELSE body
      /\ k > body => gone

(***************************************************************************)
(* When the server is through with a script its client has been sent all   *)
(* that the script wrote, in order (lines 282-283).                        *)
(***************************************************************************)
ReplyComplete ==
  server \in {"accept", "reap"} /\ client # NoClient =>
    (Cgi /\ answer[client] = <<"200">>
       => reply = [k \in 1 .. stdout |-> k])

(***************************************************************************)
(* A signal ends the server only when it writes to a client that is gone   *)
(* or to a script that has ended before its body, or when it closes a file *)
(* it could not open (lines 279-283, 402-410).                             *)
(***************************************************************************)
KilledForAReason ==
  server = "killed" =>
    \/ gone
    \/ child = "ended" /\ i < request.content_length
    \/ request.target # "missing" /\ answer[client] = <<"404">>

(***************************************************************************)
(* The server comes back to accept() again and again, unless it waits for  *)
(* ever: for a client that sends no request or less body than it said, for *)
(* a client that does not read what it is sent (lines 161, 176, 283), for  *)
(* a script that reads its input to the end, or, with both pipes full,     *)
(* with the script for each other (lines 278-287).                         *)
(***************************************************************************)
ComesBack ==
  \/ []<>(server = "accept" \/ ~Alive)
  \/ <>[](server = "request" /\ ~asked /\ ~gone)
  \/ <>[](server = "body" /\ ~CanRecv)
  \/ <>[](server \in {"file", "failed", "send"} /\ ~gone /\ unread = SendSize)
  \/ <>[](server = "output" /\ child = "reading")
  \/ <>[](/\ server = "body" /\ Len(cgi_input) = PipeSize
          /\ child = "writing" /\ Len(cgi_output) = PipeSize)

==============================================================================
