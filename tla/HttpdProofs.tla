----------------------------- MODULE HttpdProofs ------------------------------
(***************************************************************************)
(* For any number of clients and descriptors, any size of the pipes, any   *)
(* body and any output: what httpd.c holds between two requests, what its  *)
(* scripts read and its clients get, and what a signal that ends it is     *)
(* answered to.  For buffers of any size: what it takes of a request, and  *)
(* what it sends of a file.                                                *)
(***************************************************************************)
EXTENDS Httpd, HttpdRequest, FiniteSetTheorems, SequenceTheorems, WellFoundedInduction,
        TLAPS

InScript == {"body", "output", "send", "reap"}
Answering == {"file", "failed"}

\* What accept_request and execute_cgi rely on: a script runs from fork() to
\* waitpid(), for a client whose descriptor is open; only an ended one is
\* waited for.
ChildInv ==
  /\ server \in {"accept", "request"} \cup Answering => child = "none"
  /\ server \in InScript => child # "none"
  /\ server \in Answering \cup InScript => asked \/ gone
  /\ server = "reap" => child = "ended" /\ cgi_output = << >>
  /\ server \in {"request"} \cup Answering \cup InScript => client \in held

\* What each client was answered: those in the backlog nothing, those that are
\* held 501, and the current one 200 once its file is open or its script should run.
AnswerInv ==
  /\ backlog \cap held = {}
  /\ \A c \in backlog : answer[c] = << >>
  /\ server = "request" => answer[client] = << >> /\ reply = << >>
  /\ server \in Answering \cup InScript => answer[client] = <<"200">>
  /\ server = "file" => ~Cgi
  /\ \A c \in held :
       \/ answer[c] = <<"501">>
       \/ c = client /\ server # "accept"
  /\ leaked > 0 /\ server \notin {"failed", "killed"} =>
       \E c \in Conn : answer[c] = <<"200", "500">>

\* Byte k of what the script has read or will read.
Passed(b, k) == b = (IF k <= body THEN k ELSE body) /\ (k > body => gone)

\* The bytes passed to a script are in its hands or in the pipe, and c still
\* holds the last one.
InputInv ==
  child # "none" =>
    /\ i = Len(stdin) + Len(cgi_input)
    /\ \A k \in 1 .. Len(stdin) : Passed(stdin[k], k)
    /\ \A k \in 1 .. Len(cgi_input) : Passed(cgi_input[k], Len(stdin) + k)
    /\ server = "body" => Passed(byte, i)

\* The bytes the script has written have been sent, are in c or in the pipe.
InHand == IF server = "send" THEN 1 ELSE 0

OutputInv ==
  child # "none" =>
    /\ child = "writing" => stdout < MaxOutput
    /\ stdout = Len(reply) + InHand + Len(cgi_output)
    /\ \A k \in 1 .. Len(reply) : reply[k] = k
    /\ server = "send" => byte = Len(reply) + 1
    /\ \A k \in 1 .. Len(cgi_output) : cgi_output[k] = Len(reply) + InHand + k

HttpdInv ==
  /\ TypeOK /\ IsFiniteSet(held)
  /\ ChildInv /\ AnswerInv /\ InputInv /\ OutputInv
  /\ ReplyComplete /\ KilledForAReason

LEMMA RequestFacts ==
  ASSUME NEW r \in Request \cup {NoRequest}
  PROVE  /\ r.content_length \in Int /\ r.content_length <= MaxBody
         /\ r.method \in {"GET", "POST", "other"}
         /\ r.target \in {"missing", "file", "unreadable", "script"}
<1>1. CASE r \in [method : {"GET"}, target : {"missing", "file", "unreadable", "script"},
                  content_length : {-1}]
  <2>1. r.content_length = -1
    BY <1>1
  <2> QED
    BY <1>1, <2>1, HttpdAssumption
<1>2. CASE r \in [method : {"POST"}, target : {"missing", "file", "script"},
                  content_length : -1 .. MaxBody]
  <2>1. r.content_length \in -1 .. MaxBody
    BY <1>2
  <2> QED
    BY <1>2, <2>1, HttpdAssumption
<1>3. CASE r = NoRequest
  <2>1. r.content_length = -1 /\ r.method = "other" /\ r.target = "missing"
    BY <1>3 DEF NoRequest
  <2> QED
    BY <2>1, HttpdAssumption
<1> QED
  BY <1>1, <1>2, <1>3 DEF Request

\* The set of descriptors grows and shrinks by one.
LEMMA HeldFacts ==
  ASSUME IsFiniteSet(held)
  PROVE  /\ Cardinality(held) \in Nat
         /\ \A c \in Conn \ held : /\ IsFiniteSet(held \cup {c})
                                  /\ Cardinality(held \cup {c}) = Cardinality(held) + 1
         /\ IsFiniteSet(Closed) /\ Cardinality(Closed) \in Nat
         /\ Cardinality(Closed) <= Cardinality(held)
<1>1. Cardinality(held) \in Nat
  BY FS_CardinalityType
<1>2. ASSUME NEW c \in Conn \ held
      PROVE  /\ IsFiniteSet(held \cup {c})
             /\ Cardinality(held \cup {c}) = Cardinality(held) + 1
  BY <1>2, FS_AddElement
<1>3. /\ IsFiniteSet(Closed) /\ Cardinality(Closed) \in Nat
      /\ Cardinality(Closed) <= Cardinality(held)
  BY FS_Subset, FS_CardinalityType, Closed \subseteq held DEF Closed
<1> QED
  BY <1>1, <1>2, <1>3

LEMMA HttpdInit == Init => HttpdInv
<1> SUFFICES ASSUME Init PROVE HttpdInv
  OBVIOUS
<1> USE HttpdAssumption DEF Init
<1>1. IsFiniteSet(held) /\ Cardinality(held) = 0
  BY FS_EmptySet
<1>2. TypeOK
  <2>1. InUse = 0 /\ leaked \in 0 .. Limit
    BY <1>1 DEF InUse
  <2>2. /\ 0 \in 0 .. MaxBody /\ 0 \in 0 .. MaxOutput /\ InUse <= Limit
        /\ 0 \in 0 .. SendSize /\ 0 \in 0 .. MaxBody + MaxOutput
    BY <2>1
  <2>3. << >> \in Bytes /\ Len(<< >>) <= PipeSize
    BY DEF Bytes
  <2>4. answer \in [Conn -> Seq({"200", "400", "404", "500", "501"})]
    OBVIOUS
  <2> QED
    BY <2>1, <2>2, <2>3, <2>4 DEF TypeOK
<1>3. ChildInv /\ AnswerInv /\ InputInv /\ OutputInv
  BY DEF ChildInv, AnswerInv, InputInv, OutputInv, InScript, Answering
<1> QED
  BY <1>1, <1>2, <1>3 DEF HttpdInv, ReplyComplete, KilledForAReason

------------------------------------------------------------------------------
(* Types.                                                                  *)

LEMMA TypeClients ==
  ASSUME HttpdInv, Clients
  PROVE  TypeOK' /\ IsFiniteSet(held')
<1> USE HttpdAssumption DEF HttpdInv, TypeOK, InUse
<1>1. ASSUME NEW c \in Conn, Connect(c) PROVE TypeOK' /\ IsFiniteSet(held')
  BY <1>1 DEF Connect, askVars, clientVars, answerVars, pipeVars, loopVars
<1>2. ASSUME NEW r \in Request \cup {NoRequest}, SendRequest(r)
      PROVE  TypeOK' /\ IsFiniteSet(held')
  BY <1>2 DEF SendRequest, descVars, answerVars, pipeVars, loopVars
<1>3. CASE SendBody
  <2>1. request.content_length \in Int /\ request.content_length <= MaxBody
    BY RequestFacts
  <2> QED
    BY <1>3, <2>1 DEF SendBody, descVars, answerVars, pipeVars, loopVars
<1>4. CASE Leave
  BY <1>4 DEF Leave, descVars, answerVars, pipeVars, loopVars
<1>5. CASE ReadAnswer
  BY <1>5 DEF ReadAnswer, descVars, askVars, answerVars, pipeVars, loopVars
<1> QED
  BY <1>1, <1>2, <1>3, <1>4, <1>5 DEF Clients

\* A send() leaves no more in the connection than it holds.
LEMMA SentType ==
  ASSUME HttpdInv, NEW next, Sent(next)
  PROVE  unread' \in 0 .. SendSize /\ server' \in {next, "killed"}
BY HttpdAssumption DEF Sent, CanSend, HttpdInv, TypeOK

\* An answer is one status line more, in whatever state the server goes on.
LEMMA SendType ==
  ASSUME HttpdInv, client \in Conn,
         NEW status \in {"200", "400", "404", "500", "501"},
         NEW next, Send(status, next)
  PROVE  /\ answer' \in [Conn -> Seq({"200", "400", "404", "500", "501"})]
         /\ unread' \in 0 .. SendSize
         /\ server' \in {next, "killed"}
<1>1. answer[client] \in Seq({"200", "400", "404", "500", "501"})
  BY DEF HttpdInv, TypeOK
<1>2. Append(answer[client], status) \in Seq({"200", "400", "404", "500", "501"})
  BY <1>1
<1> QED
  BY <1>2, SentType DEF Send, HttpdInv, TypeOK

LEMMA TypeAnswers ==
  ASSUME HttpdInv,
         \/ Unimplemented \/ NotFound \/ ServeFile \/ BadRequest
         \/ SetupFails \/ CannotExecute \/ Execute
  PROVE  TypeOK' /\ IsFiniteSet(held')
<1> USE HttpdAssumption DEF HttpdInv
<1>1. server \in {"request", "failed"} /\ client \in Conn /\ client \in held /\ child = "none"
  BY DEF Unimplemented, NotFound, ServeFile, BadRequest, SetupFails, CannotExecute, Execute,
         WantsScript, HaveRequest, ChildInv, TypeOK, InScript, Answering
<1>2. /\ held' \in {held, Closed} /\ held' \in SUBSET Conn
      /\ UNCHANGED <<client, backlog, askVars, reply>>
  BY DEF Unimplemented, NotFound, ServeFile, BadRequest, SetupFails, CannotExecute, Execute,
         descVars, TypeOK, Closed
<1>3. /\ answer' \in [Conn -> Seq({"200", "400", "404", "500", "501"})]
      /\ unread' \in 0 .. SendSize
      /\ server' \in {"accept", "file", "failed", "body", "output", "killed"}
  BY <1>1, SendType
  DEF Unimplemented, NotFound, ServeFile, BadRequest, SetupFails, CannotExecute, Execute
<1>4. /\ IsFiniteSet(held') /\ Cardinality(held') \in Nat
      /\ Cardinality(held') <= Cardinality(held) /\ Cardinality(held) \in Nat
  BY <1>2, HeldFacts
<1>5. CASE Execute
  <2>0. server' # "file"
    BY <1>5 DEF Execute, Send, Sent
  <2>1. InUse' <= Limit /\ leaked' \in 0 .. Limit
    BY <1>1, <1>4, <1>5, <2>0 DEF Execute, Free, InUse, TypeOK, descVars
  <2>2. << >> \in Bytes /\ Len(<< >>) <= PipeSize /\ 0 \in 0 .. MaxBody
        /\ 0 \in 0 .. MaxOutput /\ 0 \in 0 .. MaxBody + MaxOutput
    BY DEF Bytes
  <2> QED
    BY <1>1, <1>2, <1>3, <1>4, <1>5, <2>1, <2>2
    DEF Execute, TypeOK, Bytes, askVars
<1>6. CASE SetupFails
  <2>0. server' # "file"
    BY <1>6 DEF SetupFails, Send, Sent
  <2>1. leaked' \in 0 .. Limit /\ InUse' <= Limit
    BY <1>1, <1>4, <1>6, <2>0 DEF SetupFails, Free, InUse, LeftOpen, TypeOK
  <2> QED
    BY <1>1, <1>2, <1>3, <1>4, <1>6, <2>1
    DEF SetupFails, TypeOK, Bytes, askVars, pipeVars, loopVars
<1>7. CASE Unimplemented \/ NotFound \/ BadRequest \/ CannotExecute
  <2>0. server' # "file"
    BY <1>7 DEF Unimplemented, NotFound, BadRequest, CannotExecute, Send, Sent
  <2>1. UNCHANGED <<leaked, child, pipeVars, loopVars>>
    BY <1>7 DEF Unimplemented, NotFound, BadRequest, CannotExecute, descVars
  <2>2. leaked' \in 0 .. Limit /\ InUse' <= Limit
    BY <1>4, <2>0, <2>1 DEF InUse, TypeOK
  <2> QED
    BY <1>1, <1>2, <1>3, <1>4, <2>1, <2>2
    DEF TypeOK, Bytes, askVars, pipeVars, loopVars
<1>8. CASE ServeFile
  <2>1. UNCHANGED <<held, leaked, child, pipeVars, i, byte>> /\ lines' \in 0 .. MaxOutput
    BY <1>8 DEF ServeFile, descVars, TypeOK
  <2>2. OpenFails => server' # "file"
    BY <1>8 DEF ServeFile, Send, Sent
  <2>3. leaked' \in 0 .. Limit /\ InUse' <= Limit
    BY <1>1, <1>4, <2>1, <2>2 DEF InUse, TypeOK, OpenFails, Free
  <2> QED
    BY <1>1, <1>2, <1>3, <1>4, <2>1, <2>3
    DEF TypeOK, Bytes, askVars, pipeVars
<1> QED
  BY <1>5, <1>6, <1>7, <1>8

LEMMA TypeFile ==
  ASSUME HttpdInv, SendLine \/ FileEnds
  PROVE  TypeOK' /\ IsFiniteSet(held')
<1> USE HttpdAssumption DEF HttpdInv, TypeOK
<1>1. CASE SendLine
  <2>1. /\ unread' \in 0 .. SendSize /\ server' \in {"file", "killed"} /\ server = "file"
        /\ lines' \in 0 .. MaxOutput
        /\ UNCHANGED <<client, descVars, askVars, answerVars, child, pipeVars, i, byte>>
    BY <1>1, SentType DEF SendLine
  <2>2. InUse' <= Limit
    BY <2>1, HeldFacts DEF InUse, descVars
  <2> QED
    BY <2>1, <2>2 DEF descVars, askVars, answerVars, pipeVars
<1>2. CASE FileEnds
  <2>1. IsFiniteSet(held') /\ Cardinality(held') \in Nat /\ held' \subseteq held
        /\ Cardinality(held') <= Cardinality(held) /\ Cardinality(held) \in Nat
    BY <1>2, HeldFacts DEF FileEnds, Closed
  <2>2. InUse' <= Limit
    BY <1>2, <2>1 DEF FileEnds, InUse
  <2> QED
    BY <1>2, <2>1, <2>2 DEF FileEnds, clientVars, askVars, answerVars, pipeVars, loopVars
<1> QED
  BY <1>1, <1>2

LEMMA TypeServer ==
  ASSUME HttpdInv,
         Accept \/ AcceptFails \/ PassByte \/ NobodyReads \/ BodyDone
           \/ TakeOutput \/ PassOutput \/ OutputEnds \/ Reap
  PROVE  TypeOK' /\ IsFiniteSet(held')
<1> USE HttpdAssumption DEF HttpdInv, TypeOK
<1>1. CASE Accept
  <2>1. PICK c \in backlog : backlog' = backlog \ {c} /\ held' = held \cup {c} /\ client' = c
    BY <1>1 DEF Accept
  <2>2. c \in Conn \ held
    BY <2>1 DEF AnswerInv
  <2>3. IsFiniteSet(held') /\ Cardinality(held') = Cardinality(held) + 1
        /\ Cardinality(held) \in Nat
    BY <2>1, <2>2, HeldFacts
  <2>4. InUse' <= Limit
    BY <1>1, <2>3 DEF Accept, Free, InUse
  <2>5. /\ 0 \in 0 .. MaxBody /\ << >> \in Bytes /\ 0 \in 0 .. SendSize
        /\ NoRequest \in Request \cup {NoRequest}
    BY DEF Bytes
  <2>6. /\ server' = "request" /\ request' = NoRequest /\ asked' = FALSE
        /\ body' = 0 /\ gone' = FALSE /\ unread' = 0 /\ reply' = << >>
        /\ UNCHANGED <<leaked, answer, child, pipeVars, loopVars>>
    BY <1>1 DEF Accept
  <2> QED
    BY <2>1, <2>2, <2>3, <2>4, <2>5, <2>6 DEF Bytes, pipeVars, loopVars
<1>2. CASE PassByte
  <2>1. NextByte \in 0 .. MaxBody + MaxOutput /\ i' \in 0 .. MaxBody
    BY <1>2, RequestFacts DEF PassByte, MoreBody, NextByte
  <2>2. cgi_input' \in Bytes /\ Len(cgi_input') <= PipeSize
    BY <1>2, <2>1 DEF PassByte, Bytes
  <2> QED
    BY <1>2, <2>1, <2>2 DEF PassByte, InUse, descVars, clientVars, askVars, answerVars
<1>3. CASE PassOutput
  <2>1. reply' \in Bytes
    BY <1>3 DEF PassOutput, Bytes
  <2>2. server' \in {"output", "killed"} /\ unread' \in 0 .. SendSize
    BY <1>3, SentType DEF PassOutput
  <2> QED
    BY <1>3, <2>1, <2>2 DEF PassOutput, InUse, descVars, askVars, pipeVars, loopVars
<1>6. CASE TakeOutput
  <2>1. /\ cgi_output' \in Bytes /\ Len(cgi_output') <= PipeSize
        /\ byte' \in 0 .. MaxBody + MaxOutput
    BY <1>6 DEF TakeOutput, Bytes
  <2> QED
    BY <1>6, <2>1 DEF TakeOutput, InUse, descVars, clientVars, askVars, answerVars
<1>4. CASE Reap
  <2>1. IsFiniteSet(held') /\ Cardinality(held') \in Nat /\ held' \subseteq held
        /\ Cardinality(held') <= Cardinality(held) /\ Cardinality(held) \in Nat
    BY <1>4, HeldFacts DEF Reap, Closed
  <2>2. InUse' <= Limit
    BY <1>4, <2>1 DEF Reap, InUse
  <2> QED
    BY <1>4, <2>1, <2>2 DEF Reap, clientVars, askVars, answerVars, pipeVars, loopVars
<1>5. CASE AcceptFails \/ NobodyReads \/ BodyDone \/ OutputEnds
  BY <1>5 DEF AcceptFails, NobodyReads, BodyDone, OutputEnds, InUse,
              descVars, clientVars, askVars, answerVars, pipeVars, loopVars
<1> QED
  BY <1>1, <1>2, <1>3, <1>4, <1>5, <1>6

LEMMA TypeScript ==
  ASSUME HttpdInv, Script
  PROVE  TypeOK' /\ IsFiniteSet(held')
<1> USE HttpdAssumption DEF HttpdInv, TypeOK, InUse
<1>1. CASE ScriptGets
  <2>1. cgi_input' \in Bytes /\ Len(cgi_input') <= PipeSize /\ stdin' \in Bytes
    BY <1>1 DEF ScriptGets, Bytes
  <2> QED
    BY <1>1, <2>1 DEF ScriptGets, descVars, clientVars, askVars, answerVars, loopVars
<1>2. CASE ScriptPuts
  <2>1. stdout + 1 \in 0 .. MaxOutput
    BY <1>2 DEF ScriptPuts, OutputInv
  <2>2. cgi_output' \in Bytes /\ Len(cgi_output') <= PipeSize
    BY <1>2, <2>1 DEF ScriptPuts, Bytes
  <2> QED
    BY <1>2, <2>1, <2>2 DEF ScriptPuts, descVars, clientVars, askVars, answerVars, loopVars
<1>3. CASE ScriptReads \/ ScriptWrites \/ ScriptEnds
  BY <1>3 DEF ScriptReads, ScriptWrites, ScriptEnds, descVars, clientVars, askVars,
              answerVars, pipeVars, loopVars
<1> QED
  BY <1>1, <1>2, <1>3 DEF Script

LEMMA TypeStep == HttpdInv /\ [Next]_vars => TypeOK' /\ IsFiniteSet(held')
<1>1. ASSUME HttpdInv, UNCHANGED vars PROVE TypeOK' /\ IsFiniteSet(held')
  BY <1>1 DEF HttpdInv, TypeOK, InUse, vars, descVars, clientVars, askVars, answerVars,
              pipeVars, loopVars
<1> QED
  BY <1>1, TypeClients, TypeAnswers, TypeFile, TypeServer, TypeScript DEF Next, Server

------------------------------------------------------------------------------
(* The script's life, and what the clients were answered.                  *)

LEMMA ChildStep == HttpdInv /\ [Next]_vars => ChildInv'
<1> SUFFICES ASSUME HttpdInv, [Next]_vars PROVE ChildInv'
  OBVIOUS
<1> USE DEF HttpdInv, ChildInv, InScript, Answering
<1>1. CASE Clients
  BY <1>1 DEF Clients, Connect, SendRequest, SendBody, ReadAnswer, Leave, Here, clientVars,
              askVars, descVars, pipeVars
<1>2. CASE Accept \/ AcceptFails
  BY <1>2 DEF Accept, AcceptFails, clientVars, askVars, descVars, pipeVars
<1>3. CASE Unimplemented \/ NotFound \/ BadRequest \/ CannotExecute \/ FileEnds
  <2>1. server' \in {"accept", "killed"}
    BY <1>3 DEF Unimplemented, NotFound, BadRequest, CannotExecute, FileEnds, Send, Sent
  <2>2. child' = "none"
    BY <1>3 DEF Unimplemented, NotFound, BadRequest, CannotExecute, FileEnds,
                WantsScript, HaveRequest
  <2> QED
    BY <2>1, <2>2
<1>4. CASE Execute
  BY <1>4 DEF Execute, WantsScript, HaveRequest, Send, Sent, askVars, descVars
<1>5. CASE PassByte \/ NobodyReads \/ BodyDone
  BY <1>5 DEF PassByte, NobodyReads, BodyDone, clientVars, askVars, descVars, pipeVars
<1>6. CASE TakeOutput \/ PassOutput \/ OutputEnds \/ Reap
  BY <1>6 DEF TakeOutput, PassOutput, Sent, OutputEnds, EndOfOutput, Reap, clientVars,
              askVars, descVars, pipeVars
<1>7. CASE Script
  BY <1>7 DEF Script, ScriptReads, ScriptGets, ScriptWrites, ScriptPuts, ScriptEnds,
              Alive, clientVars, askVars, descVars, pipeVars
<1>8. CASE UNCHANGED vars
  BY <1>8 DEF vars, clientVars, askVars, descVars, pipeVars
<1>9. CASE ServeFile \/ SetupFails \/ SendLine
  <2>1. server' \in {"file", "failed", "killed"} /\ server \in {"request", "file"}
    BY <1>9 DEF ServeFile, SetupFails, SendLine, Send, Sent, WantsScript, HaveRequest
  <2>2. child' = child /\ client' = client /\ held' = held /\ (asked' \/ gone')
    BY <1>9 DEF ServeFile, SetupFails, SendLine, descVars, askVars, WantsScript, HaveRequest
  <2> QED
    BY <2>1, <2>2
<1> QED
  BY <1>1, <1>2, <1>3, <1>4, <1>5, <1>6, <1>7, <1>8, <1>9 DEF Next, Server

LEMMA AppendedIs ==
  ASSUME NEW S, NEW s \in Seq(S), NEW b \in S
  PROVE  /\ Append(s, b) \in Seq(S) /\ Len(Append(s, b)) = Len(s) + 1
         /\ \A k \in 1 .. Len(s) : Append(s, b)[k] = s[k]
         /\ Append(s, b)[Len(s) + 1] = b
OBVIOUS

LEMMA AppendTwo ==
  ASSUME NEW S, NEW a \in S, NEW b \in S
  PROVE  Append(<<a>>, b) = <<a, b>>
<1> DEFINE s == <<a>>
           t == Append(s, b)
<1>1. s \in Seq(S)
  OBVIOUS
<1>2. Len(s) = 1 /\ s[1] = a
  OBVIOUS
<1> HIDE DEF s
<1>3. /\ t \in Seq(S) /\ Len(t) = Len(s) + 1
      /\ \A k \in 1 .. Len(s) : t[k] = s[k]
      /\ t[Len(s) + 1] = b
  BY <1>1, AppendedIs
<1> HIDE DEF t
<1>4. Len(t) = 2 /\ t[1] = a /\ t[2] = b
  BY <1>2, <1>3
<1>5. \A u \in Seq(S) : Len(u) = 2 /\ u[1] = a /\ u[2] = b => u = <<a, b>>
  OBVIOUS
<1> QED
  BY <1>3, <1>4, <1>5 DEF s, t

LEMMA AnswerStep == HttpdInv /\ [Next]_vars => AnswerInv'
<1> SUFFICES ASSUME HttpdInv, [Next]_vars PROVE AnswerInv'
  OBVIOUS
<1> USE DEF HttpdInv, AnswerInv, InScript, Answering
<1>1. CASE Clients
  <2>1. UNCHANGED <<server, client, held, leaked, answer, reply>>
    BY <1>1 DEF Clients, Connect, SendRequest, SendBody, ReadAnswer, Leave,
                descVars, answerVars
  <2>2. \/ backlog' = backlog
        \/ \E c \in Conn : c \notin held /\ answer[c] = << >> /\ backlog' = backlog \cup {c}
    BY <1>1 DEF Clients, Connect, SendRequest, SendBody, ReadAnswer, Leave, descVars
  <2>3. server = "file" => request' = request
    BY <1>1 DEF Clients, Connect, SendRequest, SendBody, ReadAnswer, Leave, Here, clientVars,
                askVars, ChildInv, InScript
  <2> QED
    BY <2>1, <2>2, <2>3 DEF Cgi
<1>2. CASE Accept
  BY <1>2 DEF Accept
<1>3. CASE AcceptFails
  BY <1>3 DEF AcceptFails, descVars, answerVars
<1>4. CASE \/ Unimplemented \/ NotFound \/ ServeFile \/ BadRequest
           \/ SetupFails \/ CannotExecute \/ Execute
  <2>1. /\ server \in {"request", "failed"} /\ client \in held /\ client \in Conn
        /\ answer[client] = IF server = "request" THEN << >> ELSE <<"200">>
        /\ backlog' = backlog /\ client' = client /\ held' \in {held, Closed}
        /\ \A c \in Conn \ {client} : answer'[c] = answer[c]
        /\ request' = request
    BY <1>4 DEF Unimplemented, NotFound, ServeFile, BadRequest, SetupFails, CannotExecute,
                Execute, WantsScript, HaveRequest, Send, ChildInv, TypeOK, descVars, askVars
  <2>2. \A c \in backlog' : answer'[c] = << >>
    BY <2>1 DEF TypeOK
  <2>3. server = "request" /\ leaked > 0 => \E c \in Conn : answer'[c] = <<"200", "500">>
    <3>1. << >> # <<"200", "500">>
      OBVIOUS
    <3> QED
      BY <2>1, <3>1
  <2>4. CASE Unimplemented
    <3>1. server' \in {"accept", "killed"} /\ answer'[client] = <<"501">> /\ leaked' = leaked
          /\ server = "request"
      BY <2>1, <2>4 DEF Unimplemented, HaveRequest, Send, Sent, TypeOK, descVars
    <3>2. held' = held
      BY <2>4 DEF Unimplemented, descVars
    <3> QED
      BY <2>1, <2>2, <2>3, <3>1, <3>2 DEF TypeOK
  <2>5. CASE Execute
    <3>1. server' \in {"body", "output", "killed"} /\ answer'[client] = <<"200">>
          /\ leaked' = leaked /\ held' = held /\ server = "request"
      BY <2>1, <2>5 DEF Execute, WantsScript, HaveRequest, Send, Sent, TypeOK, descVars
    <3> QED
      BY <2>1, <2>2, <2>3, <3>1 DEF TypeOK
  <2>6. CASE CannotExecute
    <3>1. server' \in {"accept", "killed"} /\ answer'[client] = <<"200", "500">>
          /\ held' = Closed
      <4>1. server = "failed" /\ answer[client] = <<"200">>
        BY <2>1, <2>6 DEF CannotExecute
      <4>2. Append(<<"200">>, "500") = <<"200", "500">>
        <5>1. "200" \in {"200", "500"} /\ "500" \in {"200", "500"}
          OBVIOUS
        <5> QED
          BY <5>1, AppendTwo, Zenon
      <4> QED
        BY <2>1, <2>6, <4>1, <4>2 DEF CannotExecute, Send, Sent, TypeOK
    <3> QED
      BY <2>1, <2>2, <3>1 DEF TypeOK, Closed
  <2>7. CASE NotFound \/ BadRequest
    <3>1. /\ server' \in {"accept", "killed"} /\ leaked' = leaked
          /\ server' = "accept" => held' = Closed
          /\ server = "request"
      BY <2>7 DEF NotFound, BadRequest, WantsScript, HaveRequest, Send, Sent
    <3> QED
      BY <2>1, <2>2, <2>3, <3>1 DEF TypeOK, Closed
  <2>8. CASE ServeFile
    <3>1. /\ server' \in {"file", "killed"} /\ leaked' = leaked /\ held' = held
          /\ server' = "file" => answer'[client] = <<"200">>
          /\ server = "request" /\ ~Cgi
      BY <2>1, <2>8 DEF ServeFile, HaveRequest, Send, Sent, TypeOK, descVars
    <3> QED
      BY <2>1, <2>2, <2>3, <3>1 DEF TypeOK, Cgi
  <2>9. CASE SetupFails
    <3>1. server' \in {"failed", "killed"} /\ answer'[client] = <<"200">>
          /\ held' = held /\ server = "request"
      BY <2>1, <2>9 DEF SetupFails, WantsScript, HaveRequest, Send, Sent, TypeOK
    <3> QED
      BY <2>1, <2>2, <3>1 DEF TypeOK
  <2> QED
    BY <1>4, <2>4, <2>5, <2>6, <2>7, <2>8, <2>9
<1>5. CASE PassByte \/ NobodyReads \/ BodyDone \/ TakeOutput \/ OutputEnds
  BY <1>5 DEF PassByte, NobodyReads, BodyDone, TakeOutput, OutputEnds, clientVars, descVars,
              answerVars
<1>6. CASE PassOutput
  BY <1>6 DEF PassOutput, Sent, descVars
<1>7. CASE Reap
  BY <1>7 DEF Reap, Closed, answerVars
<1>8. CASE Script
  BY <1>8 DEF Script, ScriptReads, ScriptGets, ScriptWrites, ScriptPuts, ScriptEnds,
              descVars, clientVars, askVars, answerVars, Cgi
<1>9. CASE UNCHANGED vars
  BY <1>9 DEF vars, descVars, clientVars, askVars, answerVars, Cgi
<1>10. CASE SendLine
  BY <1>10 DEF SendLine, Sent, descVars, answerVars, askVars, Cgi
<1>11. CASE FileEnds
  BY <1>11 DEF FileEnds, Closed, answerVars
<1> QED
  BY <1>1, <1>2, <1>3, <1>4, <1>5, <1>6, <1>7, <1>8, <1>9, <1>10, <1>11 DEF Next, Server

------------------------------------------------------------------------------
(* The bytes of the body and of the output.                                *)

LEMMA InputStep == HttpdInv /\ [Next]_vars => InputInv'
<1> SUFFICES ASSUME HttpdInv, [Next]_vars PROVE InputInv'
  OBVIOUS
<1> USE DEF HttpdInv
<1> USE HttpdAssumption
<1>1. /\ i \in Nat /\ body \in Nat
      /\ cgi_input \in Seq(0 .. MaxBody + MaxOutput)
      /\ stdin \in Seq(0 .. MaxBody + MaxOutput)
  BY DEF TypeOK, Bytes
<1>2. CASE Execute
  <2>1. i' = 0 /\ byte' = 0 /\ stdin' = << >> /\ cgi_input' = << >> /\ body' = body
    BY <1>2 DEF Execute, askVars
  <2> QED
    BY <1>1, <2>1 DEF InputInv, Passed
<1>3. CASE PassByte
  <2>1. /\ i' = i + 1 /\ i = Len(stdin) + Len(cgi_input)
        /\ byte' = NextByte /\ cgi_input' = Append(cgi_input, NextByte)
        /\ Passed(byte, i)
        /\ UNCHANGED <<stdin, gone, body>>
    BY <1>3 DEF PassByte, clientVars, askVars, ChildInv, InputInv, InScript
  <2>2. Passed(NextByte, Len(stdin) + Len(cgi_input) + 1)
    <3>1. Passed(NextByte, i + 1)
      BY <1>1, <1>3, <2>1 DEF PassByte, CanRecv, NextByte, Passed
    <3> QED
      BY <2>1, <3>1
  <2>3. Len(cgi_input') = Len(cgi_input) + 1 /\ stdin' = stdin
    BY <1>1, <2>1
  <2>4. ASSUME NEW k \in 1 .. Len(cgi_input')
        PROVE  Passed(cgi_input'[k], Len(stdin) + k)
    <3>1. CASE k = Len(cgi_input) + 1
      BY <1>1, <2>1, <2>2, <3>1
    <3>2. CASE k \in 1 .. Len(cgi_input)
      <4>1. Passed(cgi_input[k], Len(stdin) + k)
        BY <1>3, <3>2 DEF PassByte, ChildInv, InputInv, InScript
      <4>2. cgi_input'[k] = cgi_input[k]
        BY <1>1, <2>1, <3>2
      <4> QED
        BY <4>1, <4>2
    <3> QED
      BY <1>1, <2>3, <2>4, <3>1, <3>2
  <2>5. Passed(byte', i')
    BY <2>1, <2>2
  <2> QED
    BY <1>1, <1>3, <2>1, <2>3, <2>4, <2>5 DEF PassByte, InputInv, Passed, ChildInv, InScript
<1>4. CASE ScriptGets
  <2>1. /\ child # "none" /\ cgi_input # << >>
        /\ stdin' = Append(stdin, Head(cgi_input)) /\ cgi_input' = Tail(cgi_input)
        /\ UNCHANGED <<server, i, byte, gone, body>>
    BY <1>4 DEF ScriptGets, clientVars, askVars, loopVars
  <2>2. /\ Len(stdin') = Len(stdin) + 1 /\ Len(cgi_input') = Len(cgi_input) - 1
        /\ Head(cgi_input) = cgi_input[1] /\ Len(cgi_input) > 0
        /\ \A k \in 1 .. Len(cgi_input') : cgi_input'[k] = cgi_input[k + 1]
        /\ \A k \in 1 .. Len(stdin) : stdin'[k] = stdin[k]
        /\ stdin'[Len(stdin) + 1] = cgi_input[1]
    BY <1>1, <2>1
  <2>3. Passed(cgi_input[1], Len(stdin) + 1)
    BY <1>1, <2>1, <2>2 DEF InputInv
  <2>4. ASSUME NEW k \in 1 .. Len(stdin') PROVE Passed(stdin'[k], k)
    <3>1. CASE k = Len(stdin) + 1
      BY <2>2, <2>3, <3>1
    <3>2. CASE k \in 1 .. Len(stdin)
      BY <2>1, <2>2, <3>2 DEF InputInv
    <3>3. k \in 1 .. Len(stdin) + 1 /\ Len(stdin) \in Nat
      BY <1>1, <2>2
    <3>4. k = Len(stdin) + 1 \/ k \in 1 .. Len(stdin)
      BY <3>3
    <3> QED
      BY <3>1, <3>2, <3>4
  <2>5. ASSUME NEW k \in 1 .. Len(cgi_input')
        PROVE  Passed(cgi_input'[k], Len(stdin') + k)
    <3>1. k + 1 \in 1 .. Len(cgi_input) /\ Len(stdin') + k = Len(stdin) + (k + 1)
      <4>1. Len(cgi_input) \in Nat /\ Len(stdin) \in Nat /\ Len(cgi_input') \in Nat
        BY <1>1, <2>2
      <4> QED
        BY <4>1, <2>2
    <3>2. Passed(cgi_input[k + 1], Len(stdin) + (k + 1))
      BY <2>1, <3>1 DEF InputInv
    <3> QED
      BY <2>2, <2>5, <3>1, <3>2
  <2>6. i' = Len(stdin') + Len(cgi_input')
    BY <1>1, <2>1, <2>2 DEF InputInv
  <2> QED
    BY <2>1, <2>4, <2>5, <2>6 DEF InputInv, Passed
<1>5. CASE Clients
  <2>1. /\ UNCHANGED <<server, child, i, byte, stdin, cgi_input>>
        /\ gone => gone' /\ body' = body
        /\ body' >= body /\ (gone' = gone \/ body' = body)
    BY <1>1, <1>5 DEF Clients, Connect, SendRequest, SendBody, ReadAnswer, Leave, Here,
                      clientVars, askVars, pipeVars, loopVars, TypeOK
  <2>2. body' \in Nat
    BY <1>1, <1>5 DEF Clients, Connect, SendRequest, SendBody, ReadAnswer, Leave,
                      clientVars, askVars
  <2>3. ASSUME NEW b, NEW k \in Nat, Passed(b, k) PROVE Passed(b, k)'
    BY <1>1, <2>1, <2>2, <2>3 DEF Passed
  <2>4. Len(stdin) \in Nat
    BY <1>1
  <2> QED
    BY <1>1, <2>1, <2>3, <2>4 DEF InputInv
<1>6. CASE \/ AcceptFails \/ Unimplemented \/ NotFound \/ ServeFile \/ SendLine
           \/ FileEnds \/ BadRequest \/ SetupFails \/ CannotExecute \/ NobodyReads
           \/ BodyDone \/ TakeOutput \/ PassOutput \/ OutputEnds
  <2>1. /\ UNCHANGED <<i, stdin, cgi_input, gone, body>>
        /\ child' = child /\ server' # "body"
    BY <1>6 DEF AcceptFails, Unimplemented, NotFound, ServeFile, SendLine, FileEnds,
                BadRequest, SetupFails, CannotExecute, NobodyReads, BodyDone,
                TakeOutput, PassOutput, OutputEnds, Send, Sent,
                clientVars, askVars, pipeVars, loopVars
  <2> QED
    BY <2>1 DEF InputInv, Passed
<1>8. CASE ScriptReads \/ ScriptWrites \/ ScriptPuts \/ ScriptEnds \/ UNCHANGED vars
  <2>1. /\ UNCHANGED <<server, i, byte, stdin, cgi_input, gone, body>>
        /\ child = "none" => child' = "none"
    BY <1>8 DEF ScriptReads, ScriptWrites, ScriptPuts, ScriptEnds, vars,
                clientVars, askVars, pipeVars, loopVars
  <2> QED
    BY <2>1 DEF InputInv, Passed
<1>7. CASE Accept \/ Reap
  <2>1. child' = "none"
    BY <1>7 DEF Accept, Reap, ChildInv
  <2> QED
    BY <2>1 DEF InputInv
<1> QED
  BY <1>2, <1>3, <1>4, <1>5, <1>6, <1>7, <1>8 DEF Next, Server, Script

LEMMA OutputStep == HttpdInv /\ [Next]_vars => OutputInv'
<1> SUFFICES ASSUME HttpdInv, [Next]_vars PROVE OutputInv'
  OBVIOUS
<1> USE HttpdAssumption DEF HttpdInv
<1>1. /\ stdout \in Nat /\ InHand \in Nat
      /\ cgi_output \in Seq(0 .. MaxBody + MaxOutput)
      /\ reply \in Seq(0 .. MaxBody + MaxOutput)
      /\ Len(reply) \in Nat /\ Len(cgi_output) \in Nat
  BY DEF TypeOK, Bytes, InHand
<1>2. CASE Execute
  <2>1. /\ reply' = << >> /\ stdout' = 0 /\ cgi_output' = << >>
        /\ child' = "running" /\ server' # "send"
    BY <1>2 DEF Execute, Send, Sent, WantsScript, HaveRequest, AnswerInv
  <2>2. InHand' = 0
    BY <2>1 DEF InHand
  <2> QED
    BY <2>1, <2>2 DEF OutputInv
<1>3. CASE ScriptPuts
  <2>1. /\ child = "writing" /\ child' = "running" /\ stdout' = stdout + 1
        /\ cgi_output' = Append(cgi_output, stdout + 1) /\ reply' = reply
        /\ stdout = Len(reply) + InHand + Len(cgi_output)
        /\ server' = server /\ byte' = byte /\ InHand' = InHand
    BY <1>3 DEF ScriptPuts, answerVars, loopVars, OutputInv, InHand
  <2>2. Len(cgi_output') = Len(cgi_output) + 1
        /\ cgi_output'[Len(cgi_output) + 1] = stdout + 1
        /\ \A k \in 1 .. Len(cgi_output) : cgi_output'[k] = cgi_output[k]
    BY <1>1, <2>1
  <2>3. ASSUME NEW k \in 1 .. Len(cgi_output')
        PROVE  cgi_output'[k] = Len(reply) + InHand + k
    <3>1. CASE k = Len(cgi_output) + 1
      BY <1>1, <2>1, <2>2, <3>1
    <3>2. CASE k \in 1 .. Len(cgi_output)
      BY <2>1, <2>2, <3>2 DEF OutputInv
    <3> QED
      BY <1>1, <2>2, <2>3, <3>1, <3>2
  <2> QED
    BY <1>1, <2>1, <2>2, <2>3 DEF OutputInv
<1>4. CASE TakeOutput
  <2>1. /\ child # "none" /\ child' = child /\ stdout' = stdout /\ cgi_output # << >>
        /\ reply' = reply /\ byte' = Head(cgi_output) /\ cgi_output' = Tail(cgi_output)
        /\ server' = "send" /\ InHand = 0 /\ InHand' = 1
    BY <1>4 DEF TakeOutput, ChildInv, InScript, InHand, answerVars
  <2>2. /\ Len(cgi_output') = Len(cgi_output) - 1 /\ Len(cgi_output) > 0
        /\ byte' = cgi_output[1]
        /\ \A k \in 1 .. Len(cgi_output') : cgi_output'[k] = cgi_output[k + 1]
    BY <1>1, <2>1
  <2>3. byte' = Len(reply') + 1
    BY <1>1, <2>1, <2>2 DEF OutputInv
  <2>4. ASSUME NEW k \in 1 .. Len(cgi_output')
        PROVE  cgi_output'[k] = Len(reply') + InHand' + k
    <3>1. k + 1 \in 1 .. Len(cgi_output)
      BY <1>1, <2>2
    <3>2. cgi_output[k + 1] = Len(reply) + InHand + (k + 1)
      BY <2>1, <3>1 DEF OutputInv
    <3> QED
      BY <1>1, <2>1, <2>2, <2>4, <3>2
  <2>5. stdout' = Len(reply') + InHand' + Len(cgi_output')
    BY <1>1, <2>1, <2>2 DEF OutputInv
  <2> QED
    BY <2>1, <2>3, <2>4, <2>5 DEF OutputInv
<1>5. CASE PassOutput
  <2>1. /\ child # "none" /\ child' = child /\ reply' = Append(reply, byte)
        /\ UNCHANGED <<stdout, cgi_output>>
        /\ server' # "send" /\ InHand = 1 /\ InHand' = 0
        /\ byte = Len(reply) + 1
    BY <1>5 DEF PassOutput, Sent, ChildInv, InScript, InHand, OutputInv, pipeVars
  <2>2. /\ Len(reply') = Len(reply) + 1
        /\ \A k \in 1 .. Len(reply) : reply'[k] = reply[k]
        /\ reply'[Len(reply) + 1] = byte
    BY <1>1, <2>1
  <2>3. ASSUME NEW k \in 1 .. Len(reply') PROVE reply'[k] = k
    <3>1. CASE k = Len(reply) + 1
      BY <2>1, <2>2, <3>1
    <3>2. CASE k \in 1 .. Len(reply)
      BY <2>1, <2>2, <3>2 DEF OutputInv
    <3> QED
      BY <1>1, <2>2, <2>3, <3>1, <3>2
  <2>4. ASSUME NEW k \in 1 .. Len(cgi_output')
        PROVE  cgi_output'[k] = Len(reply') + InHand' + k
    <3>1. cgi_output[k] = Len(reply) + InHand + k
      BY <2>1, <2>4 DEF OutputInv
    <3> QED
      BY <1>1, <2>1, <2>2, <3>1
  <2>5. stdout' = Len(reply') + InHand' + Len(cgi_output')
    BY <1>1, <2>1, <2>2 DEF OutputInv
  <2> QED
    BY <2>1, <2>3, <2>4, <2>5 DEF OutputInv
<1>6. CASE ScriptWrites
  BY <1>6 DEF ScriptWrites, OutputInv, InHand, answerVars, pipeVars, loopVars
<1>7. CASE \/ AcceptFails \/ Unimplemented \/ NotFound \/ ServeFile \/ SendLine
           \/ FileEnds \/ BadRequest \/ SetupFails \/ CannotExecute \/ PassByte
           \/ NobodyReads \/ BodyDone \/ OutputEnds
  <2>1. /\ UNCHANGED <<stdout, reply, cgi_output, child>>
        /\ server # "send" /\ server' # "send"
    BY <1>7 DEF AcceptFails, Unimplemented, NotFound, ServeFile, SendLine, FileEnds,
                BadRequest, SetupFails, CannotExecute, PassByte, NobodyReads, BodyDone,
                OutputEnds, WantsScript, HaveRequest, Send, Sent, answerVars, pipeVars
  <2> QED
    BY <2>1 DEF OutputInv, InHand
<1>8. CASE Clients \/ ScriptReads \/ ScriptGets \/ ScriptEnds \/ UNCHANGED vars
  <2>1. /\ UNCHANGED <<server, byte, stdout, reply, cgi_output>>
        /\ child' \in {child, "running", "reading", "ended"}
        /\ child = "none" => child' = "none"
    BY <1>8 DEF Clients, Connect, SendRequest, SendBody, ReadAnswer, Leave,
                ScriptReads, ScriptGets, ScriptEnds, vars, answerVars, pipeVars, loopVars
  <2> QED
    BY <2>1 DEF OutputInv, InHand
<1>9. CASE Accept \/ Reap
  <2>1. child' = "none"
    BY <1>9 DEF Accept, Reap, ChildInv
  <2> QED
    BY <2>1 DEF OutputInv
<1> QED
  BY <1>2, <1>3, <1>4, <1>5, <1>6, <1>7, <1>8, <1>9 DEF Next, Server, Script

\* Only OutputEnds comes to "reap", and only the answers and Reap to "accept".
LEMMA ReplyStep == HttpdInv /\ [Next]_vars => ReplyComplete'
<1> SUFFICES ASSUME HttpdInv, [Next]_vars PROVE ReplyComplete'
  OBVIOUS
<1> USE HttpdAssumption DEF HttpdInv
<1>1. CASE OutputEnds
  <2>1. /\ cgi_output = << >> /\ child # "none"
        /\ UNCHANGED <<reply, stdout>>
    BY <1>1 DEF OutputEnds, EndOfOutput, answerVars, pipeVars
  <2>2. /\ stdout = Len(reply) /\ reply \in Seq(0 .. MaxBody + MaxOutput)
        /\ \A k \in 1 .. Len(reply) : reply[k] = k
    BY <1>1, <2>1 DEF OutputInv, OutputEnds, InHand, TypeOK, Bytes
  <2>3. reply = [k \in 1 .. stdout |-> k]
    BY <2>2
  <2> QED
    BY <2>1, <2>3 DEF ReplyComplete
<1>2. CASE Unimplemented \/ NotFound \/ BadRequest \/ CannotExecute
  <2>1. /\ client' = client /\ client \in Conn
        /\ answer[client] \in {<< >>, <<"200">>}
        /\ \E s \in {"400", "404", "500", "501"} :
              answer' = [answer EXCEPT ![client] = Append(@, s)]
    BY <1>2 DEF Unimplemented, NotFound, BadRequest, CannotExecute, WantsScript,
                HaveRequest, Send, AnswerInv, ChildInv, Answering, InScript, TypeOK
  <2>2. PICK s \in {"400", "404", "500", "501"} :
          answer'[client'] = Append(answer[client], s)
    BY <2>1 DEF TypeOK
  <2>3. answer'[client'] # <<"200">>
    <3>1. CASE answer[client] = << >>
      BY <2>2, <3>1, AppendedIs
    <3>2. CASE answer[client] = <<"200">>
      <4>1. /\ "200" \in {"200", "400", "404", "500", "501"}
            /\ s \in {"200", "400", "404", "500", "501"}
        BY <2>2
      <4>2. answer'[client'] = <<"200", s>>
        BY <2>2, <3>2, <4>1, AppendTwo, Zenon
      <4> QED
        BY <4>2
    <3> QED
      BY <2>1, <3>1, <3>2
  <2> QED
    BY <2>3 DEF ReplyComplete
<1>3. CASE FileEnds
  <2>1. ~Cgi' /\ client' = client
    BY <1>3 DEF FileEnds, clientVars, askVars, AnswerInv, Cgi
  <2> QED
    BY <2>1 DEF ReplyComplete
<1>4. CASE Execute \/ ServeFile \/ SendLine \/ SetupFails
  <2>1. server' \notin {"accept", "reap"}
    BY <1>4 DEF Execute, ServeFile, SendLine, SetupFails, Send, Sent
  <2> QED
    BY <2>1 DEF ReplyComplete
<1>5. CASE Reap
  BY <1>5 DEF Reap, clientVars, askVars, answerVars, pipeVars, ReplyComplete, Cgi
<1>6. CASE \/ Accept \/ AcceptFails \/ PassByte \/ NobodyReads \/ BodyDone
           \/ TakeOutput \/ PassOutput
  BY <1>6 DEF Accept, AcceptFails, PassByte, NobodyReads, BodyDone, TakeOutput,
              PassOutput, Sent, ReplyComplete
<1>7. CASE Clients
  <2>1. server \in {"accept", "reap"} =>
          UNCHANGED <<client, answer, reply, stdout>> /\ (asked \/ server = "accept" \/ gone)
    BY <1>7 DEF Clients, Connect, SendRequest, SendBody, ReadAnswer, Leave, ChildInv,
                InScript, answerVars, pipeVars
  <2>2. server \in {"accept", "reap"} => request' = request
    BY <1>7, <2>1 DEF Clients, Connect, SendRequest, SendBody, ReadAnswer, Leave, Here,
                clientVars, askVars
  <2>3. server' = server
    BY <1>7 DEF Clients, Connect, SendRequest, SendBody, ReadAnswer, Leave
  <2> QED
    BY <2>1, <2>2, <2>3 DEF ReplyComplete, Cgi
<1>8. CASE Script
  <2>1. server \notin {"accept", "reap"} /\ server' = server
    BY <1>8 DEF Script, ScriptReads, ScriptGets, ScriptWrites, ScriptPuts, ScriptEnds, ChildInv
  <2> QED
    BY <2>1 DEF ReplyComplete
<1>9. CASE UNCHANGED vars
  BY <1>9 DEF vars, clientVars, askVars, answerVars, pipeVars, ReplyComplete, Cgi
<1> QED
  BY <1>1, <1>2, <1>3, <1>4, <1>5, <1>6, <1>7, <1>8, <1>9 DEF Next, Server

LEMMA KilledStep == HttpdInv /\ [Next]_vars => KilledForAReason'
<1> SUFFICES ASSUME HttpdInv, [Next]_vars PROVE KilledForAReason'
  OBVIOUS
<1> USE DEF HttpdInv
<1>1. CASE Unimplemented \/ NotFound \/ BadRequest \/ SetupFails \/ CannotExecute \/ Execute
  BY <1>1 DEF Unimplemented, NotFound, BadRequest, SetupFails, CannotExecute, Execute,
              Send, Sent, askVars, KilledForAReason
<1>2. CASE ServeFile
  <2>1. CASE OpenFails
    <3>1. /\ request' = request /\ client' = client /\ client \in Conn
          /\ request.target # "missing"
          /\ answer[client] = << >>
          /\ answer' = [answer EXCEPT ![client] = Append(@, "404")]
      BY <1>2, <2>1 DEF ServeFile, Send, Missing, HaveRequest, AnswerInv, ChildInv,
                        TypeOK, askVars
    <3>2. answer'[client'] = <<"404">>
      BY <3>1, AppendedIs DEF TypeOK
    <3> QED
      BY <3>1, <3>2 DEF KilledForAReason
  <2>2. CASE ~OpenFails
    BY <1>2, <2>2 DEF ServeFile, Send, Sent, askVars, KilledForAReason
  <2> QED
    BY <2>1, <2>2
<1>3. CASE NobodyReads
  BY <1>3 DEF NobodyReads, MoreBody, clientVars, askVars, loopVars, KilledForAReason
<1>4. CASE PassOutput \/ SendLine
  BY <1>4 DEF PassOutput, SendLine, Sent, askVars, KilledForAReason
<1>5. CASE \/ Accept \/ AcceptFails \/ FileEnds \/ PassByte \/ BodyDone \/ TakeOutput
           \/ OutputEnds \/ Reap
  BY <1>5 DEF Accept, AcceptFails, FileEnds, PassByte, BodyDone, TakeOutput, OutputEnds,
              Reap, KilledForAReason
<1>6. CASE Clients
  <2>1. /\ server' = server
        /\ server = "killed" => UNCHANGED <<client, clientVars, answerVars, child, loopVars>>
    BY <1>6 DEF Clients, Connect, SendRequest, SendBody, ReadAnswer, Leave, Here, Alive
  <2> QED
    BY <2>1 DEF clientVars, askVars, answerVars, loopVars, KilledForAReason
<1>7. CASE Script
  BY <1>7 DEF Script, ScriptReads, ScriptGets, ScriptWrites, ScriptPuts, ScriptEnds,
              Alive, KilledForAReason
<1>8. CASE UNCHANGED vars
  BY <1>8 DEF vars, clientVars, askVars, answerVars, loopVars, KilledForAReason
<1> QED
  BY <1>1, <1>2, <1>3, <1>4, <1>5, <1>6, <1>7, <1>8 DEF Next, Server

(***************************************************************************)
(* The inductive invariant holds: the script's life, the answers, and      *)
(* every byte in the pipes.                                                *)
(***************************************************************************)
THEOREM HttpdCorrect == Spec => []HttpdInv
<1>1. HttpdInv /\ [Next]_vars => HttpdInv'
  BY TypeStep, ChildStep, AnswerStep, InputStep, OutputStep, ReplyStep, KilledStep
  DEF HttpdInv
<1> QED
  BY <1>1, HttpdInit, PTL DEF Spec

(***************************************************************************)
(* The values of the variables stay in their types; in particular the      *)
(* server never has more descriptors than it may have.                     *)
(***************************************************************************)
THEOREM TypeCorrect == Spec => []TypeOK
BY HttpdCorrect, PTL DEF HttpdInv

(***************************************************************************)
(* Between two requests the server holds no descriptor but those of the    *)
(* clients it answered 501, and pipe ends only behind a failed pipe() or   *)
(* fork() (httpd.c:64-68, 243-251).                                        *)
(***************************************************************************)
THEOREM HeldCorrect == Spec => []NothingHeldBetween
<1>1. HttpdInv => NothingHeldBetween
  BY DEF HttpdInv, ChildInv, AnswerInv, NothingHeldBetween
<1> QED
  BY <1>1, HttpdCorrect, PTL

(***************************************************************************)
(* A script reads the body its client sent, byte by byte, and anything     *)
(* else only in place of bytes that were never sent (httpd.c:278-281).     *)
(***************************************************************************)
THEOREM BodyCorrect == Spec => []BodyAsSent
<1>1. HttpdInv => BodyAsSent
  BY DEF HttpdInv, InputInv, Passed, BodyAsSent
<1> QED
  BY <1>1, HttpdCorrect, PTL

(***************************************************************************)
(* A client is sent all that its script wrote, in order (httpd.c:282-283). *)
(***************************************************************************)
THEOREM ReplyCorrect == Spec => []ReplyComplete
BY HttpdCorrect, PTL DEF HttpdInv

(***************************************************************************)
(* Only a client that is gone, a script that ended before its body, or a   *)
(* file that cannot be opened ends the server by a signal                  *)
(* (httpd.c:279-283, 402-410).                                             *)
(***************************************************************************)
THEOREM KilledCorrect == Spec => []KilledForAReason
BY HttpdCorrect, PTL DEF HttpdInv

------------------------------------------------------------------------------
(* HttpdRequest: numbers.                                                  *)

LEMMA Least ==
  ASSUME NEW S \in SUBSET Nat, S # {}
  PROVE  Min(S) \in S /\ \A x \in S : Min(S) <= x
<1>1. IsWellFoundedOn(OpToRel(<, Nat), Nat)
  BY NatLessThanWellFounded
<1>2. PICK m \in S : \A x \in S : ~(<<x, m>> \in OpToRel(<, Nat))
  BY <1>1, WFMin
<1>3. \A x \in S : ~(x < m)
  BY <1>2 DEF OpToRel
<1>4. \A x \in S : m <= x
  BY <1>3
<1> QED
  BY <1>4 DEF Min

LEMMA LeastIs ==
  ASSUME NEW S \in SUBSET Nat, NEW m \in S, \A x \in S : m <= x
  PROVE  Min(S) = m
<1>1. Min(S) \in S /\ \A x \in S : Min(S) <= x
  BY Least
<1>2. Min(S) <= m /\ m <= Min(S) /\ m \in Nat /\ Min(S) \in Nat
  BY <1>1
<1> QED
  BY <1>2

LEMMA Greatest ==
  ASSUME NEW S \in SUBSET Nat, S # {}, NEW n \in Nat, \A x \in S : x <= n
  PROVE  Max(S) \in S /\ \A x \in S : x <= Max(S)
<1> DEFINE T == {n - x : x \in S}
<1>1. T \in SUBSET Nat /\ T # {}
  <2>1. \A x \in S : x \in Nat /\ x <= n
    OBVIOUS
  <2>2. \A x \in S : n - x \in Nat
    BY <2>1
  <2> QED
    BY <2>2
<1>2. Min(T) \in T /\ \A y \in T : Min(T) <= y
  <2> HIDE DEF T
  <2> QED
    BY <1>1, Least
<1>3. PICK m \in S : Min(T) = n - m
  BY <1>2
<1>4. \A x \in S : n - m <= n - x
  BY <1>2, <1>3
<1>5. \A x \in S : x <= m
  BY <1>4
<1> QED
  BY <1>5 DEF Max

LEMMA GreatestIs ==
  ASSUME NEW S \in SUBSET Nat, NEW m \in S, \A x \in S : x <= m
  PROVE  Max(S) = m
<1>1. Max(S) \in S /\ \A x \in S : x <= Max(S)
  BY Greatest
<1>2. Max(S) <= m /\ m <= Max(S) /\ m \in Nat /\ Max(S) \in Nat
  BY <1>1
<1> QED
  BY <1>2

\* Behind a multiple of w.
LEMMA Rest ==
  ASSUME NEW w \in Nat \ {0}, NEW x \in Nat, NEW y \in Nat, x % w = 0, y < w
  PROVE  (x + y) % w = y
<1> DEFINE q == x \div w
           p == (x + y) \div w
           r == (x + y) % w
<1>1. q \in Int /\ x = w * q
  BY x = w * q + (x % w)
<1>2. p \in Int /\ r \in 0 .. w - 1 /\ x + y = w * p + r
  OBVIOUS
<1>3. w * p + r = w * q + y
  BY <1>1, <1>2
<1> HIDE DEF p, q, r
<1> DEFINE d == p - q
           e == w * d
<1>4. d \in Int /\ e \in Int /\ e = w * p - w * q
  BY <1>1, <1>2
<1>5. e = y - r
  BY <1>1, <1>2, <1>3, <1>4
<1>6. e < w /\ -w < e
  BY <1>2, <1>4, <1>5
<1>7. w * d < w * 1 /\ w * (-1) < w * d
  BY <1>6
<1>8. d < 1 /\ -1 < d
  <2> HIDE DEF d, e
  <2> QED
    BY <1>4, <1>7
<1>9. d = 0
  BY <1>4, <1>8
<1>10. e = 0
  BY <1>9
<1> QED
  BY <1>2, <1>5, <1>10 DEF r

------------------------------------------------------------------------------
(* Sequences of characters.                                                *)

LEMMA Constants ==
  /\ Size \in Nat /\ Size > 2 /\ WordSize \in Nat /\ WordSize > 2 /\ WordSize <= Size
  /\ \A a \in Input : /\ a.stream \in Seq(Char) /\ a.file \in Seq(Char)
                      /\ a.garbage \in [1 .. Size -> Char]
BY HttpdRequestAssumption

LEMMA Characters ==
  /\ CR # LF /\ NUL # LF /\ NUL # CR
  /\ {SP, "G", "P", "n"} \cap {CR, LF, NUL} = {}
  /\ {SP, CR, LF, NUL, "G", "P", "n"} \subseteq Char
  /\ SP # "G" /\ SP # "P" /\ "G" # "P"
BY DEF CR, LF, NUL, SP, Char, Space

LEMMA FirstFacts ==
  ASSUME NEW T, NEW s \in Seq(T), NEW k \in 1 .. Len(s) + 1, NEW C
  PROVE  /\ First(s, k, C) \in k .. Len(s) + 1
         /\ First(s, k, C) <= Len(s) => s[First(s, k, C)] \in C
         /\ \A n \in k .. First(s, k, C) - 1 : s[n] \notin C
<1> DEFINE S == {n \in k .. Len(s) : s[n] \in C} \cup {Len(s) + 1}
<1>1. Len(s) \in Nat
  OBVIOUS
<1>2. S \in SUBSET Nat /\ S # {} /\ Len(s) + 1 \in S
  BY <1>1
<1>3. Min(S) \in S /\ \A x \in S : Min(S) <= x
  <2> HIDE DEF S
  <2> QED
    BY <1>2, Least
<1> DEFINE m == Min(S)
<1>4. m = First(s, k, C)
  BY DEF First
<1>5. m \in S /\ \A x \in S : m <= x
  BY <1>3
<1> HIDE DEF m
<1>6. m \in k .. Len(s) + 1 /\ (m <= Len(s) => s[m] \in C)
  BY <1>1, <1>5
<1>7. ASSUME NEW n \in k .. m - 1 PROVE s[n] \notin C
  <2>1. n \in k .. Len(s) /\ n < m
    BY <1>1, <1>6
  <2> QED
    BY <1>5, <2>1
<1> QED
  BY <1>4, <1>6, <1>7

LEMMA FirstIs ==
  ASSUME NEW T, NEW s \in Seq(T), NEW k \in 1 .. Len(s) + 1, NEW C,
         NEW m \in k .. Len(s) + 1, m <= Len(s) => s[m] \in C,
         \A n \in k .. m - 1 : s[n] \notin C
  PROVE  First(s, k, C) = m
<1> DEFINE f == First(s, k, C)
<1>1. /\ f \in k .. Len(s) + 1
      /\ f <= Len(s) => s[f] \in C
      /\ \A n \in k .. f - 1 : s[n] \notin C
  BY FirstFacts
<1> HIDE DEF f
<1> DEFINE l == Len(s)
<1>0. l \in Nat /\ k \in 1 .. l + 1 /\ m \in k .. l + 1 /\ f \in k .. l + 1
  BY <1>1
<1> HIDE DEF l
<1>2. l \in Nat /\ f \in Nat /\ m \in Nat /\ k \in Nat
  BY <1>0
<1>3. ASSUME f < m PROVE FALSE
  <2>1. f \in k .. m - 1 /\ f <= Len(s)
    BY <1>0, <1>2, <1>3 DEF l
  <2> QED
    BY <1>1, <2>1
<1>4. ASSUME m < f PROVE FALSE
  <2>1. m \in k .. f - 1 /\ m <= Len(s)
    BY <1>0, <1>2, <1>4 DEF l
  <2> QED
    BY <1>1, <2>1
<1>5. f = m
  BY <1>2, <1>3, <1>4
<1> QED
  BY <1>5 DEF f

\* A part of a sequence.
LEMMA Part ==
  ASSUME NEW T, NEW s \in Seq(T), NEW m \in 1 .. Len(s) + 1, NEW n \in m - 1 .. Len(s)
  PROVE  /\ SubSeq(s, m, n) \in Seq(T) /\ Len(SubSeq(s, m, n)) = n - m + 1
         /\ \A k \in 1 .. n - m + 1 : SubSeq(s, m, n)[k] = s[m + k - 1]
<1>1. Len(s) \in Nat /\ m \in Nat /\ n \in Nat
  OBVIOUS
<1>2. \A k \in m .. n : s[k] \in T
  BY <1>1
<1>3. /\ SubSeq(s, m, n) \in Seq(T)
      /\ Len(SubSeq(s, m, n)) = IF m <= n THEN n - m + 1 ELSE 0
      /\ \A k \in 1 .. n - m + 1 : SubSeq(s, m, n)[k] = s[m + k - 1]
  BY <1>1, <1>2, SubSeqProperties
<1> QED
  BY <1>1, <1>3

LEMMA Same ==
  ASSUME NEW T, NEW s \in Seq(T), NEW t \in Seq(T), Len(s) = Len(t),
         \A k \in 1 .. Len(s) : s[k] = t[k]
  PROVE  s = t
<1>1. DOMAIN s = 1 .. Len(s) /\ DOMAIN t = 1 .. Len(t)
  OBVIOUS
<1> QED
  BY <1>1

LEMMA BeforeFacts ==
  ASSUME NEW T, NEW s \in Seq(T), NEW C
  PROVE  /\ Before(s, C) \in Seq(T) /\ Len(Before(s, C)) = First(s, 1, C) - 1
         /\ Len(Before(s, C)) \in 0 .. Len(s)
         /\ \A k \in 1 .. Len(Before(s, C)) : Before(s, C)[k] = s[k] /\ s[k] \notin C
<1> DEFINE f == First(s, 1, C)
<1>1. f \in 1 .. Len(s) + 1 /\ \A n \in 1 .. f - 1 : s[n] \notin C
  BY FirstFacts
<1> HIDE DEF f
<1>2. Len(s) \in Nat /\ f - 1 \in 0 .. Len(s) /\ f - 1 - 1 + 1 = f - 1
  BY <1>1
<1>3. /\ SubSeq(s, 1, f - 1) \in Seq(T) /\ Len(SubSeq(s, 1, f - 1)) = f - 1 - 1 + 1
      /\ \A k \in 1 .. f - 1 - 1 + 1 : SubSeq(s, 1, f - 1)[k] = s[1 + k - 1]
  BY <1>2, Part
<1>4. \A k \in 1 .. f - 1 : 1 + k - 1 = k
  BY <1>2
<1>5. Before(s, C) = SubSeq(s, 1, f - 1)
  BY DEF Before, f
<1> QED
  BY <1>1, <1>2, <1>3, <1>4, <1>5 DEF f

\* A sequence without a character of C.
LEMMA BeforeAll ==
  ASSUME NEW T, NEW s \in Seq(T), NEW C, \A k \in 1 .. Len(s) : s[k] \notin C
  PROVE  Before(s, C) = s
<1>1. First(s, 1, C) = Len(s) + 1
  <2>1. Len(s) + 1 \in 1 .. Len(s) + 1 /\ Len(s) \in Nat /\ 1 \in 1 .. Len(s) + 1
    OBVIOUS
  <2> QED
    BY <2>1, FirstIs
<1>2. Len(Before(s, C)) = Len(s) /\ Before(s, C) \in Seq(T)
      /\ \A k \in 1 .. Len(s) : Before(s, C)[k] = s[k]
  BY <1>1, BeforeFacts
<1> QED
  BY <1>2, Same

------------------------------------------------------------------------------
(* cat().                                                                  *)

\* fgets() begins at a whole number of buffers behind a newline, or the start.
AtPiece(p) ==
  /\ p \in 0 .. Len(input.file)
  /\ \E b \in 0 .. p : /\ b = 0 \/ input.file[b] = LF
                       /\ \A k \in b + 1 .. p : input.file[k] # LF
                       /\ (p - b) % (Size - 1) = 0

\* What is sent of the first p characters.
Kept(p) ==
  {k \in 1 .. p :
     \A n \in 1 .. k : input.file[n] = NUL => PieceOf(n) # PieceOf(k)}

Copied(p) ==
  /\ sent \in Seq(Char)
  /\ \A k \in 1 .. Len(sent) : sent[k] # NUL
  /\ IsFiniteSet(Kept(p)) /\ Len(sent) = Cardinality(Kept(p))
  /\ (\A k \in 1 .. Len(input.file) : input.file[k] # NUL) =>
       sent = SubSeq(input.file, 1, p)

\* What cat() is done with.
CatInv ==
  /\ input \in Input /\ pc \in {"request", "headers", "file", "done"}
  /\ fpos \in 0 .. Len(input.file)
  /\ Reading => fpos = 0 /\ sent = << >>
  /\ pc = "file" => AtPiece(fpos) /\ Copied(fpos)
  /\ pc = "done" /\ fpos > 0 =>
       \E p \in 0 .. Len(input.file) :
         /\ AtPiece(p) /\ Copied(p) /\ Len(input.file) - p < Size - 1
         /\ \A k \in p + 1 .. Len(input.file) : input.file[k] # LF

LEMMA FileFacts ==
  ASSUME input \in Input
  PROVE  input.file \in Seq(Char) /\ Len(input.file) \in Nat
         /\ Size - 1 \in Nat \ {0} /\ Size - 1 > 1
<1>1. input.file \in Seq(Char)
  BY Constants
<1> QED
  BY <1>1, Constants

\* What fgets() reads from p on.
LEMMA LineEndFacts ==
  ASSUME input \in Input, fpos \in 0 .. Len(input.file)
  PROVE  /\ LineEnd \in fpos .. Len(input.file) /\ LineEnd <= fpos + Size - 1
         /\ \A k \in fpos + 1 .. LineEnd - 1 : input.file[k] # LF
         /\ \/ LineEnd = fpos + Size - 1 \/ LineEnd = Len(input.file)
            \/ LineEnd > fpos /\ input.file[LineEnd] = LF
<1> DEFINE l == Len(input.file)
           w == Size - 1
           C == {k \in fpos + 1 .. l : input.file[k] = LF}
           S == {fpos + w, l} \cup C
<1>1. l \in Nat /\ w \in Nat /\ w > 1 /\ fpos \in 0 .. l
  BY FileFacts
<1>2. \A k : k \in C <=> k \in fpos + 1 .. l /\ input.file[k] = LF
  OBVIOUS
<1> HIDE DEF l, w, C
<1>3. S \in SUBSET Nat /\ S # {}
  BY <1>1, <1>2
<1>4. Min(S) \in S /\ \A x \in S : Min(S) <= x
  <2> HIDE DEF S
  <2> QED
    BY <1>3, Least
<1>5. fpos + Size - 1 = fpos + w
  BY <1>1, Constants DEF w
<1>6. LineEnd = Min(S)
  <2>1. Min({fpos + w, l} \cup C) = Min({fpos + Size - 1, l} \cup C)
    BY <1>5
  <2> QED
    BY <2>1 DEF LineEnd, l, C
<1> DEFINE e == Min(S)
<1>7. e \in S /\ e <= fpos + w /\ e <= l /\ \A x \in C : e <= x
  BY <1>4
<1> HIDE DEF e, S
<1>8. e \in fpos .. l
  BY <1>1, <1>2, <1>7 DEF S
<1>9. ASSUME NEW k \in fpos + 1 .. e - 1 PROVE input.file[k] # LF
  <2>1. k \in fpos + 1 .. l /\ k < e
    BY <1>1, <1>8
  <2> QED
    BY <1>1, <1>2, <1>7, <1>8, <2>1
<1>10. e = fpos + w \/ e = l \/ (e > fpos /\ input.file[e] = LF)
  BY <1>1, <1>2, <1>7 DEF S
<1> QED
  BY <1>5, <1>6, <1>7, <1>8, <1>9, <1>10 DEF e, l

LEMMA PieceBelow ==
  ASSUME input \in Input, NEW k \in 1 .. Len(input.file)
  PROVE  PieceOf(k) \in Int /\ PieceOf(k) <= k
<1> DEFINE S == {1} \cup {n \in 2 .. k : input.file[n - 1] = LF}
           m == Max(S)
           w == Size - 1
<1>1. w \in Nat /\ w > 0 /\ k \in Nat
  BY FileFacts
<1>2. S \in SUBSET Nat /\ S # {} /\ \A x \in S : x <= k
  BY <1>1
<1>3. m \in S
  <2> HIDE DEF S
  <2> QED
    BY <1>1, <1>2, Greatest
<1>4. m \in Nat /\ m <= k
  BY <1>2, <1>3
<1>5. PieceOf(k) = k - ((k - m) % w)
  BY DEF PieceOf
<1> HIDE DEF m, w
<1>6. (k - m) % w \in Nat
  BY <1>1, <1>4
<1> QED
  BY <1>1, <1>5, <1>6

LEMMA PieceIs ==
  ASSUME input \in Input, NEW p, AtPiece(p), NEW k \in p + 1 .. Len(input.file),
         \A n \in p + 1 .. k - 1 : input.file[n] # LF, k - p <= Size - 1
  PROVE  PieceOf(k) = p + 1
<1> DEFINE l == Len(input.file)
           w == Size - 1
           S == {1} \cup {n \in 2 .. k : input.file[n - 1] = LF}
<1>1. l \in Nat /\ w \in Nat /\ w > 1 /\ p \in 0 .. l
  BY FileFacts DEF AtPiece
<1>2. PICK b \in 0 .. p : /\ b = 0 \/ input.file[b] = LF
                          /\ \A n \in b + 1 .. p : input.file[n] # LF
                          /\ (p - b) % w = 0
  BY DEF AtPiece
<1>3. PieceOf(k) = k - ((k - Max(S)) % w)
  BY DEF PieceOf
<1>4. k \in Nat /\ k > p /\ k - p <= w /\ b \in Nat /\ p \in Nat
  BY <1>1
<1> HIDE DEF w, l
<1>5. b + 1 \in S
  <2>1. CASE b = 0
    BY <2>1
  <2>2. CASE b # 0
    <3>1. b + 1 \in 2 .. k /\ b + 1 - 1 = b
      BY <1>4, <2>2
    <3> QED
      BY <1>2, <2>2, <3>1
  <2> QED
    BY <2>1, <2>2
<1>6. ASSUME NEW x \in S PROVE x <= b + 1
  <2>1. CASE x = 1
    BY <1>4, <2>1
  <2>2. CASE x # 1
    <3>1. x \in 2 .. k /\ input.file[x - 1] = LF
      BY <2>2
    <3>2. x - 1 \notin b + 1 .. p /\ x - 1 \notin p + 1 .. k - 1
      BY <1>2, <3>1
    <3> QED
      BY <1>4, <3>1, <3>2
  <2> QED
    BY <2>1, <2>2
<1>7. S \in SUBSET Nat
  BY <1>4
<1>8. Max(S) = b + 1
  <2> HIDE DEF S
  <2> QED
    BY <1>5, <1>6, <1>7, GreatestIs
<1> DEFINE x == p - b
           y == k - (p + 1)
<1>9. x \in Nat /\ y \in Nat /\ y < w /\ x % w = 0 /\ k - (b + 1) = x + y
  BY <1>1, <1>2, <1>4
<1>10. (x + y) % w = y
  <2> HIDE DEF x, y
  <2>1. w \in Nat \ {0}
    BY <1>1
  <2> QED
    BY <1>9, <2>1, Rest
<1>11. (k - Max(S)) % w = y
  BY <1>8, <1>9, <1>10
<1> QED
  BY <1>3, <1>4, <1>11

\* What the send() behind a fgets() adds.
LEMMA KeptStep ==
  ASSUME input \in Input, AtPiece(fpos), fpos < LineEnd
  PROVE  LET n == Len(CString[Line])
         IN /\ CString[Line] \in Seq(Char) /\ n \in Nat
            /\ \A k \in 1 .. n : CString[Line][k] # NUL
            /\ Kept(LineEnd) = Kept(fpos) \cup fpos + 1 .. fpos + n
            /\ (\A k \in 1 .. Len(input.file) : input.file[k] # NUL) =>
                 CString[Line] = Line
<1> DEFINE F == input.file
           p == fpos
           e == LineEnd
           s == CString[Line]
           c == Len(s)
<1>1. /\ F \in Seq(Char) /\ Len(F) \in Nat /\ p \in 0 .. Len(F)
      /\ Size - 1 \in Nat /\ e \in p .. Len(F) /\ e <= p + Size - 1 /\ p < e
      /\ \A k \in p + 1 .. e - 1 : F[k] # LF
  BY FileFacts, LineEndFacts DEF AtPiece
<1>2. Line = SubSeq(F, p + 1, e)
  BY DEF Line
<1> HIDE DEF e, F
<1>3. /\ Line \in Seq(Char) /\ Len(Line) = e - p
      /\ \A k \in 1 .. e - p : Line[k] = F[p + k]
  <2>1. p + 1 \in 1 .. Len(F) + 1 /\ e \in p + 1 - 1 .. Len(F)
    BY <1>1
  <2>2. /\ SubSeq(F, p + 1, e) \in Seq(Char)
        /\ Len(SubSeq(F, p + 1, e)) = e - (p + 1) + 1
        /\ \A k \in 1 .. e - (p + 1) + 1 : SubSeq(F, p + 1, e)[k] = F[p + 1 + k - 1]
    BY <1>1, <2>1, Part
  <2>3. e - (p + 1) + 1 = e - p /\ \A k \in 1 .. e - p : p + 1 + k - 1 = p + k
    BY <1>1
  <2> QED
    BY <1>2, <2>2, <2>3
<1>4. s = Before(Line, {NUL})
  BY <1>3 DEF CString
<1>5. /\ s \in Seq(Char) /\ c \in 0 .. e - p /\ c = First(Line, 1, {NUL}) - 1
      /\ \A k \in 1 .. c : s[k] = Line[k] /\ s[k] # NUL
  <2> HIDE DEF s
  <2> QED
    BY <1>3, <1>4, BeforeFacts
<1>6. c < e - p => Line[c + 1] = NUL
  <2>1. First(Line, 1, {NUL}) <= Len(Line) => Line[First(Line, 1, {NUL})] \in {NUL}
    <3>1. 1 \in 1 .. Len(Line) + 1
      BY <1>1, <1>3
    <3> QED
      BY <1>3, <3>1, FirstFacts
  <2>2. First(Line, 1, {NUL}) \in 1 .. Len(Line) + 1
    <3>1. 1 \in 1 .. Len(Line) + 1
      BY <1>1, <1>3
    <3> QED
      BY <1>3, <3>1, FirstFacts
  <2> QED
    BY <1>1, <1>3, <1>5, <2>1, <2>2
<1> HIDE DEF s
<1>7. ASSUME NEW k \in p + 1 .. e PROVE PieceOf(k) = p + 1
  <2>1. k \in p + 1 .. Len(F) /\ k - p <= Size - 1
    BY <1>1
  <2>2. \A n \in p + 1 .. k - 1 : F[n] # LF
    BY <1>1
  <2> QED
    BY <2>1, <2>2, PieceIs DEF F
<1>8. ASSUME NEW n \in 1 .. p PROVE PieceOf(n) # p + 1
  <2>1. n \in 1 .. Len(F)
    BY <1>1
  <2>2. PieceOf(n) \in Int /\ PieceOf(n) <= n
    BY <2>1, PieceBelow DEF F
  <2> QED
    BY <1>1, <2>2
<1>9. ASSUME NEW k \in 1 .. p PROVE k \in Kept(e) <=> k \in Kept(p)
  <2>1. k \in 1 .. e
    BY <1>1
  <2> QED
    BY <2>1 DEF Kept
<1>10. ASSUME NEW k \in p + 1 .. e
       PROVE  k \in Kept(e) <=> k \in p + 1 .. p + c
  <2>1. k \in 1 .. e /\ k - p \in 1 .. e - p /\ p + (k - p) = k
    BY <1>1
  <2>2. CASE k <= p + c
    <3>1. ASSUME NEW n \in 1 .. k, F[n] = NUL PROVE PieceOf(n) # PieceOf(k)
      <4>1. CASE n \in 1 .. p
        BY <1>7, <1>8, <4>1
      <4>2. CASE n \notin 1 .. p
        <5>1. n - p \in 1 .. c /\ p + (n - p) = n /\ n - p \in 1 .. e - p
          BY <1>1, <1>5, <2>2, <4>2
        <5>2. s[n - p] = F[n] /\ s[n - p] # NUL
          BY <1>3, <1>5, <5>1
        <5> QED
          BY <3>1, <5>2
      <4> QED
        BY <4>1, <4>2
    <3>2. k \in Kept(e)
      BY <2>1, <3>1 DEF Kept, F
    <3>3. k \in p + 1 .. p + c
      BY <1>1, <1>5, <2>2
    <3> QED
      BY <3>2, <3>3
  <2>3. CASE ~(k <= p + c)
    <3>1. c + 1 \in 1 .. e - p /\ c < e - p /\ p + c + 1 \in 1 .. k
          /\ p + c + 1 \in p + 1 .. e /\ p + (c + 1) = p + c + 1
      BY <1>1, <1>5, <2>3
    <3>2. F[p + c + 1] = NUL
      BY <1>3, <1>6, <3>1
    <3>3. PieceOf(p + c + 1) = PieceOf(k)
      BY <1>7, <3>1
    <3>4. k \notin Kept(e)
      BY <3>1, <3>2, <3>3 DEF Kept, F
    <3>5. k \notin p + 1 .. p + c
      BY <1>1, <1>5, <2>3
    <3> QED
      BY <3>4, <3>5
  <2> QED
    BY <2>2, <2>3
<1>11. Kept(e) = Kept(p) \cup p + 1 .. p + c
  <2>1. Kept(e) \subseteq 1 .. e /\ Kept(p) \subseteq 1 .. p
    BY DEF Kept
  <2>2. 1 .. e = 1 .. p \cup p + 1 .. e /\ p + 1 .. p + c \subseteq p + 1 .. e
        /\ 1 .. p \cap p + 1 .. e = {}
    BY <1>1, <1>5
  <2> QED
    BY <1>9, <1>10, <2>1, <2>2
<1>12. ASSUME \A k \in 1 .. Len(F) : F[k] # NUL PROVE s = Line
  <2>1. ASSUME NEW k \in 1 .. Len(Line) PROVE Line[k] \notin {NUL}
    <3>1. p + k \in 1 .. Len(F) /\ Line[k] = F[p + k]
      BY <1>1, <1>3
    <3> QED
      BY <1>12, <3>1
  <2> QED
    BY <1>3, <1>4, <2>1, BeforeAll
<1>13. c \in Nat
  BY <1>1, <1>5
<1> QED
  BY <1>5, <1>11, <1>12, <1>13 DEF F, s, e

LEMMA CatInit == RequestInit => CatInv
<1> SUFFICES ASSUME RequestInit PROVE CatInv
  OBVIOUS
<1>1. input \in Input /\ fpos = 0 /\ sent = << >> /\ pc = "request"
  BY DEF RequestInit
<1>2. 0 \in 0 .. Len(input.file)
  BY <1>1, FileFacts
<1> QED
  BY <1>1, <1>2 DEF CatInv

\* The file is sent from its beginning.
LEMMA CatStarts ==
  ASSUME input \in Input, fpos = 0, sent = << >>
  PROVE  AtPiece(fpos) /\ Copied(fpos)
<1>1. input.file \in Seq(Char) /\ Len(input.file) \in Nat /\ Size - 1 \in Nat \ {0}
  BY FileFacts
<1>2. AtPiece(0)
  <2> DEFINE w == Size - 1
  <2>1. w \in Nat \ {0}
    BY <1>1
  <2> HIDE DEF w
  <2>2. (0 - 0) % w = 0
    BY <2>1
  <2>3. 0 \in 0 .. 0 /\ 0 \in 0 .. Len(input.file) /\ 0 + 1 .. 0 = {}
    BY <1>1
  <2>4. \E b \in 0 .. 0 : /\ b = 0 \/ input.file[b] = LF
                          /\ \A k \in b + 1 .. 0 : input.file[k] # LF
                          /\ (0 - b) % w = 0
    BY <2>2, <2>3
  <2> QED
    BY <2>3, <2>4 DEF AtPiece, w
<1>3. Kept(0) = {}
  BY DEF Kept
<1>4. Cardinality(Kept(0)) = 0 /\ IsFiniteSet(Kept(0))
  BY <1>3, FS_EmptySet
<1>5. SubSeq(input.file, 1, 0) = << >>
  OBVIOUS
<1>6. Len(sent) = 0 /\ sent \in Seq(Char)
  OBVIOUS
<1>7. Copied(0)
  BY <1>4, <1>5, <1>6 DEF Copied
<1> QED
  BY <1>2, <1>7

\* A fgets() that does not hit the end.
LEMMA CatSends ==
  ASSUME CatInv, pc = "file", ~HitsEnd, Cat
  PROVE  AtPiece(fpos)' /\ Copied(fpos)'
<1> DEFINE F == input.file
           p == fpos
           e == LineEnd
           w == Size - 1
           s == CString[Line]
           c == Len(s)
<1>1. AtPiece(p) /\ Copied(p) /\ input \in Input
  BY DEF CatInv
<1>2. fpos' = e /\ sent' = sent \o s /\ input' = input
  BY DEF Cat
<1>3. /\ F \in Seq(Char) /\ Len(F) \in Nat /\ p \in 0 .. Len(F)
      /\ w \in Nat \ {0} /\ w > 1 /\ e \in p .. Len(F) /\ e <= p + w
      /\ \A k \in p + 1 .. e - 1 : F[k] # LF
      /\ e = p + w \/ e = Len(F) \/ (e > p /\ F[e] = LF)
  BY <1>1, FileFacts, LineEndFacts, Constants DEF AtPiece
<1>4. e # Len(F) \/ (p # e /\ F[e] = LF) \/ ~(e < p + w)
  BY <1>1, Constants DEF HitsEnd
<1> HIDE DEF e, F, w
<1>5. p < e /\ (e = p + w \/ F[e] = LF)
  BY <1>3, <1>4
<1>6. AtPiece(fpos)'
  <2>1. CASE F[e] = LF
    <3>1. (e - e) % w = 0 /\ e \in 0 .. e /\ e \in 0 .. Len(F) /\ e + 1 .. e = {}
      BY <1>3
    <3>2. \E b \in 0 .. e : /\ b = 0 \/ F[b] = LF
                            /\ \A k \in b + 1 .. e : F[k] # LF
                            /\ (e - b) % w = 0
      BY <2>1, <3>1
    <3> QED
      BY <1>2, <3>1, <3>2 DEF AtPiece, F, w
  <2>2. CASE F[e] # LF
    <3>1. e = p + w
      BY <1>5, <2>2
    <3>2. PICK b \in 0 .. p : /\ b = 0 \/ F[b] = LF
                              /\ \A k \in b + 1 .. p : F[k] # LF
                              /\ (p - b) % w = 0
      BY <1>1 DEF AtPiece, F, w
    <3>3. (e - b) % w = 0
      <4> DEFINE x == p - b
      <4>1. x \in Int /\ x % w = 0 /\ e - b = x + w
        BY <1>3, <3>1, <3>2
      <4> HIDE DEF x
      <4>2. (x + w) % w = 0
        <5> DEFINE q == x \div w
        <5>1. q \in Int /\ x = w * q
          BY <1>3, <4>1
        <5>2. x + w = w * (q + 1)
          BY <1>3, <5>1
        <5> HIDE DEF q
        <5>3. (w * (q + 1)) % w = 0
          BY <1>3, <5>1
        <5> QED
          BY <5>2, <5>3
      <4> QED
        BY <4>1, <4>2
    <3>4. ASSUME NEW k \in b + 1 .. e PROVE F[k] # LF
      <4>1. k \in b + 1 .. p \/ k \in p + 1 .. e - 1 \/ k = e
        BY <1>3
      <4> QED
        BY <1>3, <2>2, <3>2, <4>1
    <3>5. b \in 0 .. e /\ e \in 0 .. Len(F)
      BY <1>3
    <3>6. \E a \in 0 .. e : /\ a = 0 \/ F[a] = LF
                            /\ \A k \in a + 1 .. e : F[k] # LF
                            /\ (e - a) % w = 0
      BY <3>2, <3>3, <3>4, <3>5
    <3> QED
      BY <1>2, <3>5, <3>6 DEF AtPiece, F, w
  <2> QED
    BY <2>1, <2>2
<1>7. /\ s \in Seq(Char) /\ c \in Nat /\ \A k \in 1 .. c : s[k] # NUL
      /\ Kept(e) = Kept(p) \cup p + 1 .. p + c
      /\ (\A k \in 1 .. Len(F) : F[k] # NUL) => s = SubSeq(F, p + 1, e)
  BY <1>1, <1>5, KeptStep DEF e, F, Line
<1>8. /\ sent \in Seq(Char) /\ \A k \in 1 .. Len(sent) : sent[k] # NUL
      /\ IsFiniteSet(Kept(p)) /\ Len(sent) = Cardinality(Kept(p))
      /\ (\A k \in 1 .. Len(F) : F[k] # NUL) => sent = SubSeq(F, 1, p)
  BY <1>1 DEF Copied, F
<1> DEFINE t == sent \o s
           K == Kept(p)
           J == p + 1 .. p + c
<1>9. K \subseteq 1 .. p
  BY DEF Kept
<1> HIDE DEF s, K
<1>10. /\ t \in Seq(Char) /\ Len(t) = Len(sent) + c
       /\ \A k \in 1 .. Len(t) : t[k] # NUL
  BY <1>7, <1>8
<1>11. IsFiniteSet(J) /\ Cardinality(J) = c
  <2> DEFINE a == p + 1
             b == p + c
  <2>1. a \in Int /\ b \in Int /\ (a > b => c = 0) /\ b - a + 1 = c
    BY <1>3, <1>7
  <2> HIDE DEF a, b
  <2>2. IsFiniteSet(a .. b) /\ Cardinality(a .. b) = IF a > b THEN 0 ELSE b - a + 1
    BY <2>1, FS_Interval
  <2>3. Cardinality(a .. b) = c
    BY <2>1, <2>2
  <2> QED
    BY <2>2, <2>3 DEF a, b
<1>12. IsFiniteSet(K \cup J) /\ Cardinality(K \cup J) = Len(t)
  <2>1. K \cap J = {}
    BY <1>3, <1>7, <1>9
  <2>2. IsFiniteSet(K) /\ Cardinality(K) = Len(sent)
    BY <1>8 DEF K
  <2> HIDE DEF J
  <2>3. /\ IsFiniteSet(K \cup J)
        /\ Cardinality(K \cup J) = Cardinality(K) + Cardinality(J) - Cardinality(K \cap J)
    BY <1>11, <2>2, FS_Union
  <2>4. Cardinality(K \cap J) = 0
    BY <2>1, FS_EmptySet
  <2>5. Len(sent) \in Nat
    BY <1>8
  <2> QED
    BY <1>7, <1>10, <1>11, <2>2, <2>3, <2>4, <2>5
<1>13. ASSUME \A k \in 1 .. Len(F) : F[k] # NUL PROVE t = SubSeq(F, 1, e)
  <2>1. sent = SubSeq(F, 1, p) /\ s = SubSeq(F, p + 1, e)
    BY <1>7, <1>8, <1>13
  <2>2. 1 \in Nat /\ 1 <= p + 1 /\ p <= e /\ e <= Len(F)
    BY <1>3
  <2>3. /\ SubSeq(F, 1, p) \in Seq(Char) /\ Len(SubSeq(F, 1, p)) = p - 1 + 1
        /\ \A k \in 1 .. p - 1 + 1 : SubSeq(F, 1, p)[k] = F[1 + k - 1]
    <3>1. 1 \in 1 .. Len(F) + 1 /\ p \in 1 - 1 .. Len(F)
      BY <1>3
    <3> QED
      BY <1>3, <3>1, Part
  <2>4. /\ SubSeq(F, p + 1, e) \in Seq(Char) /\ Len(SubSeq(F, p + 1, e)) = e - (p + 1) + 1
        /\ \A k \in 1 .. e - (p + 1) + 1 : SubSeq(F, p + 1, e)[k] = F[p + 1 + k - 1]
    <3>1. p + 1 \in 1 .. Len(F) + 1 /\ e \in p + 1 - 1 .. Len(F)
      BY <1>3
    <3> QED
      BY <1>3, <3>1, Part
  <2>5. /\ SubSeq(F, 1, e) \in Seq(Char) /\ Len(SubSeq(F, 1, e)) = e - 1 + 1
        /\ \A k \in 1 .. e - 1 + 1 : SubSeq(F, 1, e)[k] = F[1 + k - 1]
    <3>1. 1 \in 1 .. Len(F) + 1 /\ e \in 1 - 1 .. Len(F)
      BY <1>3
    <3> QED
      BY <1>3, <3>1, Part
  <2> DEFINE u == SubSeq(F, 1, e)
  <2>6. /\ Len(sent) = p /\ c = e - p /\ Len(u) = e /\ u \in Seq(Char)
        /\ \A k \in 1 .. p : sent[k] = F[k]
        /\ \A k \in 1 .. e - p : s[k] = F[p + k]
        /\ \A k \in 1 .. e : u[k] = F[k]
    <3>1. p - 1 + 1 = p /\ e - (p + 1) + 1 = e - p /\ e - 1 + 1 = e
          /\ (\A k \in 1 .. p : 1 + k - 1 = k) /\ (\A k \in 1 .. e : 1 + k - 1 = k)
          /\ \A k \in 1 .. e - p : p + 1 + k - 1 = p + k
      BY <1>3
    <3> QED
      BY <2>1, <2>3, <2>4, <2>5, <3>1
  <2> HIDE DEF u
  <2>7. ASSUME NEW k \in 1 .. e PROVE t[k] = u[k]
    <3>1. CASE k <= p
      <4>1. k \in 1 .. Len(sent) /\ k \in 1 .. p
        BY <1>3, <2>6, <3>1
      <4>2. t[k] = sent[k]
        BY <1>7, <1>8, <4>1
      <4> QED
        BY <2>6, <4>1, <4>2
    <3>2. CASE ~(k <= p)
      <4>1. k - p \in 1 .. e - p /\ p + (k - p) = k /\ k \in Len(sent) + 1 .. Len(sent) + c
            /\ k - Len(sent) = k - p
        BY <1>3, <2>6, <3>2
      <4>2. t[k] = s[k - p]
        BY <1>7, <1>8, <4>1
      <4> QED
        BY <2>6, <4>1, <4>2
    <3> QED
      BY <3>1, <3>2
  <2>8. Len(t) = e /\ Len(u) = e
    BY <1>3, <1>10, <2>6
  <2> HIDE DEF t
  <2> QED
    BY <1>10, <2>6, <2>7, <2>8, Same DEF u
<1>14. Kept(fpos)' = K \cup J
  <2>1. Kept(fpos)' = Kept(e)
    BY <1>2 DEF Kept, PieceOf
  <2> QED
    BY <1>7, <2>1 DEF K
<1>15. Copied(fpos)'
  <2>1. /\ sent' \in Seq(Char) /\ \A k \in 1 .. Len(sent') : sent'[k] # NUL
        /\ IsFiniteSet(Kept(fpos)') /\ Len(sent') = Cardinality(Kept(fpos)')
    BY <1>2, <1>10, <1>12, <1>14 DEF s
  <2>2. (\A k \in 1 .. Len(input'.file) : input'.file[k] # NUL) =>
          sent' = SubSeq(input'.file, 1, fpos')
    BY <1>2, <1>13 DEF s, F
  <2> QED
    BY <2>1, <2>2 DEF Copied
<1> QED
  BY <1>6, <1>15

\* A fgets() that hits the end.
LEMMA CatEnds ==
  ASSUME CatInv, pc = "file", HitsEnd
  PROVE  /\ fpos \in 0 .. Len(input.file) /\ LineEnd = Len(input.file)
         /\ AtPiece(fpos) /\ Copied(fpos) /\ Len(input.file) - fpos < Size - 1
         /\ \A k \in fpos + 1 .. Len(input.file) : input.file[k] # LF
<1>1. /\ input \in Input /\ AtPiece(fpos) /\ Copied(fpos)
      /\ fpos \in 0 .. Len(input.file)
  BY DEF CatInv
<1>2. /\ LineEnd = Len(input.file) /\ LineEnd < fpos + Size - 1
      /\ fpos = LineEnd \/ input.file[LineEnd] # LF
  BY DEF HitsEnd
<1>3. \A k \in fpos + 1 .. LineEnd - 1 : input.file[k] # LF
  BY <1>1, LineEndFacts
<1> DEFINE l == Len(input.file)
<1>4. l \in Nat /\ Size \in Nat /\ fpos \in 0 .. l
  BY <1>1, FileFacts, Constants
<1>5. l < fpos + Size - 1 /\ (fpos = l \/ input.file[l] # LF)
      /\ \A k \in fpos + 1 .. l - 1 : input.file[k] # LF
  BY <1>2, <1>3
<1> HIDE DEF l
<1>6. \A k \in fpos + 1 .. l : k \in fpos + 1 .. l - 1 \/ (k = l /\ fpos # l)
  BY <1>4
<1>7. l - fpos < Size - 1
  BY <1>4, <1>5
<1> QED
  BY <1>1, <1>2, <1>5, <1>6, <1>7 DEF l

\* Only cat() changes what is sent.
LEMMA CatKept ==
  ASSUME CatInv, UNCHANGED <<input, fileVars>>, Reading \/ pc' = pc,
         pc' \in {"request", "headers", "file", "done"}
  PROVE  CatInv'
<1>1. /\ input' = input /\ fpos' = fpos /\ sent' = sent
  BY DEF fileVars
<1>2. \A p : AtPiece(p)' <=> AtPiece(p)
  BY <1>1 DEF AtPiece
<1>3. \A p : Copied(p)' <=> Copied(p)
  BY <1>1 DEF Copied, Kept, PieceOf
<1>4. input \in Input /\ fpos \in 0 .. Len(input.file)
  BY DEF CatInv
<1>5. CASE Reading
  <2>1. fpos = 0 /\ sent = << >>
    BY <1>5 DEF CatInv
  <2>2. AtPiece(fpos) /\ Copied(fpos)
    BY <1>4, <2>1, CatStarts
  <2> QED
    BY <1>1, <1>2, <1>3, <1>4, <2>1, <2>2 DEF CatInv, AtPiece, Copied, Kept, PieceOf, Reading
<1>6. CASE ~Reading /\ pc' = pc
  <2>1. Reading' = Reading
    BY <1>6 DEF Reading
  <2>2. pc = "file" => AtPiece(fpos)' /\ Copied(fpos)'
    <3>1. AtPiece(fpos)' <=> AtPiece(fpos)
      BY <1>1 DEF AtPiece
    <3>2. Copied(fpos)' <=> Copied(fpos)
      BY <1>1 DEF Copied, Kept, PieceOf
    <3> QED
      BY <3>1, <3>2 DEF CatInv
  <2>3. (pc = "done" /\ fpos > 0 =>
           \E p \in 0 .. Len(input.file) :
             /\ AtPiece(p) /\ Copied(p) /\ Len(input.file) - p < Size - 1
             /\ \A k \in p + 1 .. Len(input.file) : input.file[k] # LF)'
    BY <1>1, <1>2, <1>3, <1>6 DEF CatInv
  <2> QED
    BY <1>1, <1>4, <1>6, <2>1, <2>2, <2>3 DEF CatInv
<1> QED
  BY <1>5, <1>6

LEMMA CatStep == CatInv /\ [RequestNext]_requestVars => CatInv'
<1> SUFFICES ASSUME CatInv, [RequestNext]_requestVars PROVE CatInv'
  OBVIOUS
<1>1. CASE Arrive \/ Close \/ UNCHANGED requestVars
  <2>1. UNCHANGED <<input, fileVars>> /\ pc' = pc
    BY <1>1 DEF Arrive, Close, requestVars
  <2> QED
    BY <2>1, CatKept DEF CatInv
<1>2. CASE RecvChar \/ RecvEnd \/ Peek
  <2>1. Reading /\ UNCHANGED <<input, fileVars>>
    BY <1>2 DEF RecvChar, RecvEnd, Peek, Other
  <2>2. \A line : LineDone(line) => pc' \in {"request", "headers", "file", "done"}
    BY DEF LineDone, RequestLine, Header, Reading
  <2>3. \A line : Stored(line) => pc' \in {"request", "headers", "file", "done"}
    BY <2>1, <2>2 DEF Stored, Reading
  <2>4. pc' \in {"request", "headers", "file", "done"}
    BY <1>2, <2>1, <2>2, <2>3 DEF RecvChar, RecvEnd, Peek, Reading
  <2> QED
    BY <2>1, <2>4, CatKept
<1>3. CASE Cat
  <2>1. pc = "file" /\ fpos' = LineEnd /\ input' = input /\ input \in Input
    BY <1>3 DEF Cat, CatInv
  <2>2. LineEnd \in 0 .. Len(input.file)
    <3>1. LineEnd \in fpos .. Len(input.file) /\ fpos \in Nat /\ Len(input.file) \in Nat
      BY <2>1, LineEndFacts, FileFacts DEF CatInv
    <3> QED
      BY <3>1
  <2>3. CASE HitsEnd
    <3>1. pc' = "done" /\ sent' = sent
      BY <1>3, <2>3 DEF Cat
    <3>2. \E p \in 0 .. Len(input.file) :
            /\ AtPiece(p) /\ Copied(p) /\ Len(input.file) - p < Size - 1
            /\ \A k \in p + 1 .. Len(input.file) : input.file[k] # LF
      BY <2>1, <2>3, CatEnds
    <3>3. \A p : (AtPiece(p)' <=> AtPiece(p)) /\ (Copied(p)' <=> Copied(p))
      BY <2>1, <3>1 DEF AtPiece, Copied, Kept, PieceOf
    <3> QED
      BY <2>1, <2>2, <3>1, <3>2, <3>3 DEF CatInv, Reading
  <2>4. CASE ~HitsEnd
    <3>1. pc' = "file"
      BY <1>3, <2>1, <2>4 DEF Cat
    <3>2. AtPiece(fpos)' /\ Copied(fpos)'
      BY <1>3, <2>1, <2>4, CatSends
    <3> QED
      BY <2>1, <2>2, <3>1, <3>2 DEF CatInv, Reading
  <2> QED
    BY <2>3, <2>4
<1> QED
  BY <1>1, <1>2, <1>3 DEF RequestNext, RequestStep

LEMMA CatSuffices == CatInv => FileAsSent
<1> SUFFICES ASSUME CatInv, pc = "done", fpos > 0 PROVE FileAsSent
  BY DEF FileAsSent
<1> DEFINE F == input.file
           l == Len(F)
           w == Size - 1
           S == {k \in 0 .. l : \A n \in k + 1 .. l : F[n] # LF}
           last == Min(S)
           full == l - ((l - last) % w)
<1>1. PICK p \in 0 .. l : /\ AtPiece(p) /\ Copied(p) /\ l - p < w
                          /\ \A k \in p + 1 .. l : F[k] # LF
  BY DEF CatInv
<1>2. l \in Nat /\ w \in Nat \ {0} /\ input \in Input
  BY FileFacts DEF CatInv
<1>3. PICK b \in 0 .. p : /\ b = 0 \/ F[b] = LF
                          /\ \A k \in b + 1 .. p : F[k] # LF
                          /\ (p - b) % w = 0
  BY <1>1 DEF AtPiece
<1> HIDE DEF l, w
<1>4. b \in S
  <2>1. ASSUME NEW n \in b + 1 .. l PROVE F[n] # LF
    <3>1. n \in b + 1 .. p \/ n \in p + 1 .. l
      BY <1>2
    <3> QED
      BY <1>1, <1>3, <3>1
  <2>2. b \in 0 .. l
    BY <1>2
  <2> QED
    BY <2>1, <2>2
<1>5. ASSUME NEW x \in S PROVE b <= x
  <2>1. CASE b = 0
    BY <1>2, <2>1
  <2>2. CASE b # 0
    <3>1. b \notin x + 1 .. l
      BY <1>3, <2>2
    <3> QED
      BY <1>2, <3>1
  <2> QED
    BY <2>1, <2>2
<1>6. last = b
  <2>1. S \in SUBSET Nat
    BY <1>2
  <2> HIDE DEF S
  <2> QED
    BY <1>4, <1>5, <2>1, LeastIs
<1> HIDE DEF last
<1>7. full = p
  <2> DEFINE x == p - b
             y == l - p
  <2>1. x \in Nat /\ y \in Nat /\ y < w /\ x % w = 0 /\ l - b = x + y
    BY <1>1, <1>2, <1>3
  <2> HIDE DEF x, y
  <2>2. (x + y) % w = y
    BY <1>2, <2>1, Rest
  <2>3. (l - last) % w = y
    BY <1>6, <2>1, <2>2
  <2> QED
    BY <1>2, <2>3 DEF y
<1> HIDE DEF full
<1>8. CASE \A k \in 1 .. l : F[k] # NUL
  <2>1. sent = SubSeq(F, 1, full)
    BY <1>1, <1>7, <1>8 DEF Copied, l
  <2> QED
    BY <1>8, <2>1 DEF FileAsSent, full, last, l, w
<1>9. CASE ~\A k \in 1 .. l : F[k] # NUL
  <2>1. /\ \A k \in 1 .. Len(sent) : sent[k] # NUL
        /\ Len(sent) = Cardinality({k \in 1 .. full :
             \A n \in 1 .. k : F[n] = NUL => PieceOf(n) # PieceOf(k)})
    BY <1>1, <1>7 DEF Copied, Kept
  <2> QED
    BY <1>9, <2>1 DEF FileAsSent, full, last, l, w
<1> QED
  BY <1>8, <1>9

(***************************************************************************)
(* A file is sent as it is, up to the last full buffer of a last line      *)
(* without newline; of a line with a 0 what stands behind it is lost       *)
(* (httpd.c:154-164).                                                      *)
(***************************************************************************)
THEOREM FileCorrect == RequestSpec => []FileAsSent
BY CatInit, CatStep, CatSuffices, PTL DEF RequestSpec

------------------------------------------------------------------------------
(* The request line.                                                       *)

LEMMA MinPair ==
  ASSUME NEW x \in Nat, NEW y \in Nat
  PROVE  Min({x, y}) = IF x <= y THEN x ELSE y
<1> DEFINE S == {x, y}
           m == IF x <= y THEN x ELSE y
<1>1. S \in SUBSET Nat /\ m \in S /\ \A n \in S : m <= n
  OBVIOUS
<1> HIDE DEF S, m
<1>2. Min(S) = m
  BY <1>1, LeastIs
<1> QED
  BY <1>2 DEF S, m

\* The array buf behind a line that fits.
LEMMA ArrayFacts ==
  ASSUME input \in Input, NEW t \in Seq(Char), Len(t) < Size - 1
  PROVE  LET a == Array(Append(t, LF))
         IN /\ a \in Seq(Char) /\ Len(a) = Size
            /\ \A k \in 1 .. Len(t) : a[k] = t[k]
            /\ a[Len(t) + 1] = LF /\ a[Len(t) + 2] = NUL
<1> DEFINE g == input.garbage
           l == Len(t)
           u == Append(t, LF)
           v == u \o <<NUL>>
           r == SubSeq(g, l + 1 + 2, Size)
           a == v \o r
<1>1. l \in Nat /\ l < Size - 1 /\ Size \in Nat /\ g \in [1 .. Size -> Char]
      /\ LF \in Char /\ NUL \in Char
  <2>1. l \in Nat /\ l < Size - 1 /\ Size \in Nat
    BY Constants
  <2>2. g \in [1 .. Size -> Char]
    BY Constants
  <2> QED
    BY <2>1, <2>2, Characters
<1>2. g \in Seq(Char) /\ Len(g) = Size
  <2> HIDE DEF g
  <2> QED
    BY <1>1
<1> HIDE DEF g
<1>3. r \in Seq(Char) /\ Len(r) = Size - (l + 2)
  <2>1. l + 1 + 2 \in 1 .. Len(g) + 1 /\ Size \in l + 1 + 2 - 1 .. Len(g)
        /\ Size - (l + 1 + 2) + 1 = Size - (l + 2)
    BY <1>1, <1>2
  <2> HIDE DEF l
  <2> QED
    BY <1>2, <2>1, Part
<1> HIDE DEF r
<1>4. /\ u \in Seq(Char) /\ Len(u) = l + 1 /\ u[l + 1] = LF
      /\ \A k \in 1 .. l : u[k] = t[k]
  BY <1>1
<1> HIDE DEF u
<1>5. /\ v \in Seq(Char) /\ Len(v) = l + 2 /\ v[l + 2] = NUL /\ v[l + 1] = LF
      /\ \A k \in 1 .. l : v[k] = t[k]
  <2>1. <<NUL>> \in Seq(Char) /\ Len(<<NUL>>) = 1 /\ <<NUL>>[1] = NUL
    BY <1>1
  <2>2. v \in Seq(Char) /\ Len(v) = l + 1 + 1
    BY <1>1, <1>4, <2>1
  <2>3. \A k \in 1 .. l + 1 : v[k] = u[k]
    BY <1>1, <1>4, <2>1
  <2>4. v[l + 2] = <<NUL>>[1]
    BY <1>1, <1>4, <2>1
  <2> HIDE DEF v, l
  <2>5. l + 1 + 1 = l + 2 /\ l + 1 \in 1 .. l + 1 /\ 1 .. l \subseteq 1 .. l + 1
    BY <1>1
  <2> QED
    BY <1>4, <2>1, <2>2, <2>3, <2>4, <2>5
<1> HIDE DEF v
<1>6. /\ a \in Seq(Char) /\ Len(a) = l + 2 + (Size - (l + 2))
      /\ \A k \in 1 .. l + 2 : a[k] = v[k]
  <2> HIDE DEF l
  <2>1. a \in Seq(Char) /\ Len(a) = Len(v) + Len(r)
    BY <1>3, <1>5
  <2>2. \A k \in 1 .. Len(v) : a[k] = v[k]
    BY <1>3, <1>5
  <2> QED
    BY <1>3, <1>5, <2>1, <2>2
<1>7. l + 2 + (Size - (l + 2)) = Size
  BY <1>1
<1>8. Array(Append(t, LF)) = a
  BY <1>4 DEF Array, a, v, u, r, g
<1> HIDE DEF a
<1> QED
  BY <1>1, <1>5, <1>6, <1>7, <1>8 DEF l

\* Characters of a line between its end and its words.
Plain(t) == \A k \in 1 .. Len(t) : t[k] \notin {CR, LF, NUL}

\* A part of text is a C string.
LEMMA PlainPart ==
  ASSUME NEW s \in Seq(Char), Plain(s)
  PROVE  CString[s] = s
<1>1. \A k \in 1 .. Len(s) : s[k] \notin {NUL}
  BY DEF Plain
<1> QED
  BY <1>1, BeforeAll DEF CString

\* Behind a GET or a POST the first loop has stopped at a blank or the end.
LEMMA MethodPart ==
  ASSUME input \in Input, NEW t \in Seq(Char), Len(t) < Size - 1, Plain(t),
         NEW a, a = Array(Append(t, LF)),
         CString[SubSeq(a, 1, MethodEnd[a] - 1)] \in {<<"G">>, <<"P">>}
  PROVE  /\ MethodEnd[a] = 2 /\ Len(t) > 0
         /\ Len(t) > 1 => t[2] = SP
         /\ CString[SubSeq(a, 1, MethodEnd[a] - 1)] = Before(t, {SP})
<1> DEFINE l == Len(t)
           f == First(a, 1, Space)
           m == MethodEnd[a]
           s == SubSeq(a, 1, m - 1)
<1>1. /\ a \in Seq(Char) /\ Len(a) = Size /\ l \in Nat /\ l + 2 <= Size
      /\ \A k \in 1 .. l : a[k] = t[k] /\ t[k] \notin {CR, LF, NUL}
      /\ a[l + 1] = LF
  BY ArrayFacts, Constants DEF Plain
<1>2. /\ f \in 1 .. Size + 1
      /\ f <= Size => a[f] \in Space
      /\ \A n \in 1 .. f - 1 : a[n] \notin Space
  <2>1. 1 \in 1 .. Len(a) + 1
    BY <1>1
  <2> QED
    BY <1>1, <2>1, FirstFacts
<1>3. m = IF WordSize <= f THEN WordSize ELSE f
  <2>1. m = Min({WordSize, f})
    BY <1>1 DEF MethodEnd
  <2>2. f \in Nat /\ WordSize \in Nat
    BY <1>2, Constants
  <2> HIDE DEF f, m
  <2>3. Min({WordSize, f}) = IF WordSize <= f THEN WordSize ELSE f
    BY <2>2, MinPair
  <2> QED
    BY <2>1, <2>3
<1> HIDE DEF l, f, m
<1>4. f <= l + 1
  <2>1. LF \in Space
    BY DEF Space
  <2>2. l + 1 \notin 1 .. f - 1
    BY <1>1, <1>2, <2>1
  <2> QED
    BY <1>1, <1>2, <2>2
<1>5. m \in 1 .. l + 1 /\ WordSize > 2 /\ WordSize \in Nat
  BY <1>1, <1>2, <1>3, <1>4, Constants
<1>6. s \in Seq(Char) /\ Len(s) = m - 1 /\ \A k \in 1 .. m - 1 : s[k] = t[k]
  <2>1. 1 \in 1 .. Len(a) + 1 /\ m - 1 \in 1 - 1 .. Len(a) /\ m - 1 - 1 + 1 = m - 1
    BY <1>1, <1>5
  <2>2. /\ s \in Seq(Char) /\ Len(s) = m - 1 - 1 + 1
        /\ \A k \in 1 .. m - 1 - 1 + 1 : s[k] = a[1 + k - 1]
    BY <1>1, <2>1, Part
  <2>3. \A k \in 1 .. m - 1 : 1 + k - 1 = k /\ k \in 1 .. l
    BY <1>1, <1>5
  <2> QED
    BY <1>1, <2>1, <2>2, <2>3
<1> HIDE DEF s
<1>7. CString[s] = s
  <2>1. Plain(s)
    <3>1. \A k \in 1 .. Len(s) : k \in 1 .. l
      BY <1>1, <1>5, <1>6
    <3> QED
      BY <1>1, <1>6, <3>1 DEF Plain
  <2> QED
    BY <1>6, <2>1, PlainPart
<1>8. s \in {<<"G">>, <<"P">>}
  BY <1>7 DEF s, m
<1>9. Len(s) = 1 /\ s[1] \in {"G", "P"}
  BY <1>8
<1>10. m = 2 /\ f = 2 /\ l > 0
  <2>1. m = 2
    <3>1. Len(s) = m - 1
      BY <1>6
    <3>2. m - 1 = 1
      BY <1>9, <3>1
    <3>3. m \in Int
      BY <1>5
    <3> QED
      BY <3>2, <3>3
  <2>2. f = 2
    BY <1>3, <1>5, <2>1
  <2> QED
    BY <1>1, <1>5, <2>1, <2>2
<1>11. t[1] \in {"G", "P"}
  BY <1>6, <1>9, <1>10
<1>12. ASSUME l > 1 PROVE t[2] = SP
  <2>1. a[2] = t[2] /\ t[2] \notin {CR, LF}
    BY <1>1, <1>12
  <2>2. a[2] \in Space
    BY <1>1, <1>2, <1>10, Constants
  <2> QED
    BY <2>1, <2>2 DEF Space
<1>13. First(t, 1, {SP}) = 2
  <2>1. 2 \in 1 .. Len(t) + 1 /\ 1 \in 1 .. Len(t) + 1
    BY <1>1, <1>10 DEF l
  <2>2. 2 <= Len(t) => t[2] \in {SP}
    <3>1. Len(t) = l /\ (2 <= l => l > 1)
      BY <1>1 DEF l
    <3> QED
      BY <1>12, <3>1
  <2>3. \A n \in 1 .. 2 - 1 : t[n] \notin {SP}
    <3>1. t[1] # SP /\ 1 .. 2 - 1 = {1}
      BY <1>11, Characters
    <3> QED
      BY <3>1
  <2> QED
    BY <2>1, <2>2, <2>3, FirstIs
<1>14. Before(t, {SP}) = s
  <2> DEFINE u == Before(t, {SP})
  <2>1. /\ u \in Seq(Char) /\ Len(u) = First(t, 1, {SP}) - 1
        /\ \A k \in 1 .. Len(u) : u[k] = t[k]
    BY BeforeFacts
  <2> HIDE DEF u
  <2>2. Len(u) = 1 /\ 1 .. 1 = {1}
    BY <1>13, <2>1
  <2>3. u[1] = t[1] /\ s[1] = t[1]
    <3>1. 1 \in 1 .. Len(u) /\ 1 \in 1 .. m - 1
      BY <1>10, <2>2
    <3>2. s[1] = t[1]
      BY <1>6, <3>1
    <3> QED
      BY <2>1, <3>1, <3>2
  <2>4. \A k \in 1 .. Len(u) : u[k] = s[k]
    BY <2>2, <2>3
  <2>5. u = s
    BY <1>6, <1>9, <2>1, <2>2, <2>4, Same
  <2> QED
    BY <2>5 DEF u
<1> QED
  BY <1>7, <1>10, <1>12, <1>14 DEF l, m, s

\* Nothing but blanks stands behind the method.
LEMMA NoUrl ==
  ASSUME input \in Input, NEW t \in Seq(Char), Len(t) < Size - 1, Len(t) > 0,
         \A k \in 2 .. Len(t) : t[k] = SP,
         NEW a, a = Array(Append(t, LF)), MethodEnd[a] = 2
  PROVE  CString[SubSeq(a, UrlBegin[a], UrlEnd[a] - 1)] = << >>
<1> DEFINE l == Len(t)
           b == UrlBegin[a]
           e == UrlEnd[a]
           f == First(a, b, Space)
           s == SubSeq(a, b, e - 1)
<1>1. /\ a \in Seq(Char) /\ Len(a) = Size /\ l \in Nat /\ l > 0 /\ l + 2 <= Size
      /\ \A k \in 1 .. l : a[k] = t[k]
      /\ a[l + 1] = LF /\ a[l + 2] = NUL
  <2>1. /\ a \in Seq(Char) /\ Len(a) = Size
        /\ \A k \in 1 .. l : a[k] = t[k]
        /\ a[l + 1] = LF /\ a[l + 2] = NUL
    BY ArrayFacts
  <2>2. l \in Nat /\ l > 0 /\ l < Size - 1 /\ Size \in Nat
    BY Constants
  <2>3. l + 2 <= Size
    BY <2>2
  <2> QED
    BY <2>1, <2>2, <2>3
<1>2. b = First(a, 2, Char \ Space)
  BY <1>1 DEF UrlBegin
<1> HIDE DEF l, b
<1>3. b = l + 2
  <2>1. 2 \in 1 .. Len(a) + 1 /\ l + 2 \in 2 .. Len(a) + 1
    BY <1>1
  <2>2. a[l + 2] \in Char \ Space
    BY <1>1, Characters DEF Space
  <2> DEFINE q == l + 2
             C == Char \ Space
  <2>3. ASSUME NEW n \in 2 .. q - 1 PROVE a[n] \notin C
    <3>1. n \in 2 .. l \/ n = l + 1
      BY <1>1
    <3>2. CASE n \in 2 .. l
      <4>1. n \in 1 .. l /\ n \in 2 .. Len(t)
        BY <1>1, <3>2 DEF l
      <4>2. a[n] = SP
        BY <1>1, <4>1
      <4> QED
        BY <4>2 DEF Space
    <3>3. CASE n = l + 1
      BY <1>1, <3>3 DEF Space
    <3> QED
      BY <3>1, <3>2, <3>3
  <2>4. q \in 2 .. Len(a) + 1
    BY <2>1 DEF q
  <2>5. a[q] \in C
    BY <2>2 DEF q, C
  <2>7. a \in Seq(Char)
    BY <1>1
  <2> HIDE DEF q, C
  <2>8. First(a, 2, C) = q
    BY <2>1, <2>3, <2>4, <2>5, <2>7, FirstIs
  <2> QED
    BY <1>2, <2>8 DEF q, C
<1>4. f \in b .. Size + 1 /\ (f <= Size => a[f] \in Space)
  <2>1. b \in 1 .. Len(a) + 1
    BY <1>1, <1>3
  <2> QED
    BY <1>1, <2>1, FirstFacts
<1>5. a[b] = NUL /\ NUL \notin Space /\ b <= Size
  BY <1>1, <1>3, Characters DEF Space
<1>6. e = Min({b + WordSize - 1, f})
  BY <1>1 DEF UrlEnd, b
<1> HIDE DEF f, e
<1>7. f > b
  BY <1>1, <1>3, <1>4, <1>5
<1>8. e \in b + 1 .. Size + 1
  <2> DEFINE x == b + WordSize - 1
  <2>1. x \in Nat /\ f \in Nat /\ x > b
    BY <1>1, <1>3, <1>4, Constants
  <2>2. e = Min({x, f})
    BY <1>6
  <2> HIDE DEF x
  <2>3. e = IF x <= f THEN x ELSE f
    BY <2>1, <2>2, MinPair
  <2> QED
    BY <1>1, <1>3, <1>4, <1>7, <2>1, <2>3
<1>9. s \in Seq(Char) /\ Len(s) > 0 /\ s[1] = NUL
  <2>1. b \in 1 .. Len(a) + 1 /\ e - 1 \in b - 1 .. Len(a)
        /\ e - 1 - b + 1 > 0 /\ 1 \in 1 .. e - 1 - b + 1 /\ b + 1 - 1 = b
    BY <1>1, <1>3, <1>8
  <2>2. /\ s \in Seq(Char) /\ Len(s) = e - 1 - b + 1
        /\ \A k \in 1 .. e - 1 - b + 1 : s[k] = a[b + k - 1]
    BY <1>1, <2>1, Part
  <2> QED
    BY <1>5, <2>1, <2>2
<1> HIDE DEF s
<1>10. First(s, 1, {NUL}) = 1
  <2>1. 1 \in 1 .. Len(s) + 1 /\ s[1] \in {NUL} /\ 1 .. 1 - 1 = {}
    BY <1>9
  <2> QED
    BY <1>9, <2>1, FirstIs
<1>11. Before(s, {NUL}) = << >>
  <2>1. Before(s, {NUL}) \in Seq(Char) /\ Len(Before(s, {NUL})) = 1 - 1
    BY <1>9, <1>10, BeforeFacts
  <2> DEFINE u == Before(s, {NUL})
  <2> HIDE DEF u
  <2>2. u \in Seq(Char) /\ Len(u) = 0
    BY <2>1 DEF u
  <2>3. u = << >>
    BY <2>2
  <2> QED
    BY <2>3 DEF u
<1> QED
  BY <1>9, <1>11 DEF CString, s, b, e

\* The url begins at b.
UrlAt(t, b) ==
  b \in 3 .. Len(t) /\ t[b] # SP /\ \A k \in 2 .. b - 1 : t[k] = SP

\* The word there, and what of it fits into the array.
WordAt(t, b) == Before(SubSeq(t, b, Len(t)), {SP})
Cut(word) == SubSeq(word, 1, Min({Len(word), WordSize - 1}))

LEMMA UrlPart ==
  ASSUME input \in Input, NEW t \in Seq(Char), Len(t) < Size - 1, Plain(t),
         NEW b, UrlAt(t, b),
         NEW a, a = Array(Append(t, LF)), MethodEnd[a] = 2
  PROVE  CString[SubSeq(a, b, UrlEnd[a] - 1)] = Cut(WordAt(t, b)) /\ UrlBegin[a] = b
<1> DEFINE l == Len(t)
           e == UrlEnd[a]
           f == First(a, b, Space)
           w == WordSize - 1
           s == SubSeq(a, b, e - 1)
           u == SubSeq(t, b, l)
           word == Before(u, {SP})
           z == Min({Len(word), w})
           v == SubSeq(word, 1, z)
<1>1. /\ a \in Seq(Char) /\ Len(a) = Size /\ l \in Nat /\ l + 2 <= Size /\ b \in 3 .. l
      /\ \A k \in 1 .. l : a[k] = t[k] /\ t[k] \in Char /\ t[k] \notin {CR, LF, NUL}
      /\ a[l + 1] = LF
  <2>1. \A k \in 1 .. Len(t) : t[k] \in Char
    OBVIOUS
  <2> QED
    BY <2>1, ArrayFacts, Constants DEF Plain, UrlAt
<1>2. UrlBegin[a] = b
  <2>1. UrlBegin[a] = First(a, 2, Char \ Space)
    BY <1>1 DEF UrlBegin
  <2>2. 2 \in 1 .. Len(a) + 1 /\ b \in 2 .. Len(a) + 1 /\ b \in 1 .. l
        /\ \A n \in 2 .. b - 1 : n \in 1 .. l
    BY <1>1
  <2>3. a[b] \in Char \ Space
    BY <1>1, <2>2 DEF Space, UrlAt
  <2>4. \A n \in 2 .. b - 1 : a[n] = SP
    BY <1>1, <2>2 DEF UrlAt
  <2>5. \A n \in 2 .. b - 1 : a[n] \notin Char \ Space
    BY <2>4 DEF Space
  <2> DEFINE C == Char \ Space
  <2> HIDE DEF C
  <2>6. a[b] \in C /\ \A n \in 2 .. b - 1 : a[n] \notin C
    BY <2>3, <2>5 DEF C
  <2>7. a \in Seq(Char) /\ 2 \in 1 .. Len(a) + 1 /\ b \in 2 .. Len(a) + 1
    BY <1>1, <2>2
  <2>8. First(a, 2, C) = b
    BY <2>6, <2>7, FirstIs
  <2> QED
    BY <2>1, <2>8 DEF C
<1> HIDE DEF l
<1>3. /\ f \in b .. l + 1
      /\ f <= l => t[f] = SP
      /\ \A n \in b .. f - 1 : t[n] # SP
  <2>1. b \in 1 .. Len(a) + 1
    BY <1>1
  <2>2. /\ f \in b .. Size + 1
        /\ f <= Size => a[f] \in Space
        /\ \A n \in b .. f - 1 : a[n] \notin Space
    BY <1>1, <2>1, FirstFacts
  <2> HIDE DEF f
  <2>3. LF \in Space /\ SP \in Space
    BY DEF Space
  <2>4. f <= l + 1
    <3>1. l + 1 \notin b .. f - 1
      BY <1>1, <2>2, <2>3
    <3> QED
      BY <1>1, <2>2, <3>1
  <2>5. ASSUME f <= l PROVE t[f] = SP
    <3>1. f \in 1 .. l /\ f <= Size
      BY <1>1, <2>2, <2>5
    <3> QED
      BY <1>1, <2>2, <3>1 DEF Space
  <2>6. ASSUME NEW n \in b .. f - 1 PROVE t[n] # SP
    <3>1. n \in 1 .. l
      BY <1>1, <2>2, <2>4
    <3> QED
      BY <1>1, <2>2, <2>3, <3>1
  <2>7. f \in b .. l + 1
    BY <1>1, <2>2, <2>4
  <2> QED
    BY <2>5, <2>6, <2>7
<1>4. w \in Nat /\ w > 0 /\ WordSize \in Nat
  BY Constants
<1>5. e = IF b + w <= f THEN b + w ELSE f
  <2> DEFINE x == b + WordSize - 1
  <2>1. x = b + w /\ x \in Nat /\ f \in Nat
    BY <1>1, <1>3, <1>4
  <2>2. e = Min({x, f})
    BY <1>1, <1>2 DEF UrlEnd
  <2> HIDE DEF x, f, e
  <2>3. Min({x, f}) = IF x <= f THEN x ELSE f
    BY <2>1, MinPair
  <2> QED
    BY <2>1, <2>2, <2>3
<1> HIDE DEF e, f, w
<1>6. e \in b .. l + 1 /\ e <= f
  BY <1>1, <1>3, <1>4, <1>5
<1>7. s \in Seq(Char) /\ Len(s) = e - b /\ \A k \in 1 .. e - b : s[k] = t[b + k - 1]
  <2>1. b \in 1 .. Len(a) + 1 /\ e - 1 \in b - 1 .. Len(a) /\ e - 1 - b + 1 = e - b
    BY <1>1, <1>6
  <2> DEFINE y == e - 1
  <2> HIDE DEF y
  <2>4. a \in Seq(Char) /\ b \in 1 .. Len(a) + 1 /\ y \in b - 1 .. Len(a)
    BY <1>1, <2>1 DEF y
  <2>5. /\ SubSeq(a, b, y) \in Seq(Char) /\ Len(SubSeq(a, b, y)) = y - b + 1
        /\ \A k \in 1 .. y - b + 1 : SubSeq(a, b, y)[k] = a[b + k - 1]
    BY <2>4, Part
  <2>2. /\ s \in Seq(Char) /\ Len(s) = e - 1 - b + 1
        /\ \A k \in 1 .. e - 1 - b + 1 : s[k] = a[b + k - 1]
    BY <2>5 DEF y
  <2> HIDE DEF s
  <2>3. \A k \in 1 .. e - b : b + k - 1 \in 1 .. l
    BY <1>1, <1>6
  <2> QED
    BY <1>1, <2>1, <2>2, <2>3
<1>8. u \in Seq(Char) /\ Len(u) = l - b + 1 /\ \A k \in 1 .. l - b + 1 : u[k] = t[b + k - 1]
  <2>1. b \in 1 .. Len(t) + 1 /\ l \in b - 1 .. Len(t)
    BY <1>1 DEF l
  <2> QED
    BY <2>1, Part
<1> HIDE DEF s, u
<1>9. First(u, 1, {SP}) = f - b + 1
  <2> DEFINE q == f - b + 1
  <2>1. q \in 1 .. Len(u) + 1 /\ 1 \in 1 .. Len(u) + 1
    BY <1>1, <1>3, <1>8
  <2>2. ASSUME q <= Len(u) PROVE u[q] \in {SP}
    <3>1. q \in 1 .. l - b + 1 /\ b + q - 1 = f /\ f <= l
      BY <1>1, <1>3, <1>8, <2>2
    <3> HIDE DEF q
    <3> QED
      BY <1>3, <1>8, <3>1
  <2>3. ASSUME NEW n \in 1 .. q - 1 PROVE u[n] \notin {SP}
    <3>1. n \in 1 .. l - b + 1 /\ b + n - 1 \in b .. f - 1
      BY <1>1, <1>3, <2>3
    <3> HIDE DEF q
    <3> QED
      BY <1>3, <1>8, <3>1
  <2> HIDE DEF q
  <2>4. First(u, 1, {SP}) = q
    BY <1>8, <2>1, <2>2, <2>3, FirstIs
  <2> QED
    BY <2>4 DEF q
<1>10. /\ word \in Seq(Char) /\ Len(word) = f - b
       /\ \A k \in 1 .. f - b : word[k] = t[b + k - 1]
  <2> DEFINE g == First(u, 1, {SP})
  <2>3. /\ word \in Seq(Char) /\ Len(word) = g - 1
        /\ \A k \in 1 .. Len(word) : word[k] = u[k]
    BY <1>8, BeforeFacts
  <2>4. g = f - b + 1
    BY <1>9
  <2> HIDE DEF word, g
  <2>1. Len(word) = f - b
    <3>2. Len(word) = g - 1
      BY <2>3
    <3> DEFINE y == Len(word)
    <3>3. y = g - 1
      BY <3>2
    <3> HIDE DEF y
    <3>4. y = f - b
      BY <1>1, <1>3, <2>4, <3>3
    <3> QED
      BY <3>4 DEF y
  <2>2. \A k \in 1 .. f - b : k \in 1 .. l - b + 1
    BY <1>1, <1>3
  <2> QED
    BY <1>8, <2>1, <2>2, <2>3
<1> HIDE DEF word
<1>11. z = e - b
  <2> DEFINE y == Len(word)
  <2>1. y \in Nat /\ y = f - b
    BY <1>1, <1>3, <1>10
  <2>2. z = IF y <= w THEN y ELSE w
    <3> HIDE DEF y
    <3>1. Min({y, w}) = IF y <= w THEN y ELSE w
      BY <1>4, <2>1, MinPair
    <3> QED
      BY <3>1 DEF y
  <2> HIDE DEF y, z
  <2> QED
    BY <1>1, <1>3, <1>4, <1>5, <2>1, <2>2
<1>12. v \in Seq(Char) /\ Len(v) = e - b /\ \A k \in 1 .. e - b : v[k] = t[b + k - 1]
  <2> DEFINE n == e - b
  <2>1. n \in Nat /\ n <= f - b
    BY <1>1, <1>3, <1>6
  <2>2. 1 \in 1 .. Len(word) + 1 /\ n \in 1 - 1 .. Len(word) /\ n - 1 + 1 = n
    BY <1>1, <1>3, <1>10, <2>1
  <2>3. v = SubSeq(word, 1, n)
    BY <1>11
  <2> HIDE DEF n, v
  <2>4. /\ v \in Seq(Char) /\ Len(v) = n - 1 + 1
        /\ \A k \in 1 .. n - 1 + 1 : v[k] = word[1 + k - 1]
    BY <1>10, <2>2, <2>3, Part
  <2>5. \A k \in 1 .. n : 1 + k - 1 = k /\ k \in 1 .. f - b
    BY <1>1, <1>3, <2>1
  <2> QED
    BY <1>10, <2>2, <2>4, <2>5 DEF n
<1> HIDE DEF v, z
<1>13. s = v
  <2>1. \A k \in 1 .. Len(s) : s[k] = v[k]
    BY <1>7, <1>12
  <2> QED
    BY <1>7, <1>12, <2>1, Same
<1>14. CString[s] = s
  <2>1. \A k \in 1 .. e - b : b + k - 1 \in 1 .. l
    BY <1>1, <1>6
  <2>2. \A k \in 1 .. l : t[k] \notin {CR, LF, NUL}
    BY <1>1
  <2>4. \A k \in 1 .. e - b : s[k] \notin {CR, LF, NUL}
    BY <1>7, <2>1, <2>2
  <2>5. Plain(s)
    BY <1>7, <2>4 DEF Plain
  <2> QED
    BY <1>7, <2>5, PlainPart
<1> QED
  BY <1>2, <1>13, <1>14 DEF s, v, z, w, word, u, l, e, Cut, WordAt

\* What the loops make of a line that fits is what it says.
LEMMA ScanText ==
  ASSUME input \in Input, NEW t \in Seq(Char), Len(t) < Size - 1, Plain(t),
         Scan(Append(t, LF)).method \in {<<"G">>, <<"P">>}
  PROVE  Scan(Append(t, LF)) = Said(t)
<1> DEFINE a == Array(Append(t, LF))
           l == Len(t)
           method == CString[SubSeq(a, 1, MethodEnd[a] - 1)]
           url == CString[SubSeq(a, UrlBegin[a], UrlEnd[a] - 1)]
           begins == {k \in 2 .. l : t[k] # SP /\ t[k - 1] = SP}
           word == IF begins = {} THEN << >>
                   ELSE Before(SubSeq(t, Min(begins), l), {SP})
           said == SubSeq(word, 1, Min({Len(word), WordSize - 1}))
<1>1. Scan(Append(t, LF)) = RequestOf(method, url)
  BY DEF Scan
<1>2. Said(t) = RequestOf(Before(t, {SP}), said)
  BY DEF Said
<1>3. method \in {<<"G">>, <<"P">>}
  <2>1. RequestOf(method, url).method = method
    BY DEF RequestOf
  <2> QED
    BY <1>1, <2>1
<1>4. /\ MethodEnd[a] = 2 /\ l > 0 /\ method = Before(t, {SP})
      /\ l > 1 => t[2] = SP
  BY <1>3, MethodPart
<1>5. l \in Nat
  OBVIOUS
<1> HIDE DEF a, l, method, url
<1>6. url = said
  <2>1. CASE \A k \in 2 .. l : t[k] = SP
    <3>1. url = << >>
      BY <1>4, <2>1, NoUrl DEF a, l, url
    <3>2. begins = {}
      BY <2>1
    <3>3. word = << >>
      BY <3>2
    <3>4. said = << >>
      <4> DEFINE w == WordSize - 1
      <4>1. w \in Nat /\ w > 0
        BY Constants
      <4> HIDE DEF w
      <4>2. Min({0, w}) = 0
        BY <4>1, MinPair
      <4>3. said = SubSeq(<< >>, 1, Min({0, w}))
        <5>1. said = SubSeq(<< >>, 1, Min({Len(<< >>), WordSize - 1}))
          BY <3>3
        <5>2. Len(<< >>) = 0
          OBVIOUS
        <5> QED
          BY <5>1, <5>2 DEF w
      <4>4. SubSeq(<< >>, 1, 0) = << >>
        OBVIOUS
      <4> HIDE DEF said
      <4> QED
        BY <4>2, <4>3, <4>4
    <3> HIDE DEF said
    <3> QED
      BY <3>1, <3>4
  <2>2. CASE ~\A k \in 2 .. l : t[k] = SP
    <3> DEFINE S == {k \in 2 .. l : t[k] # SP}
               b == Min(S)
    <3>1. S \in SUBSET Nat /\ S # {}
      BY <1>5, <2>2
    <3>2. b \in S /\ \A x \in S : b <= x
      <4> HIDE DEF S
      <4> QED
        BY <3>1, Least
    <3> HIDE DEF b
    <3>3. b \in 2 .. l /\ t[b] # SP
      BY <3>2
    <3>4. ASSUME NEW k \in 2 .. b - 1 PROVE t[k] = SP
      <4>1. k \in 2 .. l /\ ~(b <= k)
        BY <1>5, <3>3
      <4> QED
        BY <3>2, <4>1
    <3>5. b # 2
      BY <1>4, <1>5, <3>3
    <3>6. UrlAt(t, b)
      BY <1>5, <3>3, <3>4, <3>5 DEF UrlAt, l
    <3>7. b \in begins /\ begins \in SUBSET Nat
      <4>1. b - 1 \in 2 .. b - 1
        BY <1>5, <3>3, <3>5
      <4> QED
        BY <1>5, <3>3, <3>4, <4>1
    <3>8. \A x \in begins : b <= x
      BY <3>2
    <3> HIDE DEF begins, S
    <3>9. Min(begins) = b
      BY <3>7, <3>8, LeastIs
    <3>10. begins # {}
      BY <3>7
    <3> DEFINE w == Before(SubSeq(t, b, l), {SP})
    <3>11. word = w
      BY <3>9, <3>10
    <3>12. CString[SubSeq(a, b, UrlEnd[a] - 1)] = SubSeq(w, 1, Min({Len(w), WordSize - 1}))
           /\ UrlBegin[a] = b
      <4>1. ASSUME NEW x, x = Array(Append(t, LF)), MethodEnd[x] = 2
            PROVE  CString[SubSeq(x, b, UrlEnd[x] - 1)] = Cut(WordAt(t, b)) /\ UrlBegin[x] = b
        BY <3>6, <4>1, UrlPart
      <4>2. CString[SubSeq(a, b, UrlEnd[a] - 1)] = Cut(WordAt(t, b)) /\ UrlBegin[a] = b
        BY <1>4, <4>1 DEF a
      <4> QED
        BY <4>2 DEF w, l, Cut, WordAt
    <3> HIDE DEF word, w
    <3>13. url = SubSeq(w, 1, Min({Len(w), WordSize - 1}))
      BY <3>12 DEF url
    <3> QED
      BY <3>11, <3>13
  <2> QED
    BY <2>1, <2>2
<1> HIDE DEF said
<1> QED
  BY <1>1, <1>2, <1>4, <1>6

------------------------------------------------------------------------------
(* get_line() and the lines of a request.                                  *)

GetOrPost == {<<"G">>, <<"P">>}

Ch(k) == input.stream[k]

\* The characters in buf were taken, and the one get_line is behind is not.
Taken == IF peeking THEN pos - 1 ELSE pos

\* Where the line in buf begins.
Start == Taken - Len(buf) + 1

\* A newline, or a carriage return that is known to stand alone.
Settled(k) ==
  /\ k \in 1 .. arrived
  /\ Ch(k) \in {CR, LF}
  /\ Ch(k) = CR => IF k = arrived THEN closed ELSE Ch(k + 1) # LF

Begun(b) == b = 1 \/ Settled(b - 1)

\* The line that begins behind the last character, when no more will come.
Nothing == pc = "headers" /\ AtEnd /\ ~peeking /\ buf = << >>

\* content_length is that of the lines before b, for a POST.
LengthIs(length, method, b) ==
  length = IF /\ method = <<"P">>
              /\ \E x \in Begins \ {1} : x < b /\ Ch(x) = "n"
           THEN 1 ELSE -1

\* The first line ends at f.
FirstEnd(f) ==
  f \in Nat /\ f > 0 /\ Ch(f) \in {CR, LF} /\ \A k \in 1 .. f - 1 : Ch(k) \notin {CR, LF}

SaysSo(result, f) ==
  (\A k \in 1 .. f - 1 : Ch(k) # NUL) => result = Said(SubSeq(input.stream, 1, f - 1))

\* No line ends up to p.
Endless(p) == \A k \in 1 .. p : Ch(k) \notin {CR, LF}

LineTypes ==
  /\ input \in Input
  /\ arrived \in 0 .. Len(input.stream) /\ closed \in BOOLEAN
  /\ pos \in 0 .. arrived /\ peeking \in BOOLEAN
  /\ peeking => pos > 0 /\ Ch(pos) = CR
  /\ buf \in Seq(Char) /\ Len(buf) < Size - 1 /\ Len(buf) <= Taken
  /\ \A k \in 1 .. Len(buf) : buf[k] = Ch(Start + k - 1) /\ buf[k] \notin {CR, LF}

RequestPart == pc = "request" => Start = 1 /\ content_length = -1

HeaderPart ==
  pc = "headers" => parsed.method \in GetOrPost /\ (Start > 1 \/ (AtEnd /\ pos = 0))

\* No blank line has been taken.
BlankPart == Reading => \A k \in Blank : k > Taken

BegunPart == Reading /\ Fits => Begun(Start) \/ Nothing

LengthPart == pc = "headers" /\ Fits => LengthIs(content_length, parsed.method, Start)

ParsedPart ==
  pc # "request" /\ Fits /\ parsed.method \in GetOrPost =>
    \/ \E f \in 1 .. pos : FirstEnd(f) /\ SaysSo(parsed, f)
    \/ AtEnd /\ Endless(pos)

DonePart ==
  pc \in {"file", "done"} /\ parsed.method \in GetOrPost =>
    /\ \A k \in Blank : k >= pos
    /\ Fits => /\ (pos \in Blank /\ Settled(pos)) \/ AtEnd
               /\ LengthIs(content_length, parsed.method, pos + 1)

\* What get_line() and its callers rely on between two characters.
LineInv ==
  /\ LineTypes /\ RequestPart /\ HeaderPart /\ BlankPart /\ BegunPart
  /\ LengthPart /\ ParsedPart /\ DonePart

LEMMA LineFacts ==
  ASSUME LineTypes
  PROVE  /\ arrived \in Nat /\ pos \in Nat /\ pos <= arrived /\ arrived <= Len(input.stream)
         /\ Taken \in 0 .. pos /\ (peeking => pos = Taken + 1) /\ (~peeking => pos = Taken)
         /\ Len(buf) \in Nat /\ Start \in 1 .. Taken + 1 /\ Len(buf) = Taken + 1 - Start
         /\ input.stream \in Seq(Char)
         /\ \A k \in 1 .. arrived : Ch(k) \in Char
         /\ Size \in Nat /\ Size > 2
<1>1. /\ input \in Input /\ arrived \in 0 .. Len(input.stream)
      /\ pos \in 0 .. arrived /\ peeking \in BOOLEAN /\ (peeking => pos > 0)
      /\ buf \in Seq(Char) /\ Len(buf) <= Taken
  BY DEF LineTypes
<1>2. input.stream \in Seq(Char) /\ Size \in Nat /\ Size > 2
  BY <1>1, Constants
<1>3. Len(input.stream) \in Nat /\ Len(buf) \in Nat
  BY <1>1, <1>2
<1>4. arrived \in Nat /\ pos \in Nat /\ pos <= arrived /\ arrived <= Len(input.stream)
  BY <1>1, <1>3
<1>5. Taken \in 0 .. pos /\ (peeking => pos = Taken + 1) /\ (~peeking => pos = Taken)
  BY <1>1, <1>4 DEF Taken
<1>6. Start \in 1 .. Taken + 1 /\ Len(buf) = Taken + 1 - Start
  BY <1>1, <1>3, <1>4, <1>5 DEF Start
<1>7. \A k \in 1 .. Len(input.stream) : input.stream[k] \in Char
  BY <1>2
<1>8. \A k \in 1 .. arrived : Ch(k) \in Char
  BY <1>3, <1>4, <1>7 DEF Ch
<1> QED
  BY <1>2, <1>3, <1>4, <1>5, <1>6, <1>8

\* The characters of the line.
LEMMA LineChars ==
  ASSUME LineTypes
  PROVE  \A k \in Start .. Taken : Ch(k) \notin {CR, LF} /\ buf[k - Start + 1] = Ch(k)
<1>1. SUFFICES ASSUME NEW k \in Start .. Taken
               PROVE  Ch(k) \notin {CR, LF} /\ buf[k - Start + 1] = Ch(k)
  OBVIOUS
<1> DEFINE j == k - Start + 1
<1>2. j \in 1 .. Len(buf) /\ Start + j - 1 = k
  BY LineFacts
<1> HIDE DEF j
<1>3. buf[j] = Ch(Start + j - 1) /\ buf[j] \notin {CR, LF}
  BY <1>2 DEF LineTypes
<1> QED
  BY <1>2, <1>3 DEF j

LEMMA SettledEnds ==
  ASSUME NEW k, Settled(k)
  PROVE  IsEnd(k)
BY DEF Settled, IsEnd, Ch

LEMMA BegunFacts ==
  ASSUME LineTypes, Begun(Start), Start > 1
  PROVE  Start \in Begins /\ IsEnd(Start - 1)
<1>1. IsEnd(Start - 1) /\ Start - 1 \in 1 .. arrived
  BY SettledEnds, LineFacts DEF Begun, Settled
<1> DEFINE b == Start
<1>2. b \in Nat /\ arrived \in Nat
  BY LineFacts
<1>3. IsEnd(b - 1) /\ b - 1 \in 1 .. arrived
  BY <1>1
<1> HIDE DEF b
<1>4. b \in 2 .. arrived + 1
  BY <1>2, <1>3
<1>5. b \in Begins
  BY <1>3, <1>4 DEF Begins
<1> QED
  BY <1>1, <1>5 DEF b

\* No line begins behind the first character of the line in buf.
LEMMA NoBegin ==
  ASSUME LineTypes, NEW x \in Begins
  PROVE  x \in Nat /\ ~(Start < x /\ x <= Taken + 1)
<1>1. x \in Nat /\ (x = 1 \/ (x \in 2 .. arrived + 1 /\ IsEnd(x - 1)))
  BY LineFacts DEF Begins
<1>2. ASSUME Start < x, x <= Taken + 1 PROVE FALSE
  <2> DEFINE y == x - 1
  <2>1. y \in Start .. Taken /\ x # 1
    BY <1>1, <1>2, LineFacts
  <2>2. IsEnd(y)
    BY <1>1, <2>1
  <2> HIDE DEF y
  <2>3. Ch(y) \notin {CR, LF}
    BY <2>1, LineChars
  <2> QED
    BY <2>2, <2>3 DEF IsEnd, Ch
<1> QED
  BY <1>1, <1>2

\* The line in buf ends, and what ends it is taken, up to p.
Ends(p) ==
  /\ Settled(p)
  /\ p = Taken + 1 \/ (p = Taken + 2 /\ Ch(Taken + 1) = CR /\ Ch(p) = LF)

LEMMA EndFacts ==
  ASSUME LineTypes, NEW p, Ends(p)
  PROVE  /\ p \in Nat /\ p > Taken /\ p <= arrived /\ IsEnd(p)
         /\ \A k \in Taken + 1 .. p : Ch(k) \in {CR, LF}
         /\ \A k \in Blank : k > Taken =>
              /\ k >= p
              /\ Taken = 0 \/ Ch(Taken) \notin {CR, LF} => k > p
<1>1. /\ Taken \in Nat /\ arrived \in Nat /\ p \in 1 .. arrived /\ IsEnd(p)
      /\ Ch(p) \in {CR, LF}
      /\ p = Taken + 1 \/ (p = Taken + 2 /\ Ch(Taken + 1) = CR /\ Ch(p) = LF)
  BY LineFacts, SettledEnds DEF Ends, Settled
<1> DEFINE q == Taken
<1>2. /\ q \in Nat /\ arrived \in Nat /\ p \in 1 .. arrived /\ IsEnd(p)
      /\ Ch(p) \in {CR, LF}
      /\ p = q + 1 \/ (p = q + 2 /\ Ch(q + 1) = CR /\ Ch(p) = LF)
  BY <1>1
<1> HIDE DEF q
<1>3. p \in Nat /\ p > q /\ p <= arrived
  BY <1>2
<1>4. ASSUME NEW k \in q + 1 .. p PROVE Ch(k) \in {CR, LF}
  <2>1. CASE p = q + 1
    <3>1. k = p
      BY <1>2, <1>4, <2>1
    <3> QED
      BY <1>2, <3>1
  <2>2. CASE p = q + 2 /\ Ch(q + 1) = CR
    <3>1. k = p \/ k = q + 1
      BY <1>2, <1>4, <2>2
    <3> QED
      BY <1>2, <2>2, <3>1
  <2> QED
    BY <1>2, <2>1, <2>2
<1>5. \A k \in Blank : /\ k \in 2 .. arrived /\ IsEnd(k)
                       /\ IsEnd(k - 1) \/ (Ch(k - 1) = CR /\ IsEnd(k - 2))
  BY DEF Blank, Ch
<1>6. \A k : IsEnd(k) => Ch(k) \in {CR, LF} /\ k \in 1 .. arrived
  BY DEF IsEnd, Ch
<1>7. ASSUME p = q + 2, Ch(q + 1) = CR, Ch(p) = LF PROVE ~IsEnd(q + 1)
  <2>1. q + 1 # arrived /\ q + 1 + 1 = p
    BY <1>2, <1>7
  <2>2. Ch(q + 1 + 1) = LF
    BY <1>7, <2>1
  <2> QED
    BY <1>7, <2>1, <2>2, Characters DEF IsEnd, Ch
<1>8. ASSUME NEW k \in Blank, k > q PROVE k >= p
  <2>1. k \in Nat /\ IsEnd(k)
    BY <1>5, <1>8
  <2>2. CASE p = q + 1
    BY <1>2, <1>8, <2>1, <2>2
  <2>3. CASE p = q + 2 /\ Ch(q + 1) = CR /\ Ch(p) = LF
    <3>1. k # q + 1
      BY <1>7, <2>1, <2>3
    <3> QED
      BY <1>2, <1>8, <2>1, <2>3, <3>1
  <2> QED
    BY <1>2, <2>2, <2>3
<1>9. ASSUME q = 0 \/ Ch(q) \notin {CR, LF} PROVE p \notin Blank
  <2>1. SUFFICES ASSUME p \in Blank PROVE FALSE
    OBVIOUS
  <2>2. p \in 2 .. arrived /\ (IsEnd(p - 1) \/ (Ch(p - 1) = CR /\ IsEnd(p - 2)))
    BY <1>5, <2>1
  <2>3. ~IsEnd(q)
    BY <1>2, <1>6, <1>9
  <2>4. CASE p = q + 1
    <3>1. p - 1 = q /\ q # 0
      BY <1>2, <2>2, <2>4
    <3>2. Ch(p - 1) = CR
      BY <2>2, <2>3, <3>1
    <3>3. Ch(q) \notin {CR, LF}
      BY <1>9, <3>1
    <3> QED
      BY <3>1, <3>2, <3>3
  <2>5. CASE p = q + 2 /\ Ch(q + 1) = CR /\ Ch(p) = LF
    <3>1. p - 1 = q + 1 /\ p - 2 = q
      BY <1>2, <2>5
    <3> QED
      BY <1>7, <2>2, <2>3, <2>5, <3>1
  <2> QED
    BY <1>2, <2>4, <2>5
<1>10. ASSUME NEW k \in Blank, k > q, q = 0 \/ Ch(q) \notin {CR, LF} PROVE k > p
  <2>1. k # p /\ k \in Nat /\ k >= p
    BY <1>5, <1>8, <1>9, <1>10
  <2> QED
    BY <1>2, <2>1
<1> QED
  BY <1>2, <1>3, <1>4, <1>8, <1>10 DEF q

\* A line that ends at Size - 1 characters does not fit.
LEMMA CutShort ==
  ASSUME LineTypes, Begun(Start), \A k \in Blank : k > Taken,
         Taken < arrived, Ch(Taken + 1) \notin {CR, LF}, Len(buf) + 1 = Size - 1
  PROVE  ~Fits
<1> DEFINE b == Start
           q == Taken
           H == {arrived} \cup Blank
<1>1. /\ b \in Nat /\ q \in Nat /\ arrived \in Nat /\ Size \in Nat /\ b >= 1 /\ b <= q + 1
      /\ q < arrived /\ b + Size - 2 = q + 1
  BY LineFacts
<1>2. \A k \in b .. q : Ch(k) \notin {CR, LF}
  BY LineChars
<1>3. b \in Begins
  <2>1. CASE b = 1
    BY <2>1 DEF Begins
  <2>2. CASE b # 1
    <3>1. Start > 1
      BY <1>1, <2>2
    <3> QED
      BY <3>1, BegunFacts
  <2> QED
    BY <2>1, <2>2
<1>4. H \in SUBSET Nat /\ H # {} /\ \A k \in H : k > q
  <2>1. \A k \in Blank : k \in Nat
    BY DEF Blank
  <2> QED
    BY <1>1, <2>1
<1>5. HeadersEnd = Min(H)
  BY DEF HeadersEnd
<1>6. Ch(q + 1) \notin {CR, LF}
  OBVIOUS
<1> HIDE DEF b, q, H
<1>7. HeadersEnd \in H
  BY <1>4, <1>5, Least
<1>8. ~(b > HeadersEnd)
  <2> DEFINE h == HeadersEnd
  <2>1. h \in Nat /\ h > q
    BY <1>4, <1>7
  <2> HIDE DEF h
  <2>2. ~(b > h)
    BY <1>1, <2>1
  <2> QED
    BY <2>2 DEF h
<1>9. ASSUME NEW k \in b .. b + Size - 2
      PROVE  ~(k > arrived \/ input.stream[k] \in {CR, LF})
  <2>1. k \in b .. q \/ k = q + 1
    BY <1>1
  <2>2. ~(k > arrived)
    BY <1>1, <2>1
  <2>3. Ch(k) \notin {CR, LF}
    BY <1>2, <1>6, <2>1
  <2> QED
    BY <2>2, <2>3 DEF Ch
<1> QED
  BY <1>3, <1>8, <1>9 DEF Fits

\* The lines before q + 1, where no line begins with an "n" behind the one in buf.
LEMMA LengthOver ==
  ASSUME LineTypes, NEW q \in Nat, Taken <= q,
         \A k \in Taken + 1 .. q : Ch(k) # "n", NEW c, NEW m
  PROVE  /\ Start = 1 => LengthIs(-1, m, q + 1)
         /\ Len(buf) = 0 /\ LengthIs(c, m, Start) => LengthIs(c, m, q + 1)
         /\ Len(buf) > 0 /\ Start > 1 /\ Begun(Start) /\ LengthIs(c, m, Start)
              => LengthIs(IF m = <<"P">> /\ Ch(Start) = "n" THEN 1 ELSE c, m, q + 1)
<1> DEFINE b == Start
           w == Taken
           X(y) == \E x \in Begins \ {1} : x < y /\ Ch(x) = "n"
<1>1. b \in Nat /\ w \in Nat /\ b >= 1 /\ b <= w + 1 /\ w <= q
  BY LineFacts
<1>2. \A x \in Begins : x \in Nat /\ ~(b < x /\ x <= w + 1)
  BY NoBegin
<1>3. \A x \in Begins : x >= 1
  BY LineFacts DEF Begins
<1>4. Start = b /\ Taken = w
  OBVIOUS
<1>5. \A k \in w + 1 .. q : Ch(k) # "n"
  OBVIOUS
<1>6. (Len(buf) = 0 => b = w + 1) /\ (Len(buf) > 0 => b < w + 1)
  BY LineFacts
<1>7. \A y, d : LengthIs(d, m, y) <=> d = IF m = <<"P">> /\ X(y) THEN 1 ELSE -1
  BY DEF LengthIs
<1>8. Start > 1 /\ Begun(Start) => Start \in Begins
  BY BegunFacts
<1> HIDE DEF b, w
<1>9. ASSUME NEW x \in Begins \ {1}, x < q + 1, Ch(x) = "n"
      PROVE  x <= b /\ (b = w + 1 => x < b)
  <2>1. x \in Nat /\ ~(x \in w + 1 .. q) /\ ~(b < x /\ x <= w + 1)
    BY <1>2, <1>5, <1>9
  <2> QED
    BY <1>1, <1>9, <2>1
<1>10. ASSUME b = 1 PROVE ~X(q + 1)
  <2>1. SUFFICES ASSUME NEW x \in Begins \ {1}, x < q + 1, Ch(x) = "n" PROVE FALSE
    OBVIOUS
  <2>2. x <= b /\ x \in Nat /\ x >= 1 /\ x # 1
    BY <1>2, <1>3, <1>9, <2>1
  <2> QED
    BY <1>10, <2>2
<1>11. X(b) => X(q + 1)
  <2>1. SUFFICES ASSUME NEW x \in Begins \ {1}, x < b, Ch(x) = "n" PROVE x < q + 1
    OBVIOUS
  <2> QED
    BY <1>1, <1>2, <2>1
<1>12. ASSUME b = w + 1 PROVE X(q + 1) => X(b)
  BY <1>9, <1>12
<1>13. ASSUME b \in Begins, b > 1, b < w + 1 PROVE X(q + 1) <=> X(b) \/ Ch(b) = "n"
  <2>1. ASSUME Ch(b) = "n" PROVE X(q + 1)
    <3>1. b \in Begins \ {1} /\ b < q + 1
      BY <1>1, <1>13
    <3> QED
      BY <2>1, <3>1
  <2>2. ASSUME X(q + 1) PROVE X(b) \/ Ch(b) = "n"
    <3>1. PICK x \in Begins \ {1} : x < q + 1 /\ Ch(x) = "n"
      BY <2>2
    <3>2. x <= b /\ x \in Nat
      BY <1>2, <1>9, <3>1
    <3>3. x = b \/ x < b
      BY <1>1, <3>2
    <3> QED
      BY <3>1, <3>3
  <2> QED
    BY <1>11, <2>1, <2>2
<1> HIDE DEF X
<1>14. Start = 1 => LengthIs(-1, m, q + 1)
  BY <1>4, <1>7, <1>10
<1>15. Len(buf) = 0 /\ LengthIs(c, m, Start) => LengthIs(c, m, q + 1)
  BY <1>4, <1>6, <1>7, <1>11, <1>12
<1>16. Len(buf) > 0 /\ Start > 1 /\ Begun(Start) /\ LengthIs(c, m, Start)
         => LengthIs(IF m = <<"P">> /\ Ch(Start) = "n" THEN 1 ELSE c, m, q + 1)
  <2>1. SUFFICES ASSUME Len(buf) > 0, Start > 1, Begun(Start), LengthIs(c, m, Start)
                 PROVE  LengthIs(IF m = <<"P">> /\ Ch(Start) = "n" THEN 1 ELSE c, m, q + 1)
    OBVIOUS
  <2>2. X(q + 1) <=> X(b) \/ Ch(b) = "n"
    BY <1>4, <1>6, <1>8, <1>13, <2>1
  <2> QED
    BY <1>4, <1>7, <2>1, <2>2
<1> QED
  BY <1>14, <1>15, <1>16

\* The ways a line ends: with a newline, at the end of buf, when no more comes.
Completes(line, p) ==
  \/ Ends(p) /\ line = Append(buf, LF)
  \/ /\ Taken < arrived /\ Ch(Taken + 1) \notin {CR, LF} /\ Len(buf) + 1 = Size - 1
     /\ p = Taken + 1 /\ line = Append(buf, Ch(p))
  \/ AtEnd /\ ~peeking /\ p = pos /\ line = buf

LEMMA CompletePlace ==
  ASSUME LineInv, Reading, NEW line, NEW p, Completes(line, p)
  PROVE  /\ p \in Nat /\ Taken <= p /\ p <= arrived
         /\ p = 0 => AtEnd /\ pos = 0
         /\ \A k \in Blank : k >= p /\ (Len(buf) > 0 \/ Taken = 0 => k > p)
<1> DEFINE q == Taken
<1>1. LineTypes /\ \A k \in Blank : k > Taken /\ k \in Nat
  BY DEF LineInv, BlankPart, Blank
<1>2. q \in Nat /\ arrived \in Nat /\ pos \in Nat /\ q <= pos /\ pos <= arrived
      /\ (~peeking => pos = q)
  BY <1>1, LineFacts
<1>3. Len(buf) > 0 => Ch(q) \notin {CR, LF}
  <2>1. SUFFICES ASSUME Len(buf) > 0 PROVE Ch(q) \notin {CR, LF}
    OBVIOUS
  <2>2. q \in Start .. q
    BY <1>1, <2>1, LineFacts
  <2> QED
    BY <1>1, <2>2, LineChars
<1>4. \A k \in Blank : k > q /\ k \in Nat
  BY <1>1
<1>5. CASE Ends(p)
  <2>1. /\ p \in Nat /\ p > q /\ p <= arrived
        /\ \A k \in Blank : k > q =>
             k >= p /\ (q = 0 \/ Ch(q) \notin {CR, LF} => k > p)
    BY <1>1, <1>5, EndFacts
  <2> HIDE DEF q
  <2>2. Taken = q
    BY DEF q
  <2> QED
    BY <1>2, <1>3, <1>4, <2>1, <2>2
<1>6. CASE q < arrived /\ Ch(q + 1) \notin {CR, LF} /\ p = q + 1
  <2> HIDE DEF q
  <2>1. p \notin Blank
    BY <1>6, Characters DEF Blank, IsEnd, Ch
  <2>2. \A k \in Blank : k > p
    BY <1>2, <1>4, <1>6, <2>1
  <2>3. Taken = q
    BY DEF q
  <2> QED
    BY <1>2, <1>4, <1>6, <2>2, <2>3
<1>7. CASE AtEnd /\ ~peeking /\ p = pos
  <2> HIDE DEF q
  <2>1. Taken = q
    BY DEF q
  <2>2. p = q
    BY <1>2, <1>7
  <2> QED
    BY <1>2, <1>4, <1>7, <2>1, <2>2
<1> QED
  BY <1>5, <1>6, <1>7 DEF Completes

LEMMA Appended ==
  ASSUME NEW T, NEW s \in Seq(T), NEW c \in T
  PROVE  /\ Append(s, c) \in Seq(T) /\ Len(Append(s, c)) = Len(s) + 1
         /\ \A k \in 1 .. Len(s) : Append(s, c)[k] = s[k]
         /\ Append(s, c)[Len(s) + 1] = c
         /\ Len(s) = 0 => Append(s, c) = <<c>>
<1>1. /\ Append(s, c) \in Seq(T) /\ Len(Append(s, c)) = Len(s) + 1
      /\ \A k \in 1 .. Len(s) : Append(s, c)[k] = s[k]
      /\ Append(s, c)[Len(s) + 1] = c
  OBVIOUS
<1>2. ASSUME Len(s) = 0 PROVE Append(s, c) = <<c>>
  <2>1. s = << >>
    BY <1>2
  <2>2. Append(<< >>, c) = <<c>>
    OBVIOUS
  <2> QED
    BY <2>1, <2>2
<1> QED
  BY <1>1, <1>2

LEMMA CompleteLine ==
  ASSUME LineInv, Reading, NEW line, NEW p, Completes(line, p)
  PROVE  /\ line \in {<< >>, <<LF>>} => Len(buf) = 0
         /\ line \notin {<< >>, <<LF>>} => Len(buf) > 0 /\ line[1] = Ch(Start)
<1>1. LineTypes
  BY DEF LineInv
<1>2. /\ buf \in Seq(Char) /\ \A k \in 1 .. Len(buf) : buf[k] \notin {CR, LF}
      /\ Len(buf) \in Nat /\ Size \in Nat /\ Size > 2 /\ Start \in Nat /\ Taken \in Nat
      /\ Len(buf) = Taken + 1 - Start
  BY <1>1, LineFacts DEF LineTypes
<1>3. Len(buf) > 0 => buf[1] = Ch(Start)
  <2>1. SUFFICES ASSUME Len(buf) > 0 PROVE buf[1] = Ch(Start)
    OBVIOUS
  <2>2. Start \in Start .. Taken /\ Start - Start + 1 = 1
    BY <1>2, <2>1
  <2> QED
    BY <1>1, <2>2, LineChars
<1>4. ASSUME NEW c \in Char
      PROVE  /\ Len(buf) > 0 => Append(buf, c)[1] = buf[1]
             /\ Len(Append(buf, c)) = Len(buf) + 1
             /\ Len(buf) = 0 => Append(buf, c) = <<c>>
  <2>1. Len(buf) > 0 => 1 \in 1 .. Len(buf)
    BY <1>2
  <2> QED
    BY <1>2, <2>1, Appended
<1>5. CASE line = Append(buf, LF)
  <2>1. Len(<< >>) = 0 /\ Len(<<LF>>) = 1
    OBVIOUS
  <2>2. /\ Len(buf) > 0 => line[1] = buf[1]
        /\ Len(line) = Len(buf) + 1
        /\ Len(buf) = 0 => line = <<LF>>
    BY <1>4, <1>5, Characters
  <2> QED
    BY <1>2, <1>3, <2>1, <2>2
<1>6. CASE /\ line = Append(buf, Ch(p)) /\ Len(buf) + 1 = Size - 1
           /\ Taken < arrived /\ p = Taken + 1
  <2>1. Len(buf) > 0
    BY <1>2, <1>6
  <2>4. Ch(p) \in Char
    <3> DEFINE q == Taken
    <3>1. q \in Nat /\ arrived \in Nat /\ p = q + 1 /\ q < arrived
      BY <1>1, <1>6, LineFacts
    <3> HIDE DEF q
    <3>2. p \in 1 .. arrived
      BY <3>1
    <3> QED
      BY <1>1, <3>2, LineFacts
  <2>2. Len(line) = Len(buf) + 1 /\ line[1] = buf[1]
    BY <1>4, <1>6, <2>1, <2>4
  <2>3. Len(<< >>) = 0 /\ Len(<<LF>>) = 1
    OBVIOUS
  <2> QED
    BY <1>2, <1>3, <2>1, <2>2, <2>3
<1>7. CASE line = buf
  <2>1. line # <<LF>>
    <3>1. SUFFICES ASSUME buf = <<LF>> PROVE FALSE
      BY <1>7
    <3>2. Len(buf) = 1 /\ buf[1] = LF
      BY <3>1
    <3> QED
      BY <1>2, <3>2
  <2>2. line = << >> <=> Len(buf) = 0
    BY <1>2, <1>7
  <2> QED
    BY <1>2, <1>3, <1>7, <2>1, <2>2
<1> QED
  BY <1>5, <1>6, <1>7 DEF Completes

LEMMA CompleteFits ==
  ASSUME LineInv, Reading, Fits, NEW line, NEW p, Completes(line, p)
  PROVE  /\ \A k \in Taken + 1 .. p : Ch(k) \in {CR, LF}
         /\ \/ Ends(p) /\ Begun(Start) /\ line = Append(buf, LF)
            \/ AtEnd /\ ~peeking /\ p = pos /\ line = buf /\ (Len(buf) = 0 \/ Begun(Start))
<1>1. LineTypes /\ (Begun(Start) \/ Nothing) /\ \A k \in Blank : k > Taken
  BY DEF LineInv, BegunPart, BlankPart
<1>2. Taken \in Nat /\ arrived \in Nat /\ pos \in Nat /\ (~peeking => pos = Taken)
  BY <1>1, LineFacts
<1>3. CASE Ends(p) /\ line = Append(buf, LF)
  <2>1. p > Taken /\ p <= arrived /\ p \in Nat /\ \A k \in Taken + 1 .. p : Ch(k) \in {CR, LF}
    BY <1>1, <1>3, EndFacts
  <2>2. ~Nothing
    <3>1. SUFFICES ASSUME pos = arrived, ~peeking PROVE FALSE
      BY DEF Nothing, AtEnd
    <3>2. Taken = arrived
      BY <1>2, <3>1
    <3>3. p > Taken /\ p <= arrived /\ p \in Nat
      BY <2>1
    <3> QED
      BY <1>2, <3>2, <3>3
  <2> QED
    BY <1>1, <1>3, <2>1, <2>2
<1>4. CASE /\ Taken < arrived /\ Ch(Taken + 1) \notin {CR, LF} /\ Len(buf) + 1 = Size - 1
  <2>1. ~Nothing
    BY <1>2, <1>4 DEF Nothing, AtEnd
  <2>2. ~Fits
    BY <1>1, <1>4, <2>1, CutShort
  <2> QED
    BY <2>2
<1>5. CASE AtEnd /\ ~peeking /\ p = pos /\ line = buf
  <2>1. \A k \in Taken + 1 .. p : FALSE
    BY <1>2, <1>5
  <2>2. Nothing => Len(buf) = 0
    BY DEF Nothing
  <2> QED
    BY <1>1, <1>5, <2>1, <2>2
<1> QED
  BY <1>3, <1>4, <1>5 DEF Completes

\* A blank line ends at p.
LEMMA BlankEnds ==
  ASSUME LineTypes, Len(buf) = 0, Begun(Start), Start > 1, NEW p, Ends(p)
  PROVE  p \in Blank
<1> DEFINE q == Taken
<1>1. q \in Nat /\ arrived \in Nat /\ q >= 1 /\ Start - 1 = q
  BY LineFacts
<1>2. IsEnd(q)
  BY <1>1, BegunFacts
<1>3. p \in Nat /\ p > q /\ p <= arrived /\ IsEnd(p)
  BY EndFacts
<1>4. p = q + 1 \/ (p = q + 2 /\ Ch(q + 1) = CR)
  BY DEF Ends
<1> HIDE DEF q
<1>5. p \in 2 .. arrived
  BY <1>1, <1>3
<1>6. IsEnd(p - 1) \/ (Ch(p - 1) = CR /\ IsEnd(p - 2))
  <2>1. CASE p = q + 1
    <3>1. p - 1 = q
      BY <1>1, <2>1
    <3> QED
      BY <1>2, <3>1
  <2>2. CASE p = q + 2 /\ Ch(q + 1) = CR
    <3>1. p - 1 = q + 1 /\ p - 2 = q
      BY <1>1, <2>2
    <3> QED
      BY <1>2, <2>2, <3>1
  <2> QED
    BY <1>4, <2>1, <2>2
<1> QED
  BY <1>3, <1>5, <1>6 DEF Blank, Ch

\* The first line, when it ends.
LEMMA FirstLine ==
  ASSUME LineTypes, Start = 1, NEW p, Ends(p)
  PROVE  \E f \in 1 .. p : /\ FirstEnd(f)
                           /\ Scan(Append(buf, LF)).method \in GetOrPost
                                => SaysSo(Scan(Append(buf, LF)), f)
<1> DEFINE q == Taken
           f == q + 1
           t == SubSeq(input.stream, 1, q)
<1>1. /\ q \in Nat /\ Len(buf) = q /\ arrived \in Nat /\ arrived <= Len(input.stream)
      /\ input.stream \in Seq(Char) /\ Len(input.stream) \in Nat
  <2>1. Taken \in Nat /\ Len(buf) = Taken /\ arrived \in Nat /\ arrived <= Len(input.stream)
        /\ input.stream \in Seq(Char)
    BY LineFacts
  <2> QED
    BY <2>1
<1>2. \A k \in 1 .. q : Ch(k) \notin {CR, LF} /\ buf[k] = Ch(k)
  <2>1. \A k \in Start .. Taken : Ch(k) \notin {CR, LF} /\ buf[k - Start + 1] = Ch(k)
    BY LineChars
  <2>2. \A k \in 1 .. q : k - 1 + 1 = k
    BY <1>1
  <2> QED
    BY <2>1, <2>2
<1>3. p \in Nat /\ p > q /\ p <= arrived /\ \A k \in q + 1 .. p : Ch(k) \in {CR, LF}
  BY EndFacts
<1>4. input \in Input /\ buf \in Seq(Char) /\ Len(buf) < Size - 1
  BY DEF LineTypes
<1> HIDE DEF q
<1>5. f \in 1 .. p /\ f \in q + 1 .. p /\ f - 1 = q /\ f \in Nat /\ f > 0
  BY <1>1, <1>3
<1>6. FirstEnd(f)
  <2> HIDE DEF f
  <2> QED
    BY <1>2, <1>3, <1>5 DEF FirstEnd
<1>7. t = buf
  <2>1. 1 \in 1 .. Len(input.stream) + 1 /\ q \in 1 - 1 .. Len(input.stream) /\ q - 1 + 1 = q
    BY <1>1, <1>3
  <2>2. /\ t \in Seq(Char) /\ Len(t) = q - 1 + 1
        /\ \A k \in 1 .. q - 1 + 1 : t[k] = input.stream[1 + k - 1]
    BY <1>1, <2>1, Part
  <2>3. \A k \in 1 .. q : 1 + k - 1 = k
    BY <1>1
  <2>4. \A k \in 1 .. q : t[k] = buf[k]
    BY <1>2, <2>1, <2>2, <2>3 DEF Ch
  <2> HIDE DEF t
  <2>5. Len(t) = Len(buf) /\ \A k \in 1 .. Len(t) : t[k] = buf[k]
    BY <1>1, <2>1, <2>2, <2>4
  <2> QED
    BY <1>4, <2>2, <2>5, Same
<1> HIDE DEF t
<1>8. ASSUME Scan(Append(buf, LF)).method \in GetOrPost, \A k \in 1 .. f - 1 : Ch(k) # NUL
      PROVE  Scan(Append(buf, LF)) = Said(t)
  <2>1. Plain(buf)
    <3>1. \A k \in 1 .. Len(buf) : Ch(k) # NUL /\ Ch(k) \notin {CR, LF} /\ buf[k] = Ch(k)
      BY <1>1, <1>2, <1>5, <1>8
    <3> QED
      BY <3>1 DEF Plain
  <2>2. Scan(Append(buf, LF)) = Said(buf)
    BY <1>4, <1>8, <2>1, ScanText DEF GetOrPost
  <2> QED
    BY <1>7, <2>2
<1>9. t = SubSeq(input.stream, 1, f - 1)
  BY <1>5 DEF t
<1> HIDE DEF f
<1>10. Scan(Append(buf, LF)).method \in GetOrPost => SaysSo(Scan(Append(buf, LF)), f)
  BY <1>8, <1>9 DEF SaysSo
<1> QED
  BY <1>5, <1>6, <1>10

LEMMA Steady ==
  ASSUME input' = input, arrived' = arrived, closed' = closed
  PROVE  /\ Blank' = Blank /\ Begins' = Begins /\ (Fits' <=> Fits)
         /\ \A k : Settled(k)' <=> Settled(k)
         /\ \A k : FirstEnd(k)' <=> FirstEnd(k)
         /\ \A b : Begun(b)' <=> Begun(b)
         /\ \A c, m, b : LengthIs(c, m, b)' <=> LengthIs(c, m, b)
<1>1. \A k : IsEnd(k)' <=> IsEnd(k)
  BY DEF IsEnd
<1>2. Blank' = Blank /\ Begins' = Begins
  BY <1>1 DEF Blank, Begins
<1>3. HeadersEnd' = HeadersEnd
  BY <1>2 DEF HeadersEnd
<1>4. Fits' <=> Fits
  BY <1>2, <1>3 DEF Fits
<1>5. \A k : Settled(k)' <=> Settled(k)
  BY DEF Settled, Ch
<1>6. \A k : FirstEnd(k)' <=> FirstEnd(k)
  BY DEF FirstEnd, Ch
<1>7. \A b : Begun(b)' <=> Begun(b)
  BY <1>5 DEF Begun
<1>8. \A c, m, b : LengthIs(c, m, b)' <=> LengthIs(c, m, b)
  BY <1>2 DEF LengthIs, Ch
<1> QED
  BY <1>2, <1>4, <1>5, <1>6, <1>7, <1>8

\* A line is complete: buf is empty again.
LEMMA CompletedTypes ==
  ASSUME LineInv, Reading, NEW line, NEW p, Completes(line, p),
         input' = input, arrived' = arrived, closed' = closed,
         buf' = << >>, pos' = p, peeking' = FALSE
  PROVE  /\ LineTypes' /\ Taken' = p /\ Start' = p + 1
         /\ (p = 0 => AtEnd') /\ (BlankPart' \/ (Len(buf) = 0 /\ Taken # 0))
         /\ Fits' => Begun(p + 1)' \/ (AtEnd' /\ ~peeking')
<1>1. LineTypes
  BY DEF LineInv
<1>2. /\ p \in Nat /\ Taken <= p /\ p <= arrived
      /\ p = 0 => AtEnd /\ pos = 0
      /\ \A k \in Blank : k >= p /\ (Len(buf) > 0 \/ Taken = 0 => k > p)
  BY CompletePlace
<1>3. /\ arrived \in Nat /\ arrived <= Len(input.stream) /\ Size \in Nat /\ Size > 2
  BY <1>1, LineFacts
<1>4. Len(<< >>) = 0 /\ << >> \in Seq(Char)
  OBVIOUS
<1>5. Taken' = p
  BY DEF Taken
<1>6. Len(buf') = 0
  BY <1>4
<1>7. Start' = p + 1
  <2>1. Start' = p - 0 + 1
    BY <1>5, <1>6 DEF Start
  <2> QED
    BY <1>2, <2>1
<1>8. LineTypes'
  <2>1. /\ input \in Input /\ arrived \in 0 .. Len(input.stream) /\ closed \in BOOLEAN
    BY <1>1 DEF LineTypes
  <2>2. p \in 0 .. arrived
    BY <1>2, <1>3
  <2>3. buf' \in Seq(Char) /\ Len(buf') < Size - 1 /\ Len(buf') <= Taken'
    BY <1>2, <1>3, <1>4, <1>5
  <2>4. \A k \in 1 .. Len(buf') : FALSE
    BY <1>6
  <2> QED
    BY <2>1, <2>2, <2>3, <2>4 DEF LineTypes
<1>9. p = 0 => AtEnd'
  BY <1>2 DEF AtEnd
<1>10. BlankPart' \/ (Len(buf) = 0 /\ Taken # 0)
  <2>1. SUFFICES ASSUME ~(Len(buf) = 0 /\ Taken # 0) PROVE BlankPart'
    OBVIOUS
  <2>2. Len(buf) > 0 \/ Taken = 0
    <3>1. Len(buf) \in Nat
      BY <1>1, LineFacts
    <3> QED
      BY <2>1, <3>1
  <2>3. Blank' = Blank
    BY Steady
  <2> QED
    BY <1>2, <1>5, <2>2, <2>3 DEF BlankPart
<1>11. Fits' => Begun(p + 1)' \/ (AtEnd' /\ ~peeking')
  <2>1. SUFFICES ASSUME Fits PROVE Begun(p + 1)' \/ (AtEnd' /\ ~peeking')
    BY Steady
  <2>2. Ends(p) \/ (AtEnd /\ p = pos)
    BY <2>1, CompleteFits
  <2>3. CASE Ends(p)
    <3> DEFINE b == p + 1
    <3>1. b - 1 = p
      BY <1>2
    <3> HIDE DEF b
    <3>2. Begun(b)
      BY <2>3, <3>1 DEF Ends, Begun
    <3>3. Begun(b)'
      BY <3>2, Steady DEF b
    <3> QED
      BY <3>3 DEF b
  <2>4. CASE AtEnd /\ p = pos
    BY <2>4 DEF AtEnd
  <2> QED
    BY <2>2, <2>3, <2>4
<1> QED
  BY <1>5, <1>7, <1>8, <1>9, <1>10, <1>11

LEMMA CompletedRequest ==
  ASSUME LineInv, pc = "request", NEW line, NEW p, Completes(line, p),
         RequestLine(line), input' = input, arrived' = arrived, closed' = closed,
         buf' = << >>, pos' = p, peeking' = FALSE
  PROVE  LineInv'
<1>1. Reading /\ LineTypes /\ Start = 1 /\ content_length = -1
  BY DEF LineInv, RequestPart, Reading
<1>2. /\ parsed' = Scan(line) /\ content_length' = content_length
      /\ pc' = IF Scan(line).method \in GetOrPost THEN "headers" ELSE "done"
  BY DEF RequestLine, GetOrPost
<1>3. /\ LineTypes' /\ Taken' = p /\ Start' = p + 1
      /\ (p = 0 => AtEnd') /\ (BlankPart' \/ (Len(buf) = 0 /\ Taken # 0))
      /\ Fits' => Begun(p + 1)' \/ (AtEnd' /\ ~peeking')
  BY <1>1, CompletedTypes
<1>4. /\ p \in Nat /\ Taken <= p /\ p <= arrived
  BY <1>1, CompletePlace
<1>5. Taken \in Nat /\ Len(buf) = Taken
  BY <1>1, LineFacts
<1>6. pc' # "request" /\ (pc' = "headers" => parsed'.method \in GetOrPost)
      /\ (parsed'.method \in GetOrPost => pc' = "headers")
  BY <1>2
<1>7. HeaderPart'
  <2>1. p + 1 > 1 \/ p = 0
    BY <1>4
  <2> QED
    BY <1>3, <1>6, <2>1 DEF HeaderPart
<1>8. BlankPart'
  BY <1>3, <1>5 DEF BlankPart
<1>9. BegunPart'
  BY <1>3, <1>6 DEF BegunPart, Nothing, Reading
<1>10. LengthPart'
  <2>1. SUFFICES ASSUME Fits PROVE LengthIs(content_length', parsed'.method, p + 1)
    BY <1>3, Steady DEF LengthPart, LengthIs, Ch
  <2>2. \A k \in Taken + 1 .. p : Ch(k) \in {CR, LF}
    BY <1>1, <2>1, CompleteFits
  <2>3. \A k \in Taken + 1 .. p : Ch(k) # "n"
    BY <2>2, Characters
  <2> QED
    BY <1>1, <1>2, <1>4, <2>3, LengthOver
<1>11. ParsedPart'
  <2> PICK r : r = Scan(line)
    OBVIOUS
  <2>1. SUFFICES ASSUME Fits, r.method \in GetOrPost
                 PROVE  \/ \E f \in 1 .. p : FirstEnd(f)' /\ SaysSo(r, f)
                        \/ AtEnd' /\ Endless(p)
    BY <1>2, Steady DEF ParsedPart, SaysSo, Ch, Endless
  <2>2. (Ends(p) /\ line = Append(buf, LF)) \/ (AtEnd /\ ~peeking /\ p = pos)
    BY <1>1, <2>1, CompleteFits
  <2>3. CASE Ends(p) /\ line = Append(buf, LF)
    <3>1. PICK f \in 1 .. p : FirstEnd(f) /\ SaysSo(r, f)
      BY <1>1, <2>1, <2>3, FirstLine
    <3> QED
      BY <3>1, Steady
  <2>4. CASE AtEnd /\ ~peeking /\ p = pos
    <3>1. Taken = p
      BY <1>1, <2>4, LineFacts
    <3>2. Endless(p)
      BY <1>1, <3>1, LineChars DEF Endless
    <3>3. AtEnd'
      BY <2>4 DEF AtEnd
    <3> QED
      BY <3>2, <3>3
  <2> QED
    BY <2>2, <2>3, <2>4
<1>12. RequestPart' /\ DonePart'
  BY <1>6 DEF RequestPart, DonePart
<1> QED
  BY <1>3, <1>7, <1>8, <1>9, <1>10, <1>11, <1>12 DEF LineInv

\* What is known of the first line stays known.
LEMMA ParsedKept ==
  ASSUME LineInv, pc # "request", NEW p, p \in Nat, pos <= p, p <= arrived,
         input' = input, arrived' = arrived, closed' = closed,
         pos' = p, parsed' = parsed
  PROVE  ParsedPart'
<1>1. LineTypes /\ ParsedPart
  BY DEF LineInv
<1>2. arrived \in Nat /\ pos \in Nat /\ pos <= arrived
  BY <1>1, LineFacts
<1> PICK r : r = parsed
  OBVIOUS
<1>3. SUFFICES ASSUME Fits, r.method \in GetOrPost
               PROVE  \/ \E f \in 1 .. p : FirstEnd(f)' /\ SaysSo(r, f)
                      \/ AtEnd' /\ Endless(p)
  BY Steady DEF ParsedPart, SaysSo, Ch, Endless
<1>4. \/ \E f \in 1 .. pos : FirstEnd(f) /\ SaysSo(r, f)
      \/ AtEnd /\ Endless(pos)
  BY <1>1, <1>3 DEF ParsedPart
<1>5. CASE \E f \in 1 .. pos : FirstEnd(f) /\ SaysSo(r, f)
  <2>1. PICK f \in 1 .. pos : FirstEnd(f) /\ SaysSo(r, f)
    BY <1>5
  <2>2. f \in 1 .. p
    BY <1>2
  <2>3. FirstEnd(f)'
    BY <2>1, Steady
  <2> QED
    BY <2>1, <2>2, <2>3
<1>6. CASE AtEnd /\ Endless(pos)
  <2>1. pos = arrived /\ closed
    BY <1>6 DEF AtEnd
  <2>2. p = pos
    BY <1>2, <2>1
  <2> QED
    BY <1>6, <2>1, <2>2 DEF AtEnd
<1> QED
  BY <1>4, <1>5, <1>6

LEMMA CompletedHeader ==
  ASSUME LineInv, pc = "headers", NEW line, NEW p, Completes(line, p), Header(line),
         input' = input, arrived' = arrived, closed' = closed,
         buf' = << >>, pos' = p, peeking' = FALSE
  PROVE  LineInv'
<1>1. /\ Reading /\ LineTypes /\ parsed.method \in GetOrPost
      /\ Start > 1 \/ (AtEnd /\ pos = 0)
      /\ Fits => LengthIs(content_length, parsed.method, Start)
  BY DEF LineInv, HeaderPart, LengthPart, Reading
<1>2. parsed' = parsed
  BY DEF Header
<1>3. /\ LineTypes' /\ Taken' = p /\ Start' = p + 1
      /\ (p = 0 => AtEnd') /\ (BlankPart' \/ (Len(buf) = 0 /\ Taken # 0))
      /\ Fits' => Begun(p + 1)' \/ (AtEnd' /\ ~peeking')
  BY <1>1, CompletedTypes
<1>4. /\ p \in Nat /\ Taken <= p /\ p <= arrived
      /\ \A k \in Blank : k >= p
  BY <1>1, CompletePlace
<1>5. /\ Taken \in Nat /\ Len(buf) \in Nat /\ Len(buf) <= Taken /\ pos \in Nat
      /\ arrived \in Nat /\ pos <= arrived /\ Taken <= pos /\ pos <= Taken + 1
      /\ (~peeking => pos = Taken)
  BY <1>1, LineFacts
<1>6. pos <= p
  <2> DEFINE q == Taken
  <2>1. \/ Ends(p) \/ p = Taken + 1 \/ p = pos
    BY DEF Completes
  <2>2. q \in Nat /\ pos <= q + 1 /\ (p = q + 2 \/ p = q + 1 \/ p = pos)
    BY <1>5, <2>1 DEF Ends
  <2> HIDE DEF q
  <2> QED
    BY <1>4, <1>5, <2>2
<1>7. ParsedPart'
  BY <1>2, <1>4, <1>6, ParsedKept
<1>8. ASSUME Fits PROVE \A k \in Taken + 1 .. p : Ch(k) # "n"
  <2>1. \A k \in Taken + 1 .. p : Ch(k) \in {CR, LF}
    BY <1>1, <1>8, CompleteFits
  <2> QED
    BY <2>1, Characters
<1>9. ASSUME Fits, Ends(p) \/ Len(buf) > 0 PROVE Start > 1 /\ Begun(Start)
  <2>1. ASSUME AtEnd, pos = 0 PROVE FALSE
    <3>1. arrived = 0 /\ Len(buf) = 0 /\ Taken = 0 /\ p = 0
      BY <1>4, <1>5, <2>1 DEF AtEnd
    <3>2. ~Ends(p)
      BY <1>1, <3>1 DEF Ends, Settled
    <3> QED
      BY <1>9, <3>1, <3>2
  <2>2. Start > 1
    BY <1>1, <2>1
  <2>3. \/ Ends(p) /\ Begun(Start)
        \/ AtEnd /\ ~peeking /\ p = pos /\ (Len(buf) = 0 \/ Begun(Start))
    BY <1>1, <1>9, CompleteFits
  <2>4. ~Ends(p) => Begun(Start)
    BY <1>9, <2>3
  <2>5. Ends(p) => Begun(Start)
    <3>1. SUFFICES ASSUME Ends(p) PROVE p # pos \/ ~AtEnd \/ peeking
      BY <2>3
    <3>2. p > Taken
      BY <1>1, <3>1, EndFacts
    <3> QED
      BY <1>4, <1>5, <3>2
  <2> QED
    BY <2>2, <2>4, <2>5
<1>10. CASE line \in {<< >>, <<LF>>}
  <2>1. /\ pc' \in {"file", "done"} /\ content_length' = content_length /\ Len(buf) = 0
    BY <1>1, <1>10, CompleteLine DEF Header
  <2>2. DonePart'
    <3>1. Blank' = Blank /\ (Fits' <=> Fits)
      BY Steady
    <3>2. ASSUME Fits PROVE (p \in Blank /\ Settled(p)') \/ AtEnd'
      <4>1. Ends(p) \/ (AtEnd /\ p = pos)
        BY <1>1, <3>2, CompleteFits
      <4>2. CASE Ends(p)
        <5>1. p \in Blank
          BY <1>1, <1>9, <2>1, <3>2, <4>2, BlankEnds
        <5>2. Settled(p)'
          BY <4>2, Steady DEF Ends
        <5> QED
          BY <5>1, <5>2
      <4>3. CASE AtEnd /\ p = pos
        BY <4>3 DEF AtEnd
      <4> QED
        BY <4>1, <4>2, <4>3
    <3>3. ASSUME Fits PROVE LengthIs(content_length, parsed.method, p + 1)
      BY <1>1, <1>4, <1>8, <2>1, <3>3, LengthOver
    <3>4. Begins' = Begins
      BY Steady
    <3>5. Fits => LengthIs(content_length, parsed.method, p + 1)'
      BY <1>2, <2>1, <3>3, <3>4 DEF LengthIs, Ch
    <3>6. ASSUME Fits' PROVE /\ (p \in Blank /\ Settled(p)') \/ AtEnd'
                             /\ LengthIs(content_length, parsed.method, p + 1)'
      BY <3>1, <3>2, <3>5, <3>6
    <3> QED
      BY <1>4, <3>1, <3>6 DEF DonePart, LengthIs, Settled, Ch
  <2> QED
    BY <1>3, <1>7, <2>1, <2>2
       DEF LineInv, RequestPart, HeaderPart, BlankPart, BegunPart, LengthPart, Reading
<1>11. CASE line \notin {<< >>, <<LF>>}
  <2>1. /\ Len(buf) > 0 /\ line[1] = Ch(Start)
    BY <1>1, <1>11, CompleteLine
  <2>2. /\ pc' = "headers"
        /\ content_length' =
             IF parsed.method = <<"P">> /\ line[1] = "n" THEN 1 ELSE content_length
    BY <1>11 DEF Header
  <2>3. HeaderPart'
    <3>1. p + 1 > 1 \/ p = 0
      BY <1>4
    <3> QED
      BY <1>1, <1>2, <1>3, <3>1 DEF HeaderPart
  <2>4. BlankPart'
    BY <1>3, <1>5, <2>1
  <2>5. BegunPart'
    BY <1>3, <2>2 DEF BegunPart, Nothing, Reading
  <2>6. LengthPart'
    <3>1. SUFFICES ASSUME Fits PROVE LengthIs(content_length', parsed'.method, p + 1)
      BY <1>3, Steady DEF LengthPart, LengthIs, Ch
    <3>2. Start > 1 /\ Begun(Start)
      BY <1>9, <2>1, <3>1
    <3>3. LengthIs(IF parsed.method = <<"P">> /\ Ch(Start) = "n" THEN 1
                   ELSE content_length, parsed.method, p + 1)
      BY <1>1, <1>4, <1>8, <2>1, <3>1, <3>2, LengthOver
    <3> QED
      BY <1>2, <2>1, <2>2, <3>3
  <2> QED
    BY <1>3, <1>7, <2>2, <2>3, <2>4, <2>5, <2>6 DEF LineInv, RequestPart, DonePart
<1> QED
  BY <1>10, <1>11

LEMMA GoesOn ==
  ASSUME LineInv, Reading, HasChar, pos' = pos + 1, LineTypes', Start' = Start, BlankPart',
         input' = input, arrived' = arrived, closed' = closed, pc' = pc,
         parsed' = parsed, content_length' = content_length
  PROVE  LineInv'
<1>1. LineTypes /\ pos \in Nat /\ arrived \in Nat /\ pos < arrived /\ ~AtEnd
  <2>1. LineTypes
    BY DEF LineInv
  <2>2. pos \in Nat /\ arrived \in Nat
    BY <2>1, LineFacts
  <2> QED
    BY <2>1, <2>2 DEF HasChar, AtEnd
<1>2. RequestPart'
  BY DEF LineInv, RequestPart
<1>3. HeaderPart'
  BY <1>1 DEF LineInv, HeaderPart
<1>4. BegunPart'
  <2>1. Reading' = Reading
    BY DEF Reading
  <2>2. Begun(Start)' <=> Begun(Start)
    BY Steady DEF Begun, Settled, Ch
  <2>3. Reading /\ Fits => Begun(Start)
    BY <1>1 DEF LineInv, BegunPart, Nothing
  <2> QED
    BY <2>1, <2>2, <2>3, Steady DEF BegunPart
<1>5. LengthPart'
  BY Steady DEF LineInv, LengthPart, LengthIs, Ch
<1>6. ParsedPart'
  <2>1. CASE pc = "request"
    BY <2>1 DEF ParsedPart
  <2>2. CASE pc # "request"
    <3> DEFINE p == pos + 1
    <3>1. p \in Nat /\ pos <= p /\ p <= arrived /\ pos' = p
      BY <1>1
    <3> HIDE DEF p
    <3> QED
      BY <2>2, <3>1, ParsedKept
  <2> QED
    BY <2>1, <2>2
<1>7. DonePart'
  BY DEF DonePart, Reading
<1> QED
  BY <1>2, <1>3, <1>4, <1>5, <1>6, <1>7 DEF LineInv

LEMMA PeekStarts ==
  ASSUME LineInv, Reading, ~peeking, HasChar, NextChar = CR, pos' = pos + 1,
         peeking' = TRUE, UNCHANGED <<input, arrived, closed, pc, buf, parsed, content_length>>
  PROVE  LineInv'
<1>1. LineTypes /\ pos \in Nat /\ arrived \in Nat /\ pos < arrived /\ Taken = pos
  <2>1. LineTypes
    BY DEF LineInv
  <2>2. pos \in Nat /\ arrived \in Nat /\ Taken = pos
    BY <2>1, LineFacts
  <2> QED
    BY <2>1, <2>2 DEF HasChar
<1>2. Taken' = Taken
  BY <1>1 DEF Taken
<1>3. Start' = Start
  BY <1>2 DEF Start
<1>4. LineTypes'
  <2>1. pos' \in 0 .. arrived /\ pos' > 0 /\ Ch(pos') = CR
    BY <1>1 DEF NextChar, Ch
  <2>2. \A k \in 1 .. Len(buf) : buf[k] = Ch(Start + k - 1) /\ buf[k] \notin {CR, LF}
    BY <1>1 DEF LineTypes
  <2>3. \A k \in 1 .. Len(buf') : buf'[k] = Ch(Start + k - 1)' /\ buf'[k] \notin {CR, LF}
    BY <1>3, <2>2 DEF Ch
  <2>4. /\ input \in Input /\ arrived \in 0 .. Len(input.stream) /\ closed \in BOOLEAN
        /\ buf \in Seq(Char) /\ Len(buf) < Size - 1 /\ Len(buf) <= Taken
    BY <1>1 DEF LineTypes
  <2> QED
    BY <1>2, <2>1, <2>3, <2>4 DEF LineTypes, Ch
<1>5. BlankPart'
  BY <1>2, Steady DEF LineInv, BlankPart, Reading
<1> QED
  BY <1>3, <1>4, <1>5, GoesOn

LEMMA CharStored ==
  ASSUME LineInv, Reading, ~peeking, HasChar, NextChar \notin {CR, LF},
         Len(buf) + 1 # Size - 1, pos' = pos + 1, buf' = Append(buf, NextChar),
         UNCHANGED <<input, arrived, closed, peeking, pc, parsed, content_length>>
  PROVE  LineInv'
<1>1. LineTypes /\ pos \in Nat /\ arrived \in Nat /\ pos < arrived /\ Taken = pos
      /\ Size \in Nat /\ Len(buf) \in Nat /\ Len(buf) < Size - 1 /\ Len(buf) <= Taken
      /\ Start \in Nat /\ Start = pos - Len(buf) + 1
  <2>1. LineTypes
    BY DEF LineInv
  <2>2. pos \in Nat /\ arrived \in Nat /\ Taken = pos /\ Size \in Nat /\ Len(buf) \in Nat
        /\ Start \in Nat
    BY <2>1, LineFacts
  <2>3. Len(buf) < Size - 1 /\ Len(buf) <= Taken
    BY <2>1 DEF LineTypes
  <2> QED
    BY <2>1, <2>2, <2>3 DEF HasChar, Start
<1>2. NextChar = Ch(pos + 1) /\ NextChar \in Char
  <2> DEFINE p == pos + 1
  <2>1. p \in 1 .. arrived
    BY <1>1
  <2>2. Ch(p) \in Char
    <3> HIDE DEF p
    <3> QED
      BY <1>1, <2>1, LineFacts
  <2> QED
    BY <2>2 DEF NextChar, Ch
<1>3. buf \in Seq(Char)
  BY <1>1 DEF LineTypes
<1>4. /\ buf' \in Seq(Char) /\ Len(buf') = Len(buf) + 1
      /\ \A k \in 1 .. Len(buf) : buf'[k] = buf[k]
      /\ buf'[Len(buf) + 1] = NextChar
  BY <1>2, <1>3, Appended
<1>5. Taken' = pos + 1
  BY DEF Taken
<1>6. Start' = Start
  BY <1>1, <1>4, <1>5 DEF Start
<1>7. LineTypes'
  <2>1. pos' \in 0 .. arrived
    BY <1>1
  <2>2. Len(buf') < Size - 1 /\ Len(buf') <= Taken'
    <3> DEFINE n == Len(buf)
    <3>1. n \in Nat /\ n < Size - 1 /\ n <= pos /\ n + 1 # Size - 1
      BY <1>1
    <3>2. Len(buf') = n + 1
      BY <1>4
    <3> HIDE DEF n
    <3>3. n + 1 < Size - 1 /\ n + 1 <= pos + 1
      BY <1>1, <3>1
    <3> QED
      BY <1>5, <3>2, <3>3
  <2>3. ASSUME NEW k \in 1 .. Len(buf')
        PROVE  buf'[k] = Ch(Start + k - 1) /\ buf'[k] \notin {CR, LF}
    <3>1. CASE k \in 1 .. Len(buf)
      <4>1. buf[k] = Ch(Start + k - 1) /\ buf[k] \notin {CR, LF}
        BY <1>1, <3>1 DEF LineTypes
      <4> QED
        BY <1>4, <3>1, <4>1
    <3>2. CASE k = Len(buf) + 1
      <4>1. Start + k - 1 = pos + 1
        BY <1>1, <3>2
      <4>2. buf'[k] = NextChar
        BY <1>4, <3>2
      <4> QED
        BY <1>2, <4>1, <4>2
    <3> QED
      BY <1>1, <1>4, <3>1, <3>2
  <2>4. \A k \in 1 .. Len(buf') : buf'[k] = Ch(Start + k - 1)' /\ buf'[k] \notin {CR, LF}
    BY <1>6, <2>3 DEF Ch
  <2>5. /\ input \in Input /\ arrived \in 0 .. Len(input.stream) /\ closed \in BOOLEAN
        /\ peeking \in BOOLEAN
    BY <1>1 DEF LineTypes
  <2>6. ~peeking' /\ peeking' \in BOOLEAN
    BY <2>5
  <2>7. /\ input' \in Input /\ arrived' \in 0 .. Len(input'.stream) /\ closed' \in BOOLEAN
        /\ pos' \in 0 .. arrived'
    BY <2>1, <2>5
  <2> QED
    BY <1>4, <2>2, <2>4, <2>6, <2>7 DEF LineTypes
<1>8. BlankPart'
  <2>1. \A k \in Blank : k > pos /\ k \in Nat
    BY <1>1 DEF LineInv, BlankPart, Blank
  <2> DEFINE p == pos + 1
  <2>2. Ch(p) \notin {CR, LF}
    BY <1>2
  <2> HIDE DEF p
  <2>3. p \notin Blank
    BY <2>2, Characters DEF Blank, IsEnd, Ch
  <2>4. \A k \in Blank : k > p
    BY <1>1, <2>1, <2>3 DEF p
  <2> QED
    BY <1>5, <2>4, Steady DEF BlankPart, p
<1> QED
  BY <1>6, <1>7, <1>8, GoesOn

LEMMA Completed ==
  ASSUME LineInv, NEW line, NEW p, Completes(line, p), LineDone(line),
         pos' = p, peeking' = FALSE, UNCHANGED <<input, arrived, closed>>
  PROVE  LineInv'
<1>1. CASE RequestLine(line)
  BY <1>1, CompletedRequest DEF LineDone, RequestLine
<1>2. CASE Header(line)
  BY <1>2, CompletedHeader DEF LineDone, Header
<1> QED
  BY <1>1, <1>2 DEF LineDone

LEMMA RecvCharStep ==
  ASSUME LineInv, RecvChar
  PROVE  LineInv'
<1>1. /\ Reading /\ ~peeking /\ HasChar /\ pos' = pos + 1
      /\ UNCHANGED <<input, arrived, closed>>
  BY DEF RecvChar, Other
<1>2. LineTypes /\ pos \in Nat /\ arrived \in Nat /\ pos < arrived /\ Taken = pos
      /\ buf \in Seq(Char) /\ Len(buf) \in Nat
  <2>1. LineTypes
    BY DEF LineInv
  <2>2. pos \in Nat /\ arrived \in Nat /\ Taken = pos /\ Len(buf) \in Nat
    BY <1>1, <2>1, LineFacts
  <2>3. buf \in Seq(Char)
    BY <2>1 DEF LineTypes
  <2> QED
    BY <1>1, <2>1, <2>2, <2>3 DEF HasChar
<1> DEFINE p == pos + 1
<1>3. NextChar = Ch(p) /\ p \in 1 .. arrived /\ p = Taken + 1 /\ pos' = p
  BY <1>1, <1>2 DEF NextChar, Ch
<1>4. CASE NextChar = CR
  BY <1>1, <1>4, PeekStarts DEF RecvChar
<1>5. CASE NextChar # CR
  <2> DEFINE line == Append(buf, NextChar)
  <2>1. Stored(line) /\ peeking' = peeking
    BY <1>5 DEF RecvChar
  <2>2. Ch(p) \in Char
    <3> HIDE DEF p
    <3> QED
      BY <1>2, <1>3, LineFacts
  <2>3. Len(line) = Len(buf) + 1 /\ line[Len(line)] = NextChar
    BY <1>2, <1>3, <2>2, Appended
  <2> HIDE DEF p
  <2>4. CASE NextChar = LF
    <3>1. Settled(p)
      BY <1>3, <2>4, Characters DEF Settled
    <3>2. Completes(line, p)
      BY <1>3, <2>4, <3>1 DEF Completes, Ends
    <3>3. LineDone(line)
      BY <2>1, <2>3, <2>4 DEF Stored
    <3>4. peeking' = FALSE
      BY <1>1, <1>2, <2>1 DEF LineTypes
    <3> HIDE DEF line
    <3> QED
      BY <1>1, <1>3, <3>2, <3>3, <3>4, Completed
  <2>5. CASE NextChar # LF /\ Len(buf) + 1 = Size - 1
    <3>1. Completes(line, p)
      <4>1. Taken < arrived
        BY <1>2
      <4> QED
        BY <1>3, <1>5, <2>5, <4>1 DEF Completes
    <3>2. LineDone(line)
      BY <2>1, <2>3, <2>5 DEF Stored
    <3>3. peeking' = FALSE
      BY <1>1, <1>2, <2>1 DEF LineTypes
    <3> HIDE DEF line
    <3> QED
      BY <1>1, <1>3, <3>1, <3>2, <3>3, Completed
  <2>6. CASE NextChar # LF /\ Len(buf) + 1 # Size - 1
    <3>1. buf' = line /\ UNCHANGED <<pc, parsed, content_length>>
      BY <2>1, <2>3, <2>6 DEF Stored
    <3> QED
      BY <1>1, <1>5, <2>1, <2>6, <3>1, CharStored
  <2> QED
    BY <2>4, <2>5, <2>6
<1> QED
  BY <1>4, <1>5

LEMMA RecvEndStep ==
  ASSUME LineInv, RecvEnd
  PROVE  LineInv'
<1>1. ~peeking /\ AtEnd /\ LineDone(buf) /\ UNCHANGED <<pos, peeking, input, arrived, closed>>
  BY DEF RecvEnd, Other
<1>2. Completes(buf, pos)
  BY <1>1 DEF Completes
<1>3. peeking' = FALSE
  BY <1>1 DEF LineInv, LineTypes
<1> QED
  BY <1>1, <1>2, <1>3, Completed

LEMMA PeekStep ==
  ASSUME LineInv, Peek
  PROVE  LineInv'
<1>2. /\ peeking /\ (HasChar \/ AtEnd) /\ pos' = Behind /\ peeking' = FALSE
      /\ Stored(Append(buf, LF)) /\ UNCHANGED <<input, arrived, closed>>
  BY DEF Peek, Other
<1>3. LineTypes /\ pos \in Nat /\ arrived \in Nat /\ pos <= arrived /\ pos = Taken + 1
      /\ Taken \in Nat /\ buf \in Seq(Char) /\ Len(buf) \in Nat /\ pos > 0 /\ Ch(pos) = CR
  <2>1. LineTypes
    BY DEF LineInv
  <2>2. pos \in Nat /\ arrived \in Nat /\ pos <= arrived /\ pos = Taken + 1
        /\ Len(buf) \in Nat /\ Taken \in Nat
    BY <1>2, <2>1, LineFacts
  <2>3. buf \in Seq(Char) /\ pos > 0 /\ Ch(pos) = CR
    BY <1>2, <2>1 DEF LineTypes
  <2> QED
    BY <2>1, <2>2, <2>3
<1> DEFINE line == Append(buf, LF)
<1>4. LineDone(line)
  <2>1. LF \in Char
    BY Characters
  <2>2. Len(line) = Len(buf) + 1 /\ line[Len(buf) + 1] = LF
    BY <1>3, <2>1, Appended
  <2> QED
    BY <1>2, <2>2 DEF Stored
<1> PICK p : p = Behind
  OBVIOUS
<1>5. Ends(p)
  <2>1. CASE HasChar /\ NextChar = LF
    <3> DEFINE q == pos + 1
    <3>1. p = q /\ q \in 1 .. arrived /\ Ch(q) = LF /\ q = Taken + 2
      BY <1>3, <2>1 DEF Behind, HasChar, NextChar, Ch
    <3> HIDE DEF q
    <3>2. Settled(p)
      BY <3>1, Characters DEF Settled
    <3>3. Ch(Taken + 1) = CR
      BY <1>3
    <3> QED
      BY <3>1, <3>2, <3>3 DEF Ends
  <2>2. CASE ~(HasChar /\ NextChar = LF)
    <3>1. p = pos
      BY <2>2 DEF Behind
    <3>2. IF pos = arrived THEN closed ELSE Ch(pos + 1) # LF
      BY <1>2, <1>3, <2>2 DEF HasChar, AtEnd, NextChar, Ch
    <3>3. Settled(p)
      BY <1>3, <3>1, <3>2 DEF Settled
    <3> QED
      BY <1>3, <3>1, <3>3 DEF Ends
  <2> QED
    BY <2>1, <2>2
<1>6. Completes(line, p)
  BY <1>5 DEF Completes
<1> HIDE DEF line
<1> QED
  BY <1>2, <1>4, <1>6, Completed

LEMMA CatLines ==
  ASSUME LineInv, Cat
  PROVE  LineInv'
<1>1. /\ pc = "file" /\ pc' \in {"file", "done"}
      /\ UNCHANGED <<input, arrived, closed, pos, peeking, buf, parsed, content_length>>
  BY DEF Cat, lineVars
<1>2. Taken' = Taken /\ Start' = Start
  BY <1>1 DEF Taken, Start
<1>3. LineTypes'
  BY <1>1, <1>2 DEF LineInv, LineTypes, Ch
<1>4. RequestPart' /\ HeaderPart' /\ BlankPart' /\ BegunPart' /\ LengthPart'
  BY <1>1 DEF RequestPart, HeaderPart, BlankPart, BegunPart, LengthPart, Reading
<1>5. ParsedPart'
  <2>1. pos \in Nat /\ pos <= arrived /\ pos <= pos
    BY LineFacts DEF LineInv
  <2> QED
    BY <1>1, <2>1, ParsedKept
<1>6. DonePart'
  <2>1. (AtEnd' <=> AtEnd) /\ (Settled(pos)' <=> Settled(pos))
    BY <1>1 DEF AtEnd, Settled, Ch
  <2>2. LengthIs(content_length, parsed.method, pos + 1)'
          <=> LengthIs(content_length, parsed.method, pos + 1)
    BY <1>1, Steady DEF LengthIs, Ch
  <2> QED
    BY <1>1, <2>1, <2>2, Steady DEF LineInv, DonePart
<1> QED
  BY <1>3, <1>4, <1>5, <1>6 DEF LineInv

LEMMA CloseStep ==
  ASSUME LineInv, Close
  PROVE  LineInv'
<1>1. /\ ~closed /\ closed' = TRUE
      /\ UNCHANGED <<input, arrived, pc, pos, peeking, buf, parsed, content_length>>
  BY DEF Close, lineVars
<1>2. Taken' = Taken /\ Start' = Start /\ Reading' = Reading
  BY <1>1 DEF Taken, Start, Reading
<1>3. ~AtEnd /\ ~Nothing
  BY <1>1 DEF AtEnd, Nothing
<1>4. \A k : IsEnd(k)' <=> IsEnd(k)
  BY <1>1 DEF IsEnd
<1>5. Blank' = Blank /\ Begins' = Begins
  BY <1>1, <1>4 DEF Blank, Begins
<1>6. HeadersEnd' = HeadersEnd
  BY <1>1, <1>5 DEF HeadersEnd
<1>7. Fits' <=> Fits
  BY <1>1, <1>5, <1>6 DEF Fits
<1>8. \A k : Settled(k) => Settled(k)'
  BY <1>1 DEF Settled, Ch
<1>9. LineTypes'
  BY <1>1, <1>2 DEF LineInv, LineTypes, Ch
<1>10. RequestPart' /\ HeaderPart' /\ BlankPart'
  BY <1>1, <1>2, <1>3, <1>5 DEF LineInv, RequestPart, HeaderPart, BlankPart
<1>11. BegunPart'
  <2>1. Begun(Start) => Begun(Start)'
    BY <1>1, <1>2 DEF Begun, Settled, Ch
  <2> QED
    BY <1>2, <1>3, <1>7, <2>1 DEF LineInv, BegunPart
<1>12. LengthPart'
  BY <1>1, <1>2, <1>5, <1>7 DEF LineInv, LengthPart, LengthIs, Ch
<1>13. ParsedPart'
  BY <1>1, <1>3, <1>7 DEF LineInv, ParsedPart, FirstEnd, SaysSo, Ch
<1>14. DonePart'
  <2>1. Settled(pos) => Settled(pos)'
    BY <1>1 DEF Settled, Ch
  <2>2. LengthIs(content_length, parsed.method, pos + 1)'
          <=> LengthIs(content_length, parsed.method, pos + 1)
    BY <1>1, <1>5 DEF LengthIs, Ch
  <2> QED
    BY <1>1, <1>3, <1>5, <1>7, <2>1, <2>2 DEF LineInv, DonePart
<1> QED
  BY <1>9, <1>10, <1>11, <1>12, <1>13, <1>14 DEF LineInv

\* One more character changes nothing of what could be told before.
LEMMA ArriveFacts ==
  ASSUME LineTypes, Arrive
  PROVE  /\ \A k \in 1 .. arrived - 1 : IsEnd(k)' <=> IsEnd(k)
         /\ \A k \in Blank' : k \in Nat /\ (k \in Blank \/ k > arrived)
         /\ \A x \in Nat : x <= arrived => (x \in Begins' <=> x \in Begins)
         /\ \A k : Settled(k) => Settled(k)'
         /\ \A k \in Blank : Settled(k) => k \in Blank'
<1> DEFINE a == arrived
<1>1. a \in Nat /\ arrived' = a + 1 /\ input' = input /\ closed' = closed /\ ~closed
  BY LineFacts DEF Arrive
<1>2. \A k : Ch(k)' = Ch(k)
  BY <1>1 DEF Ch
<1>3. \A k : IsEnd(k) <=> /\ k \in 1 .. a
                          /\ Ch(k) = LF \/ (Ch(k) = CR /\ (k = a \/ Ch(k + 1) # LF))
  BY DEF IsEnd, Ch
<1>4. \A k : IsEnd(k)' <=> /\ k \in 1 .. a + 1
                           /\ Ch(k) = LF \/ (Ch(k) = CR /\ (k = a + 1 \/ Ch(k + 1) # LF))
  BY <1>1 DEF IsEnd, Ch
<1>5. \A k : k \in Blank <=>
        k \in 2 .. a /\ IsEnd(k) /\ (IsEnd(k - 1) \/ (Ch(k - 1) = CR /\ IsEnd(k - 2)))
  BY DEF Blank, Ch
<1>6. \A k : k \in Blank' <=>
        k \in 2 .. a + 1 /\ IsEnd(k)' /\ (IsEnd(k - 1)' \/ (Ch(k - 1) = CR /\ IsEnd(k - 2)'))
  BY <1>1 DEF Blank, Ch, IsEnd
<1>7. \A k : Settled(k) => k \in 1 .. a /\ Ch(k) \in {CR, LF}
                           /\ (Ch(k) = CR => k # a /\ Ch(k + 1) # LF)
  BY <1>1 DEF Settled
<1>8. \A k : k \in 1 .. a /\ Ch(k) \in {CR, LF} /\ (Ch(k) = CR => k # a /\ Ch(k + 1) # LF)
               => Settled(k)'
  <2>1. \A k \in 1 .. a : k \in 1 .. a + 1 /\ k # a + 1
    BY <1>1
  <2> QED
    BY <1>1, <2>1 DEF Settled, Ch
<1>9. \A x : x \in Begins <=> x = 1 \/ (x \in 2 .. a + 1 /\ IsEnd(x - 1))
  BY DEF Begins
<1>10. \A x : x \in Begins' <=> x = 1 \/ (x \in 2 .. a + 2 /\ IsEnd(x - 1)')
  <2>1. a + 1 + 1 = a + 2
    BY <1>1
  <2> QED
    BY <1>1, <2>1 DEF Begins, IsEnd
<1> HIDE DEF a
<1>11. ASSUME NEW k \in 1 .. a - 1 PROVE IsEnd(k)' <=> IsEnd(k)
  <2>1. k \in 1 .. a /\ k \in 1 .. a + 1 /\ k # a /\ k # a + 1
    BY <1>1
  <2> QED
    BY <1>3, <1>4, <2>1
<1>12. ASSUME NEW k, k \in Int, k <= a, IsEnd(k)' PROVE IsEnd(k)
  <2>1. k \in 1 .. a /\ k # a + 1
    BY <1>1, <1>4, <1>12
  <2> QED
    BY <1>3, <1>4, <1>12, <2>1
<1>13. ASSUME NEW k \in Blank' PROVE k \in Nat /\ (k \in Blank \/ k > a)
  <2>1. k \in 2 .. a + 1 /\ IsEnd(k)' /\ (IsEnd(k - 1)' \/ (Ch(k - 1) = CR /\ IsEnd(k - 2)'))
    BY <1>6
  <2>2. CASE k <= a
    <3>1. k \in Int /\ k - 1 \in Int /\ k - 2 \in Int /\ k - 1 <= a /\ k - 2 <= a
          /\ k \in 2 .. a /\ k \in Nat
      BY <1>1, <2>1, <2>2
    <3>2. IsEnd(k) /\ (IsEnd(k - 1) \/ (Ch(k - 1) = CR /\ IsEnd(k - 2)))
      BY <1>12, <2>1, <2>2, <3>1
    <3> QED
      BY <1>5, <3>1, <3>2
  <2>3. CASE k > a
    BY <1>1, <2>1, <2>3
  <2> QED
    BY <1>1, <2>1, <2>2, <2>3
<1>14. ASSUME NEW x \in Nat, x <= a PROVE x \in Begins' <=> x \in Begins
  <2>1. CASE x \in {0, 1}
    BY <1>1, <1>9, <1>10, <2>1
  <2>2. CASE x \notin {0, 1}
    <3>1. x - 1 \in 1 .. a - 1 /\ x \in 2 .. a + 1 /\ x \in 2 .. a + 2 /\ x # 1
      BY <1>1, <1>14, <2>2
    <3> QED
      BY <1>9, <1>10, <1>11, <3>1
  <2> QED
    BY <2>1, <2>2
<1>15. ASSUME NEW k, Settled(k) PROVE Settled(k)'
  BY <1>7, <1>8, <1>15
<1>16. ASSUME NEW k \in Blank, Settled(k) PROVE k \in Blank'
  <2>1. k \in 2 .. a /\ IsEnd(k) /\ (IsEnd(k - 1) \/ (Ch(k - 1) = CR /\ IsEnd(k - 2)))
    BY <1>5
  <2>2. k \in 2 .. a + 1 /\ k - 1 \in 1 .. a - 1 /\ k \in 1 .. a + 1
    BY <1>1, <2>1
  <2>3. IsEnd(k)'
    BY <1>4, <1>7, <1>16, <2>2
  <2>4. IsEnd(k - 1) => IsEnd(k - 1)'
    BY <1>11, <2>2
  <2>5. IsEnd(k - 2) => IsEnd(k - 2)'
    <3>1. SUFFICES ASSUME IsEnd(k - 2) PROVE IsEnd(k - 2)'
      OBVIOUS
    <3>2. k - 2 \in 1 .. a
      BY <1>3, <3>1
    <3>3. k - 2 \in 1 .. a - 1
      BY <1>1, <2>1, <3>2
    <3> QED
      BY <1>11, <3>1, <3>3
  <2> QED
    BY <1>6, <2>1, <2>2, <2>3, <2>4, <2>5
<1> QED
  BY <1>11, <1>13, <1>14, <1>15, <1>16 DEF a

LEMMA FitsBefore ==
  ASSUME LineTypes, Arrive, Fits'
  PROVE  Fits
<1> DEFINE H == {arrived} \cup Blank
           G == {arrived + 1} \cup Blank'
<1>1. arrived \in Nat /\ arrived' = arrived + 1 /\ input' = input /\ Size \in Nat /\ Size > 2
  BY LineFacts DEF Arrive
<1>2. /\ \A k \in Blank' : k \in Nat /\ (k \in Blank \/ k > arrived)
      /\ \A x \in Nat : x <= arrived => (x \in Begins' <=> x \in Begins)
  BY ArriveFacts
<1>3. H \in SUBSET Nat /\ H # {} /\ HeadersEnd = Min(H)
  BY <1>1 DEF Blank, HeadersEnd
<1>4. G \in SUBSET Nat /\ G # {}
  BY <1>1, <1>2
<1>5. HeadersEnd' = Min(G)
  BY <1>1 DEF HeadersEnd
<1>6. \A k \in G : k \in Blank \/ k > arrived
  BY <1>1, <1>2
<1>7. Blank \subseteq H
  OBVIOUS
<1> HIDE DEF H, G
<1>8. HeadersEnd \in Nat /\ \A x \in Blank : HeadersEnd <= x
  BY <1>3, <1>7, Least
<1>9. HeadersEnd' \in G /\ HeadersEnd' \in Nat
  BY <1>4, <1>5, Least
<1>10. \A b \in Begins' :
        \/ \E k \in b .. b + Size - 2 : k > arrived + 1 \/ input.stream[k] \in {CR, LF}
        \/ b > HeadersEnd'
  BY <1>1 DEF Fits
<1>11. \A b \in Begins : b \in Nat
  BY <1>1 DEF Begins
<1>12. SUFFICES ASSUME NEW b \in Begins
                PROVE  \/ \E k \in b .. b + Size - 2 : k > arrived \/ input.stream[k] \in {CR, LF}
                       \/ b > HeadersEnd
  BY DEF Fits
<1>13. CASE b > arrived
  <2>1. b \in b .. b + Size - 2
    BY <1>1, <1>11
  <2> QED
    BY <1>13, <2>1
<1>14. CASE ~(b > arrived)
  <2>1. b \in Begins'
    BY <1>1, <1>2, <1>11, <1>14
  <2>2. CASE b > HeadersEnd'
    <3> DEFINE h == HeadersEnd'
    <3>1. h \in Blank
      BY <1>1, <1>6, <1>9, <1>11, <1>14, <2>2
    <3>2. HeadersEnd <= h /\ h \in Nat
      BY <1>8, <1>9, <3>1
    <3> QED
      BY <1>8, <1>11, <2>2, <3>2
  <2>3. CASE \E k \in b .. b + Size - 2 : k > arrived + 1 \/ input.stream[k] \in {CR, LF}
    <3>1. PICK k \in b .. b + Size - 2 : k > arrived + 1 \/ input.stream[k] \in {CR, LF}
      BY <2>3
    <3>2. k > arrived \/ input.stream[k] \in {CR, LF}
      BY <1>1, <1>11, <3>1
    <3> QED
      BY <3>1, <3>2
  <2> QED
    BY <1>10, <2>1, <2>2, <2>3
<1> QED
  BY <1>13, <1>14

LEMMA ArriveStep ==
  ASSUME LineInv, Arrive
  PROVE  LineInv'
<1>1. /\ ~closed /\ arrived' = arrived + 1 /\ arrived < Len(input.stream)
      /\ UNCHANGED <<input, closed, pc, pos, peeking, buf, parsed, content_length>>
  BY DEF Arrive, lineVars
<1>2. /\ LineTypes /\ arrived \in Nat /\ pos \in Nat /\ pos <= arrived
      /\ Taken \in Nat /\ Taken <= pos /\ Start \in Nat /\ Start <= Taken + 1
  <2>1. LineTypes
    BY DEF LineInv
  <2> QED
    BY <2>1, LineFacts
<1>3. /\ \A k \in Blank' : k \in Nat /\ (k \in Blank \/ k > arrived)
      /\ \A x \in Nat : x <= arrived => (x \in Begins' <=> x \in Begins)
      /\ \A k : Settled(k) => Settled(k)'
      /\ \A k \in Blank : Settled(k) => k \in Blank'
  BY <1>2, ArriveFacts
<1>4. Fits' => Fits
  BY <1>2, FitsBefore
<1>5. Taken' = Taken /\ Start' = Start /\ Reading' = Reading
  BY <1>1 DEF Taken, Start, Reading
<1>6. ~AtEnd /\ ~Nothing
  BY <1>1 DEF AtEnd, Nothing
<1>7. \A c, m, b : b \in Nat /\ b <= arrived + 1 /\ LengthIs(c, m, b) => LengthIs(c, m, b)'
  <2>1. SUFFICES ASSUME NEW c, NEW m, NEW b \in Nat, b <= arrived + 1, LengthIs(c, m, b)
                 PROVE  LengthIs(c, m, b)'
    OBVIOUS
  <2>2. ASSUME NEW x, x < b PROVE x \in Begins' \ {1} <=> x \in Begins \ {1}
    <3>1. x \in Begins \/ x \in Begins' => x \in Nat
      BY <1>1, <1>2 DEF Begins
    <3>2. x \in Nat => x <= arrived
      BY <1>2, <2>1, <2>2
    <3> QED
      BY <1>3, <3>1, <3>2
  <2>3. \A x : Ch(x)' = Ch(x)
    BY <1>1 DEF Ch
  <2>4. (\E x \in Begins' \ {1} : x < b /\ Ch(x)' = "n")
          <=> (\E x \in Begins \ {1} : x < b /\ Ch(x) = "n")
    BY <2>2, <2>3
  <2> QED
    BY <2>1, <2>4 DEF LengthIs
<1>8. LineTypes'
  <2>1. arrived' \in 0 .. Len(input.stream) /\ pos \in 0 .. arrived'
    <3>1. Len(input.stream) \in Nat
      BY <1>2, LineFacts
    <3> QED
      BY <1>1, <1>2, <3>1
  <2> QED
    BY <1>1, <1>2, <1>5, <2>1 DEF LineTypes, Ch
<1>9. RequestPart' /\ HeaderPart'
  BY <1>1, <1>5, <1>6 DEF LineInv, RequestPart, HeaderPart
<1>10. BlankPart'
  <2>1. Reading => \A k \in Blank : k > Taken
    BY DEF LineInv, BlankPart
  <2>2. ASSUME Reading, NEW k \in Blank' PROVE k > Taken
    BY <1>2, <1>3, <2>1, <2>2
  <2> QED
    BY <1>5, <2>2 DEF BlankPart
<1>11. BegunPart'
  <2>1. Begun(Start) => Begun(Start)'
    <3> PICK b : b = Start
      OBVIOUS
    <3>1. b' = b /\ Start' = b
      BY <1>5
    <3>2. Settled(b - 1) => Settled(b - 1)'
      BY <1>3
    <3> QED
      BY <3>1, <3>2 DEF Begun, Settled, Ch
  <2> QED
    BY <1>4, <1>5, <1>6, <2>1 DEF LineInv, BegunPart
<1>12. LengthPart'
  <2> PICK c, m, b : c = content_length /\ m = parsed.method /\ b = Start
    OBVIOUS
  <2>1. c = content_length' /\ m = parsed'.method /\ b = Start' /\ b \in Nat /\ b <= arrived + 1
    BY <1>1, <1>2, <1>5
  <2>2. pc = "headers" /\ Fits => LengthIs(c, m, b)
    BY DEF LineInv, LengthPart
  <2>3. pc = "headers" /\ Fits => LengthIs(c, m, b)'
    BY <1>7, <2>1, <2>2
  <2> QED
    BY <1>1, <1>4, <2>1, <2>3 DEF LengthPart, LengthIs
<1>13. ParsedPart'
  BY <1>1, <1>4, <1>6 DEF LineInv, ParsedPart, FirstEnd, SaysSo, Ch
<1>14. DonePart'
  <2> PICK c, m, p : c = content_length /\ m = parsed.method /\ p = pos
    OBVIOUS
  <2>1. c = content_length' /\ m = parsed'.method /\ p = pos' /\ p + 1 \in Nat
        /\ p + 1 <= arrived + 1
    BY <1>1, <1>2
  <2>2. SUFFICES ASSUME pc \in {"file", "done"}, m \in GetOrPost
                 PROVE  /\ \A k \in Blank' : k >= p
                        /\ Fits' => /\ (p \in Blank' /\ Settled(p)') \/ AtEnd'
                                    /\ LengthIs(c, m, p + 1)'
    BY <1>1, <2>1 DEF DonePart, LengthIs, Settled, Ch
  <2>3. /\ \A k \in Blank : k >= p
        /\ Fits => (p \in Blank /\ Settled(p)) /\ LengthIs(c, m, p + 1)
    BY <1>6, <2>2 DEF LineInv, DonePart
  <2>4. ASSUME NEW k \in Blank' PROVE k >= p
    BY <1>2, <1>3, <2>3
  <2>5. LengthIs(c, m, p + 1) => LengthIs(c, m, p + 1)'
    BY <1>7, <2>1
  <2> QED
    BY <1>3, <1>4, <2>3, <2>4, <2>5
<1> QED
  BY <1>8, <1>9, <1>10, <1>11, <1>12, <1>13, <1>14 DEF LineInv

LEMMA LineInit == RequestInit => LineInv
<1> SUFFICES ASSUME RequestInit PROVE LineInv
  OBVIOUS
<1>1. /\ input \in Input /\ arrived = 0 /\ closed = FALSE /\ pc = "request" /\ pos = 0
      /\ peeking = FALSE /\ buf = << >> /\ content_length = -1
  BY DEF RequestInit
<1>2. input.stream \in Seq(Char) /\ Size \in Nat /\ Size > 2
  BY <1>1, Constants
<1>3. Len(buf) = 0 /\ buf \in Seq(Char) /\ Len(input.stream) \in Nat
  BY <1>1, <1>2
<1>4. Taken = 0 /\ Start = 1
  BY <1>1, <1>3 DEF Taken, Start
<1>5. LineTypes
  <2>1. arrived \in 0 .. Len(input.stream) /\ pos \in 0 .. arrived
    BY <1>1, <1>3
  <2>2. Len(buf) < Size - 1 /\ Len(buf) <= Taken
    BY <1>2, <1>3, <1>4
  <2>3. \A k \in 1 .. Len(buf) : FALSE
    BY <1>3
  <2> QED
    BY <1>1, <1>3, <2>1, <2>2, <2>3 DEF LineTypes
<1>6. \A k \in Blank : FALSE
  BY <1>1 DEF Blank
<1> QED
  BY <1>1, <1>4, <1>5, <1>6
     DEF LineInv, RequestPart, HeaderPart, BlankPart, BegunPart, LengthPart,
         ParsedPart, DonePart, Begun

LEMMA LineStep == LineInv /\ [RequestNext]_requestVars => LineInv'
<1> SUFFICES ASSUME LineInv, [RequestNext]_requestVars PROVE LineInv'
  OBVIOUS
<1>1. CASE Arrive
  BY <1>1, ArriveStep
<1>2. CASE Close
  BY <1>2, CloseStep
<1>3. CASE RecvChar
  BY <1>3, RecvCharStep
<1>4. CASE RecvEnd
  BY <1>4, RecvEndStep
<1>5. CASE Peek
  BY <1>5, PeekStep
<1>6. CASE Cat
  BY <1>6, CatLines
<1>7. CASE UNCHANGED requestVars
  <2>1. /\ input' = input /\ arrived' = arrived /\ closed' = closed /\ pos' = pos
        /\ peeking' = peeking /\ buf' = buf /\ pc' = pc /\ parsed' = parsed
        /\ content_length' = content_length
    BY <1>7 DEF requestVars, lineVars
  <2>2. /\ Taken' = Taken /\ Start' = Start /\ (AtEnd' <=> AtEnd)
        /\ (Reading' <=> Reading) /\ (Nothing' <=> Nothing)
    BY <2>1 DEF Taken, Start, AtEnd, Reading, Nothing
  <2>3. LineTypes'
    BY <2>1, <2>2 DEF LineInv, LineTypes, Ch
  <2>4. RequestPart' /\ HeaderPart' /\ BlankPart'
    BY <2>1, <2>2, Steady DEF LineInv, RequestPart, HeaderPart, BlankPart
  <2>5. BegunPart'
    <3>1. Begun(Start)' <=> Begun(Start)
      BY <2>1, <2>2 DEF Begun, Settled, Ch
    <3> QED
      BY <2>1, <2>2, <3>1, Steady DEF LineInv, BegunPart
  <2>6. LengthPart'
    BY <2>1, <2>2, Steady DEF LineInv, LengthPart, LengthIs, Ch
  <2>7. ParsedPart'
    BY <2>1, <2>2, Steady DEF LineInv, ParsedPart, FirstEnd, SaysSo, Ch, Endless
  <2>8. DonePart'
    <3>1. Settled(pos)' <=> Settled(pos)
      BY <2>1 DEF Settled, Ch
    <3>2. LengthIs(content_length, parsed.method, pos + 1)'
            <=> LengthIs(content_length, parsed.method, pos + 1)
      BY <2>1, Steady DEF LengthIs, Ch
    <3> QED
      BY <2>1, <2>2, <3>1, <3>2, Steady DEF LineInv, DonePart
  <2> QED
    BY <2>3, <2>4, <2>5, <2>6, <2>7, <2>8 DEF LineInv
<1> QED
  BY <1>1, <1>2, <1>3, <1>4, <1>5, <1>6, <1>7 DEF RequestNext, RequestStep

LEMMA LineSuffices == LineInv => RequestAsSent
<1> SUFFICES ASSUME LineInv, pc \in {"file", "done"}, parsed.method \in GetOrPost
             PROVE  /\ Blank # {} => pos <= HeadersEnd
                    /\ Fits =>
                        /\ pos = HeadersEnd
                        /\ /\ Begins # {1}
                           /\ \A k \in DOMAIN RequestText : RequestText[k] # NUL
                           => parsed = Said(RequestText)
                        /\ content_length =
                              IF /\ parsed.method = <<"P">>
                                 /\ \E b \in Begins \ {1} : b <= pos /\ input.stream[b] = "n"
                              THEN 1 ELSE -1
  BY DEF RequestAsSent, GetOrPost
<1> DEFINE H == {arrived} \cup Blank
<1>1. LineTypes /\ arrived \in Nat /\ pos \in Nat /\ pos <= arrived
      /\ input.stream \in Seq(Char) /\ arrived <= Len(input.stream)
  <2>1. LineTypes
    BY DEF LineInv
  <2> QED
    BY <2>1, LineFacts
<1>2. /\ \A k \in Blank : k >= pos
      /\ Fits => /\ (pos \in Blank /\ Settled(pos)) \/ AtEnd
                 /\ LengthIs(content_length, parsed.method, pos + 1)
  BY DEF LineInv, DonePart
<1>3. H \in SUBSET Nat /\ H # {} /\ HeadersEnd = Min(H) /\ \A k \in H : pos <= k
  BY <1>1, <1>2 DEF Blank, HeadersEnd
<1>4. pos <= HeadersEnd
  <2> HIDE DEF H
  <2> QED
    BY <1>3, Least
<1>5. SUFFICES ASSUME Fits
               PROVE  /\ pos = HeadersEnd
                      /\ /\ Begins # {1}
                         /\ \A k \in DOMAIN RequestText : RequestText[k] # NUL
                         => parsed = Said(RequestText)
                      /\ content_length =
                            IF /\ parsed.method = <<"P">>
                               /\ \E b \in Begins \ {1} : b <= pos /\ input.stream[b] = "n"
                            THEN 1 ELSE -1
  BY <1>4
<1>6. pos = HeadersEnd
  <2>1. pos \in H
    BY <1>2, <1>5 DEF AtEnd
  <2> HIDE DEF H
  <2> QED
    BY <1>3, <2>1, LeastIs
<1>7. content_length =
         IF /\ parsed.method = <<"P">>
            /\ \E b \in Begins \ {1} : b <= pos /\ input.stream[b] = "n"
         THEN 1 ELSE -1
  <2>1. \A b \in Begins : b \in Nat
    BY <1>1 DEF Begins
  <2>2. \A b \in Begins : b < pos + 1 <=> b <= pos
    BY <1>1, <2>1
  <2>3. (\E b \in Begins \ {1} : b < pos + 1 /\ Ch(b) = "n")
          <=> \E b \in Begins \ {1} : b <= pos /\ input.stream[b] = "n"
    BY <2>2 DEF Ch
  <2> QED
    BY <1>2, <1>5, <2>3 DEF LengthIs
<1>8. ASSUME Begins # {1}, \A k \in DOMAIN RequestText : RequestText[k] # NUL
      PROVE  parsed = Said(RequestText)
  <2> DEFINE s == SubSeq(input.stream, 1, arrived)
             C == {CR, LF}
  <2>1. s \in Seq(Char) /\ Len(s) = arrived /\ \A k \in 1 .. arrived : s[k] = Ch(k)
    <3>1. 1 \in 1 .. Len(input.stream) + 1 /\ arrived \in 1 - 1 .. Len(input.stream)
          /\ arrived - 1 + 1 = arrived
      BY <1>1
    <3>2. /\ s \in Seq(Char) /\ Len(s) = arrived - 1 + 1
          /\ \A k \in 1 .. arrived - 1 + 1 : s[k] = input.stream[1 + k - 1]
      BY <1>1, <3>1, Part
    <3>3. \A k \in 1 .. arrived : 1 + k - 1 = k
      BY <1>1
    <3> HIDE DEF s
    <3> QED
      BY <3>1, <3>2, <3>3 DEF Ch
  <2>2. \E f \in 1 .. pos : FirstEnd(f) /\ SaysSo(parsed, f)
    <3>1. ASSUME AtEnd, Endless(pos) PROVE FALSE
      <4>1. PICK b \in Begins : b # 1
        BY <1>8 DEF Begins
      <4>2. IsEnd(b - 1)
        BY <4>1 DEF Begins
      <4>3. pos = arrived
        BY <3>1 DEF AtEnd
      <4> DEFINE y == b - 1
      <4>4. y \in 1 .. pos /\ Ch(y) \in {CR, LF}
        BY <4>2, <4>3 DEF IsEnd, Ch
      <4> HIDE DEF y
      <4> QED
        BY <3>1, <4>4 DEF Endless
    <3> QED
      BY <1>5, <3>1 DEF LineInv, ParsedPart
  <2>3. PICK f \in 1 .. pos : FirstEnd(f) /\ SaysSo(parsed, f)
    BY <2>2
  <2>4. f \in 1 .. arrived /\ f \in Nat
    BY <1>1
  <2>5. First(s, 1, C) = f
    <3>1. 1 \in 1 .. Len(s) + 1 /\ f \in 1 .. Len(s) + 1
      BY <1>1, <2>1, <2>4
    <3>2. s[f] \in C
      BY <2>1, <2>3, <2>4 DEF FirstEnd
    <3>3. \A n \in 1 .. f - 1 : s[n] \notin C
      <4>1. \A n \in 1 .. f - 1 : n \in 1 .. arrived
        BY <1>1, <2>4
      <4> QED
        BY <2>1, <2>3, <4>1 DEF FirstEnd
    <3> HIDE DEF s, C
    <3> QED
      BY <2>1, <3>1, <3>2, <3>3, FirstIs
  <2>6. RequestText = Before(s, C)
    BY DEF RequestText
  <2> HIDE DEF s, C
  <2>7. /\ RequestText \in Seq(Char) /\ Len(RequestText) = f - 1
        /\ \A k \in 1 .. f - 1 : RequestText[k] = s[k]
    <3> DEFINE u == Before(s, C)
    <3>1. /\ u \in Seq(Char) /\ Len(u) = First(s, 1, C) - 1
          /\ \A k \in 1 .. Len(u) : u[k] = s[k]
      <4>1. s \in Seq(Char)
        BY <2>1
      <4> QED
        BY <4>1, BeforeFacts
    <3> HIDE DEF u
    <3>2. Len(u) = f - 1
      BY <2>5, <3>1
    <3>3. RequestText = u
      BY <2>6 DEF u
    <3> QED
      BY <3>1, <3>2, <3>3
  <2>8. RequestText = SubSeq(input.stream, 1, f - 1)
    <3> DEFINE t == SubSeq(input.stream, 1, f - 1)
    <3>1. 1 \in 1 .. Len(input.stream) + 1 /\ f - 1 \in 1 - 1 .. Len(input.stream)
          /\ f - 1 - 1 + 1 = f - 1
      BY <1>1, <2>4
    <3>2. /\ t \in Seq(Char) /\ Len(t) = f - 1
          /\ \A k \in 1 .. f - 1 : t[k] = Ch(k)
      <4> DEFINE m == f - 1
      <4>1. m \in 1 - 1 .. Len(input.stream) /\ m - 1 + 1 = m /\ \A k \in 1 .. m : 1 + k - 1 = k
        BY <3>1
      <4> HIDE DEF m
      <4>2. /\ SubSeq(input.stream, 1, m) \in Seq(Char)
            /\ Len(SubSeq(input.stream, 1, m)) = m - 1 + 1
            /\ \A k \in 1 .. m - 1 + 1 : SubSeq(input.stream, 1, m)[k] = input.stream[1 + k - 1]
        BY <1>1, <3>1, <4>1, Part
      <4> QED
        BY <4>1, <4>2 DEF m, Ch
    <3>3. \A k \in 1 .. f - 1 : k \in 1 .. arrived
      BY <1>1, <2>4
    <3>4. \A k \in 1 .. Len(t) : t[k] = RequestText[k]
      BY <2>1, <2>7, <3>2, <3>3
    <3> HIDE DEF t
    <3>5. t = RequestText
      BY <2>7, <3>2, <3>4, Same
    <3> QED
      BY <3>5 DEF t
  <2>9. \A k \in 1 .. f - 1 : Ch(k) # NUL
    <3>1. DOMAIN RequestText = 1 .. f - 1
      BY <2>7
    <3>2. \A k \in 1 .. f - 1 : k \in 1 .. arrived
      BY <1>1, <2>4
    <3> QED
      BY <1>8, <2>1, <2>7, <3>1, <3>2
  <2> QED
    BY <2>3, <2>8, <2>9 DEF SaysSo
<1> QED
  BY <1>6, <1>7, <1>8

(***************************************************************************)
(* A request whose lines fit into buf is taken as it was sent, up to the   *)
(* blank line and not beyond it, whatever ends its lines; longer lines end *)
(* the headers early, never late (httpd.c:55-103, 216-227, 304-332, 398).  *)
(***************************************************************************)
THEOREM RequestCorrect == RequestSpec => []RequestAsSent
BY LineInit, LineStep, LineSuffices, PTL DEF RequestSpec

------------------------------------------------------------------------------
(* Types: what the loops over buf copy lies in it.                         *)

LEMMA ArrayType ==
  ASSUME input \in Input, NEW line \in Seq(Char), Len(line) < Size
  PROVE  Array(line) \in Seq(Char) /\ Len(Array(line)) = Size
<1> DEFINE g == input.garbage
           n == Len(line) + 2
           r == SubSeq(g, n, Size)
           v == line \o <<NUL>>
<1>1. Size \in Nat /\ g \in [1 .. Size -> Char] /\ NUL \in Char
  BY Constants, Characters
<1>2. g \in Seq(Char) /\ Len(g) = Size
  <2> HIDE DEF g
  <2> QED
    BY <1>1
<1>3. Len(line) \in Nat /\ n \in 1 .. Size + 1 /\ Size \in n - 1 .. Size
  BY <1>1
<1> HIDE DEF g
<1>4. r \in Seq(Char) /\ Len(r) = Size - n + 1
  <2> HIDE DEF n
  <2> QED
    BY <1>2, <1>3, Part
<1>5. v \in Seq(Char) /\ Len(v) = Len(line) + 1
  BY <1>1
<1> HIDE DEF v, r
<1>6. v \o r \in Seq(Char) /\ Len(v \o r) = Len(v) + Len(r)
  BY <1>4, <1>5
<1>7. Len(v) + Len(r) = Size
  BY <1>1, <1>3, <1>4, <1>5 DEF n
<1>8. Array(line) = v \o r
  BY DEF Array, v, r, n, g
<1> QED
  BY <1>6, <1>7, <1>8

\* Where the loops stop.
LEMMA LoopEnds ==
  ASSUME NEW a \in Seq(Char), Len(a) = Size
  PROVE  /\ MethodEnd[a] \in 1 .. Size
         /\ UrlBegin[a] \in MethodEnd[a] .. Size + 1
         /\ UrlEnd[a] \in UrlBegin[a] .. Size + 1
<1> DEFINE m == MethodEnd[a]
           b == UrlBegin[a]
           e == UrlEnd[a]
           f == First(a, 1, Space)
           h == First(a, b, Space)
<1>1. Size \in Nat /\ Size > 2 /\ WordSize \in Nat /\ WordSize > 2 /\ WordSize <= Size
  BY Constants
<1>2. f \in 1 .. Size + 1
  <2>1. 1 \in 1 .. Len(a) + 1
    BY <1>1
  <2>2. First(a, 1, Space) \in 1 .. Len(a) + 1
    BY <2>1, FirstFacts
  <2> QED
    BY <2>2
<1>3. m = Min({WordSize, f})
  BY DEF MethodEnd
<1> HIDE DEF f
<1>4. m \in 1 .. Size
  <2>1. Min({WordSize, f}) = IF WordSize <= f THEN WordSize ELSE f
    BY <1>1, <1>2, MinPair
  <2> QED
    BY <1>1, <1>2, <1>3, <2>1
<1>5. b = First(a, m, Char \ Space)
  BY DEF UrlBegin
<1> HIDE DEF m, b
<1>6. b \in m .. Size + 1
  <2>1. m \in 1 .. Len(a) + 1
    BY <1>1, <1>4
  <2>2. First(a, m, Char \ Space) \in m .. Len(a) + 1
    BY <2>1, FirstFacts
  <2> QED
    BY <1>5, <2>2
<1>7. e = Min({b + WordSize - 1, h})
  BY DEF UrlEnd, b
<1>8. h \in b .. Size + 1
  <2>1. b \in 1 .. Len(a) + 1
    BY <1>1, <1>4, <1>6
  <2>2. First(a, b, Space) \in b .. Len(a) + 1
    BY <2>1, FirstFacts
  <2> QED
    BY <2>2
<1> DEFINE x == b + WordSize - 1
<1>9. x \in Nat /\ h \in Nat /\ b <= x
  BY <1>1, <1>4, <1>6, <1>8
<1> HIDE DEF h, e, x
<1>10. e = IF x <= h THEN x ELSE h
  <2>1. Min({x, h}) = IF x <= h THEN x ELSE h
    BY <1>9, MinPair
  <2> QED
    BY <1>7, <2>1 DEF x
<1>11. e \in b .. Size + 1
  BY <1>1, <1>8, <1>9, <1>10
<1> QED
  BY <1>4, <1>6, <1>11 DEF m, b, e

LEMMA ScanType ==
  ASSUME input \in Input, NEW line \in Seq(Char), Len(line) < Size
  PROVE  Scan(line) \in [method : Seq(Char), url : Seq(Char), query : BOOLEAN]
<1> DEFINE a == Array(line)
           m == MethodEnd[a] - 1
           b == UrlBegin[a]
           e == UrlEnd[a] - 1
           method == CString[SubSeq(a, 1, m)]
           url == CString[SubSeq(a, b, e)]
<1>1. a \in Seq(Char) /\ Len(a) = Size /\ Size \in Nat
  BY ArrayType, Constants
<1>2. Scan(line) = RequestOf(method, url)
  BY DEF Scan
<1> HIDE DEF a
<1>3. m \in 0 .. Size /\ b \in 1 .. Size + 1 /\ e \in b - 1 .. Size
  <2>1. /\ MethodEnd[a] \in 1 .. Size
        /\ UrlBegin[a] \in MethodEnd[a] .. Size + 1
        /\ UrlEnd[a] \in UrlBegin[a] .. Size + 1
    BY <1>1, LoopEnds
  <2> QED
    BY <1>1, <2>1
<1> HIDE DEF m, b, e
<1>4. SubSeq(a, 1, m) \in Seq(Char)
  <2>1. 1 \in 1 .. Len(a) + 1 /\ m \in 1 - 1 .. Len(a)
    BY <1>1, <1>3
  <2> QED
    BY <1>1, <2>1, Part
<1>5. SubSeq(a, b, e) \in Seq(Char)
  BY <1>1, <1>3, Part
<1>6. \A s \in Seq(Char) : CString[s] \in Seq(Char)
  BY BeforeFacts DEF CString
<1>7. method \in Seq(Char) /\ url \in Seq(Char)
  BY <1>4, <1>5, <1>6
<1> HIDE DEF method, url
<1>8. Before(url, {QUERY}) \in Seq(Char)
  BY <1>7, BeforeFacts
<1> QED
  BY <1>2, <1>7, <1>8 DEF RequestOf

TextInv ==
  /\ parsed \in [method : Seq(Char), url : Seq(Char), query : BOOLEAN]
  /\ content_length \in {-1, 1}
  /\ sent \in Seq(Char)

LEMMA LineDoneType ==
  ASSUME input \in Input, TextInv, NEW line \in Seq(Char), Len(line) < Size, LineDone(line)
  PROVE  /\ parsed' \in [method : Seq(Char), url : Seq(Char), query : BOOLEAN]
         /\ content_length' \in {-1, 1}
<1>1. CASE RequestLine(line)
  <2>1. parsed' = Scan(line) /\ content_length' = content_length
    BY <1>1 DEF RequestLine
  <2> QED
    BY <2>1, ScanType DEF TextInv
<1>2. CASE Header(line)
  BY <1>2 DEF Header, TextInv
<1> QED
  BY <1>1, <1>2 DEF LineDone

LEMMA StoredType ==
  ASSUME input \in Input, TextInv, NEW line \in Seq(Char), Len(line) < Size, Stored(line)
  PROVE  /\ parsed' \in [method : Seq(Char), url : Seq(Char), query : BOOLEAN]
         /\ content_length' \in {-1, 1}
<1>1. CASE LineDone(line)
  BY <1>1, LineDoneType
<1>2. CASE UNCHANGED <<parsed, content_length>>
  BY <1>2 DEF TextInv
<1> QED
  BY <1>1, <1>2 DEF Stored

LEMMA TextStep ==
  ASSUME CatInv, LineInv, TextInv, [RequestNext]_requestVars
  PROVE  TextInv'
<1>1. /\ input \in Input /\ buf \in Seq(Char) /\ Len(buf) \in Nat /\ Len(buf) < Size - 1
      /\ Size \in Nat
  <2>1. LineTypes
    BY DEF LineInv
  <2> QED
    BY <2>1, LineFacts DEF LineTypes
<1>2. ASSUME NEW c \in Char PROVE Append(buf, c) \in Seq(Char) /\ Len(Append(buf, c)) < Size
  <2>1. Append(buf, c) \in Seq(Char) /\ Len(Append(buf, c)) = Len(buf) + 1
    BY <1>1, <1>2, Appended
  <2> QED
    BY <1>1, <2>1
<1>3. CASE Arrive \/ Close \/ UNCHANGED requestVars
  BY <1>3 DEF Arrive, Close, requestVars, fileVars, TextInv
<1>4. CASE RecvChar
  <2>1. sent' = sent /\ Reading /\ HasChar
    BY <1>4 DEF RecvChar, Other, fileVars
  <2>2. NextChar \in Char
    <3>1. LineTypes /\ pos \in Nat /\ arrived \in Nat
      BY LineFacts DEF LineInv
    <3> DEFINE p == pos + 1
    <3>2. p \in 1 .. arrived
      BY <2>1, <3>1 DEF HasChar
    <3> HIDE DEF p
    <3>3. Ch(p) \in Char
      BY <3>1, <3>2, LineFacts
    <3> QED
      BY <3>3 DEF NextChar, Ch, p
  <2>3. Stored(Append(buf, NextChar)) \/ UNCHANGED <<parsed, content_length>>
    BY <1>4 DEF RecvChar
  <2>4. Append(buf, NextChar) \in Seq(Char) /\ Len(Append(buf, NextChar)) < Size
    BY <1>2, <2>2
  <2>5. /\ parsed' \in [method : Seq(Char), url : Seq(Char), query : BOOLEAN]
        /\ content_length' \in {-1, 1}
    <3>1. CASE Stored(Append(buf, NextChar))
      BY <1>1, <2>4, <3>1, StoredType
    <3>2. CASE UNCHANGED <<parsed, content_length>>
      BY <3>2 DEF TextInv
    <3> QED
      BY <2>3, <3>1, <3>2
  <2> QED
    BY <2>1, <2>5 DEF TextInv
<1>5. CASE RecvEnd
  <2>1. sent' = sent /\ LineDone(buf) /\ Len(buf) < Size
    BY <1>1, <1>5 DEF RecvEnd, Other, fileVars
  <2>2. /\ parsed' \in [method : Seq(Char), url : Seq(Char), query : BOOLEAN]
        /\ content_length' \in {-1, 1}
    BY <1>1, <2>1, LineDoneType
  <2> QED
    BY <2>1, <2>2 DEF TextInv
<1>6. CASE Peek
  <2>1. sent' = sent /\ Stored(Append(buf, LF))
    BY <1>6 DEF Peek, Other, fileVars
  <2>2. LF \in Char
    BY Characters
  <2>3. Append(buf, LF) \in Seq(Char) /\ Len(Append(buf, LF)) < Size
    BY <1>2, <2>2
  <2>4. /\ parsed' \in [method : Seq(Char), url : Seq(Char), query : BOOLEAN]
        /\ content_length' \in {-1, 1}
    BY <1>1, <2>1, <2>3, StoredType
  <2> QED
    BY <2>1, <2>4 DEF TextInv
<1>7. CASE Cat
  <2>1. UNCHANGED <<parsed, content_length>> /\ (sent' = sent \/ sent' = sent \o CString[Line])
    BY <1>7 DEF Cat
  <2>2. Line \in Seq(Char)
    <3> DEFINE F == input.file
               p == fpos
               e == LineEnd
    <3>1. F \in Seq(Char) /\ Len(F) \in Nat /\ p \in 0 .. Len(F) /\ e \in p .. Len(F)
      BY <1>1, FileFacts, LineEndFacts DEF CatInv
    <3>2. Line = SubSeq(F, p + 1, e)
      BY DEF Line
    <3> HIDE DEF F, p, e
    <3> DEFINE q == p + 1
    <3>3. q \in 1 .. Len(F) + 1 /\ e \in q - 1 .. Len(F)
      BY <3>1
    <3> HIDE DEF q
    <3>4. SubSeq(F, q, e) \in Seq(Char)
      BY <3>1, <3>3, Part
    <3> QED
      BY <3>2, <3>4 DEF q
  <2>3. CString[Line] \in Seq(Char)
    BY <2>2, BeforeFacts DEF CString
  <2>4. sent \in Seq(Char)
    BY DEF TextInv
  <2>5. sent' \in Seq(Char)
    <3> DEFINE t == CString[Line]
    <3>1. t \in Seq(Char) /\ (sent' = sent \/ sent' = sent \o t)
      BY <2>1, <2>3
    <3> HIDE DEF t
    <3>2. sent \o t \in Seq(Char)
      BY <2>4, <3>1
    <3> QED
      BY <2>4, <3>1, <3>2
  <2> QED
    BY <2>1, <2>5 DEF TextInv
<1> QED
  BY <1>3, <1>4, <1>5, <1>6, <1>7 DEF RequestNext, RequestStep

LEMMA TextSuffices == CatInv /\ LineInv /\ TextInv => RequestTypeOK
<1> SUFFICES ASSUME CatInv, LineInv, TextInv PROVE RequestTypeOK
  OBVIOUS
<1>1. LineTypes
  BY DEF LineInv
<1>2. buf \in Seq(Char \ {CR})
  <2>1. buf \in Seq(Char) /\ \A k \in 1 .. Len(buf) : buf[k] \notin {CR, LF}
    BY <1>1 DEF LineTypes
  <2>2. \A k \in 1 .. Len(buf) : buf[k] \in Char \ {CR}
    BY <2>1
  <2> QED
    BY <2>1, <2>2
<1> QED
  BY <1>1, <1>2 DEF LineTypes, CatInv, TextInv, RequestTypeOK

(***************************************************************************)
(* What the server reads a request into keeps to its type: a line with its *)
(* NUL fits into buf, and what the loops copy lies in buf                  *)
(* (httpd.c:55-82, 304-332).                                               *)
(***************************************************************************)
THEOREM RequestTypeCorrect == RequestSpec => []RequestTypeOK
<1>1. RequestInit => TextInv
  BY DEF RequestInit, TextInv
<1>2. CatInv /\ LineInv /\ TextInv /\ [RequestNext]_requestVars => TextInv'
  BY TextStep
<1> QED
  BY <1>1, <1>2, CatInit, CatStep, LineInit, LineStep, TextSuffices, PTL DEF RequestSpec

==============================================================================
