-------------------------------- MODULE Login --------------------------------
(***************************************************************************)
(* The three programs of protobufTest: clients of GameClient.cpp log in at *)
(* AuthServer.cpp, take the code it answers to GameServer.cpp, and are let *)
(* in if the code is in the database that both servers share               *)
(* (AuthDatabaseHandler.cpp).  A server has one thread per connection.     *)
(*                                                                         *)
(* The messages are the bytes of PacketHeader.tla.  A login is one segment *)
(* and one recv(); a stream may hold several answers.  Two variables are   *)
(* initialised by nobody: n, the third argument of every recv(), its       *)
(* flags, and the array buf.  What they can hold is chosen at the start.   *)
(***************************************************************************)
EXTENDS PacketHeader

CONSTANTS
  Client,
  auth_login,   \* rows of the database: [username, password], sequences of bytes
  Typed,        \* what users type: records of the same kind
  Stack,        \* what the uninitialised variables can hold: n in the servers and
                \* in the clients, and behind what recv() put there the buffers of
                \* each client and of its threads: [server_n, client_n, buf]
  SendSize      \* bytes a connection holds that the client has not read

\* Every row of auth_database.sql has a user name.  What fgets() and chomp()
\* leave is passed on as a C string.
ASSUME LoginAssumption ==
  /\ auth_login \subseteq [username : Seq(Nat) \ {<< >>}, password : Seq(Nat)]
  /\ Typed \subseteq [username : Seq(Nat \ {0}), password : Seq(Nat \ {0})]
  /\ LET F == {"none", "peek", "dontwait", "waitall"}
     IN Stack \subseteq [server_n : F, client_n : F, buf : [Client -> SUBSET Seq(Nat)]]
  /\ \A x \in Stack : \A c \in Client : << >> \in x.buf[c]
  /\ SendSize \in Nat

uniqueauthcode == <<117>>    \* one byte stands for the text
failure == <<102>>           \* its first byte is no tag

Server == {"auth", "game"}

VARIABLES
  stack,       \* the garbage in the uninitialised variables
  status,      \* status[s]: "running", or "killed" by SIGPIPE
  logged_in,   \* logged_in[r]: the column logged_in of row r
  link,        \* link[s][c]: the connection of client c to server s
  thread,      \* thread[s][c]: the thread that serves it
  phase,       \* phase[c]: where main() of client c is, or how it ended
  typed,       \* typed[c]: the user name and password of c
  code,        \* code[c]: what get_auth_code() returned
  busy,        \* clients for whom the database was locked once
  stray        \* clients for whom garbage was parsed as a part of a message

serverVars == <<status, thread, logged_in, busy>>
clientVars == <<phase, typed, code>>
vars == <<stack, serverVars, link, clientVars, stray>>

NoOne == [username |-> << >>, password |-> << >>]

Init ==
  /\ stack \in Stack
  /\ status = [s \in Server |-> "running"]
  /\ logged_in = [r \in auth_login |-> << >>]
  /\ link = [s \in Server |-> [c \in Client |->
       [state |-> "none", up |-> << >>, down |-> << >>]]]
  /\ thread = [s \in Server |-> [c \in Client |->
       [pc |-> "none", zeroed |-> FALSE, header |-> Empty, found |-> FALSE,
        resp |-> << >>]]]
  /\ phase = [c \in Client |-> "login"]
  /\ typed = [c \in Client |-> NoOne]
  /\ code = [c \in Client |-> << >>]
  /\ busy = {} /\ stray = {}

Running(s) == status[s] = "running"

------------------------------------------------------------------------------
(* recv() and ParseFromString(buf).                                        *)

\* The packet in buf when bytes were received and g is there behind them.
Parsed(bytes, g) == ParseFromString(Empty, UpToNul(bytes \o g))

\* It is not what a 0 behind the bytes would have made of them.
Strays(c, bytes, g) ==
  IF Parsed(bytes, g) = Parsed(bytes, << >>) THEN stray ELSE stray \cup {c}

------------------------------------------------------------------------------
(* The client: main(), get_auth_code(), read_data().                       *)

\* connect_to() and the first send().
Opened(up) == [state |-> "open", up |-> up, down |-> << >>]

\* The end of the process closes its sockets: with an answer still unread
\* this is a reset.
Ended(l) ==
  IF l.state # "open" THEN l
  ELSE [l EXCEPT !.state = IF l.down = << >> THEN "closed" ELSE "reset",
                 !.down = << >>]

LinksEnded(links, c) ==
  [s \in Server |-> [links[s] EXCEPT ![c] = Ended(@)]]

LogIn(c, t) ==
  /\ phase[c] = "login"
  /\ typed' = [typed EXCEPT ![c] = t]
  /\ IF Running("auth")
     THEN /\ link' = [link EXCEPT !["auth"][c] =
                        Opened(login_packet(t.username, t.password, 1))]
          /\ phase' = [phase EXCEPT ![c] = "auth"]
     ELSE /\ phase' = [phase EXCEPT ![c] = "no server"]
          /\ UNCHANGED link
  /\ UNCHANGED <<stack, serverVars, code, stray>>

\* recv() of a client has something: with MSG_WAITALL, only at the end.
HasData(s, c) ==
  /\ link[s][c].down # << >>
  /\ stack.client_n # "waitall" \/ ~Running(s)

\* What is left of the stream: everything with MSG_PEEK.
Drained(s, c) ==
  IF stack.client_n = "peek" THEN link
  ELSE [link EXCEPT ![s][c].down = << >>]

\* get_auth_code() with pck in buf and links as recv() leaves them.
TakeCode(c, pck, links) ==
  IF "auth_code" \in pck.has
  THEN /\ code' = [code EXCEPT ![c] = pck.str["auth_code"]]
       /\ phase' = [phase EXCEPT ![c] = "code"]
       /\ link' = links
  ELSE /\ phase' = [phase EXCEPT ![c] = "failed"]
       /\ link' = LinksEnded(links, c)
       /\ UNCHANGED code

GetCode(c) ==
  /\ phase[c] = "auth" /\ HasData("auth", c)
  /\ \E g \in stack.buf[c] :
       /\ TakeCode(c, Parsed(link["auth"][c].down, g), Drained("auth", c))
       /\ stray' = Strays(c, link["auth"][c].down, g)
  /\ UNCHANGED <<stack, serverVars, typed>>

\* recv() returns 0: the auth server has been killed.  The code is empty.
NoCode(c) ==
  /\ phase[c] = "auth" /\ ~Running("auth")
  /\ link["auth"][c].down = << >>
  /\ phase' = [phase EXCEPT ![c] = "code"]
  /\ UNCHANGED <<stack, serverVars, link, typed, code, stray>>

\* recv() of a client returns -1, which counts as data: with MSG_DONTWAIT, or
\* because the server was killed before it read what the client sent.
NoData(s, c) ==
  /\ link[s][c].down = << >>
  /\ stack.client_n = "dontwait" \/ ~Running(s)

NoAnswer(c) ==
  /\ phase[c] = "auth" /\ NoData("auth", c)
  /\ \E g \in stack.buf[c] :
       /\ TakeCode(c, Parsed(<< >>, g), link)
       /\ stray' = Strays(c, << >>, g)
  /\ UNCHANGED <<stack, serverVars, typed>>

\* The packet with the code is never empty, so the client goes on without one.
Join(c) ==
  /\ phase[c] = "code"
  /\ IF Running("game")
     THEN /\ link' = [link EXCEPT !["game"][c] = Opened(auth_code_packet(code[c]))]
          /\ phase' = [phase EXCEPT ![c] = "game"]
     ELSE /\ phase' = [phase EXCEPT ![c] = "no server"]
          /\ link' = LinksEnded(link, c)
  /\ UNCHANGED <<stack, serverVars, typed, code, stray>>

\* Mutant of Admits: any answer is taken for a yes.
AdmitsAll(pck) == "connected_packet" \in pck.has

\* connected_packet().has_connected()
Admits(pck) == "connected" \in pck.has

\* read_data() with pck in buf and links as recv() leaves them.
TakeConnected(c, pck, links) ==
  IF "connected_packet" \notin pck.has
  THEN link' = links /\ UNCHANGED phase
  ELSE IF Admits(pck)
  THEN /\ phase' = [phase EXCEPT ![c] = "in"]
       /\ link' = links
  ELSE /\ phase' = [phase EXCEPT ![c] = "refused"]
       /\ link' = LinksEnded(links, c)

\* The loop around read_data() goes on after a yes, and for ever when the
\* server is gone.
ReadData(c) ==
  /\ phase[c] \in {"game", "in"} /\ HasData("game", c)
  /\ \E g \in stack.buf[c] :
       /\ TakeConnected(c, Parsed(link["game"][c].down, g), Drained("game", c))
       /\ stray' = Strays(c, link["game"][c].down, g)
  /\ UNCHANGED <<stack, serverVars, typed, code>>

ReadNothing(c) ==
  /\ phase[c] \in {"game", "in"} /\ NoData("game", c)
  /\ \E g \in stack.buf[c] :
       /\ TakeConnected(c, Parsed(<< >>, g), link)
       /\ stray' = Strays(c, << >>, g)
  /\ UNCHANGED <<stack, serverVars, typed, code>>

\* The user ends the client.
Quit(c) ==
  /\ phase[c] \in {"auth", "code", "game", "in"}
  /\ phase' = [phase EXCEPT ![c] = "gone"]
  /\ link' = LinksEnded(link, c)
  /\ UNCHANGED <<stack, serverVars, typed, code, stray>>

ClientStep(c) ==
  \/ GetCode(c) \/ NoCode(c) \/ NoAnswer(c) \/ Join(c)
  \/ ReadData(c) \/ ReadNothing(c)

------------------------------------------------------------------------------
(* The database.  sqlite locks the file: a select shares it with others    *)
(* until it is finalised, an update needs it alone.  Nobody waits for a    *)
(* lock (no busy handler is set).                                          *)

Holding(pc) ==
  \E s \in Server, c \in Client : Running(s) /\ thread[s][c].pc = pc

MaySelect == ~Holding("update")
MayUpdate == ~Holding("select") /\ ~Holding("update")

------------------------------------------------------------------------------
(* A thread of a server: init_thread(), read_data(), check_login().        *)

At(s, c, pc) == Running(s) /\ thread[s][c].pc = pc

Accept(s, c) ==
  /\ At(s, c, "none") /\ link[s][c].state # "none"
  /\ thread' = [thread EXCEPT ![s][c].pc = "recv"]
  /\ UNCHANGED <<stack, status, logged_in, busy, link, clientVars, stray>>

\* Mutant of WantsCheck: the wrong packet.
WantsOther(s, header) ==
  (IF s = "game" THEN "login_packet" ELSE "auth_code") \in header.has

WantsCheck(s, header) ==
  (IF s = "auth" THEN "login_packet" ELSE "auth_code") \in header.has

\* header and the outcome of a select are local to a pass of the loop.
Answering(resp) ==
  [pc |-> "send", zeroed |-> TRUE, header |-> Empty, found |-> FALSE, resp |-> resp]

\* Behind a packet that asks for nothing, the last answer is sent again.
NextPc(s, c, header) ==
  IF WantsCheck(s, header) THEN "check"
  ELSE IF thread[s][c].resp = << >> THEN "recv" ELSE "send"

\* Every pass of the loop that parses buf zeroes it then.
BehindReceived(s, c) == IF thread[s][c].zeroed THEN {<< >>} ELSE stack.buf[c]

\* A pass of the loop with these bytes received.
TakePacket(s, c, bytes) ==
  \E g \in BehindReceived(s, c) :
    /\ LET header == Parsed(bytes, g)
       IN thread' = [thread EXCEPT
            ![s][c].pc = NextPc(s, c, header), ![s][c].zeroed = TRUE,
            ![s][c].header = IF WantsCheck(s, header) THEN header ELSE @]
    /\ stray' = Strays(c, bytes, g)

\* Data, which MSG_PEEK leaves there and MSG_WAITALL waits for the end of.
Recv(s, c) ==
  /\ At(s, c, "recv")
  /\ link[s][c].up # << >>
  /\ stack.server_n = "waitall" => link[s][c].state # "open"
  /\ TakePacket(s, c, link[s][c].up)
  /\ link' = IF stack.server_n = "peek" THEN link
             ELSE [link EXCEPT ![s][c].up = << >>]
  /\ UNCHANGED <<stack, status, logged_in, busy, clientVars>>

\* Mutant of Fails: the end of a connection is taken for an error.
FailsAtEnd(state) ==
  \/ state = "open" /\ stack.server_n = "dontwait"
  \/ state \in {"closed", "broken", "reset"}

\* With nothing to read, recv() fails on an open connection because of its
\* flags, and once after a reset.
Fails(state) ==
  \/ state = "open" /\ stack.server_n = "dontwait"
  \/ state = "reset"

\* recv() returns -1, which counts as data.  (At the end of a connection it
\* returns 0 for ever and the thread does nothing else any more.)
RecvFails(s, c) ==
  /\ At(s, c, "recv")
  /\ link[s][c].up = << >> /\ Fails(link[s][c].state)
  /\ link' = [link EXCEPT ![s][c].state = IF @ = "reset" THEN "dead" ELSE @]
  /\ TakePacket(s, c, << >>)
  /\ UNCHANGED <<stack, status, logged_in, busy, clientVars>>

\* Mutant of Found: a user who has a code already is not found.
FoundOnce(s, header) ==
  \E r \in auth_login :
    IF s = "auth"
    THEN /\ r.username = header.str["username"]
         /\ r.password = header.str["password"]
         /\ logged_in[r] = << >>
    ELSE logged_in[r] = header.str["auth_code"]

\* The row a select finds, if there is one.
Found(s, header) ==
  \E r \in auth_login :
    IF s = "auth"
    THEN /\ r.username = header.str["username"]
         /\ r.password = header.str["password"]
    ELSE logged_in[r] = header.str["auth_code"]

\* auth_user() and auth_code(): sqlite3_step() of the select...
Select(s, c) ==
  /\ At(s, c, "check")
  /\ IF MaySelect
     THEN /\ thread' = [thread EXCEPT ![s][c].pc = "select",
                          ![s][c].found = Found(s, thread[s][c].header)]
          /\ UNCHANGED busy
     ELSE /\ thread' = [thread EXCEPT ![s][c].pc = "answer",
                                      ![s][c].found = FALSE]
          /\ busy' = busy \cup {c}
  /\ UNCHANGED <<stack, status, logged_in, link, clientVars, stray>>

\* ...and sqlite3_finalize().
Finalize(s, c) ==
  /\ At(s, c, "select")
  /\ thread' = [thread EXCEPT ![s][c].pc = "answer"]
  /\ UNCHANGED <<stack, status, logged_in, busy, link, clientVars, stray>>

\* The game server's answer, and the auth server's to a wrong login.
Answer(s, c) ==
  /\ At(s, c, "answer")
  /\ s = "game" \/ ~thread[s][c].found
  /\ thread' = [thread EXCEPT ![s][c] = Answering(
       IF s = "auth" THEN failure ELSE connected_packet(@.found))]
  /\ UNCHANGED <<stack, status, logged_in, busy, link, clientVars, stray>>

\* add_unique_code(): the update, if the lock is free; else nothing, which it
\* does not tell.
Update(c) ==
  /\ At("auth", c, "answer") /\ thread["auth"][c].found
  /\ IF MayUpdate
     THEN thread' = [thread EXCEPT !["auth"][c].pc = "update"] /\ UNCHANGED busy
     ELSE /\ thread' = [thread EXCEPT !["auth"][c] = Answering(
               auth_code_packet(uniqueauthcode))]
          /\ busy' = busy \cup {c}
  /\ UNCHANGED <<stack, status, logged_in, link, clientVars, stray>>

Commit(c) ==
  /\ At("auth", c, "update")
  /\ LET m == thread["auth"][c].header
     IN logged_in' = [r \in auth_login |->
          IF r.username = m.str["username"] /\ r.password = m.str["password"]
          THEN uniqueauthcode ELSE logged_in[r]]
  /\ thread' = [thread EXCEPT !["auth"][c] = Answering(
       auth_code_packet(uniqueauthcode))]
  /\ UNCHANGED <<stack, status, busy, link, clientVars, stray>>

\* A client that has closed resets the connection ("broken": recv() goes on
\* to return 0); one that has reset it is reported by this call.
NowDead(state) == IF state = "closed" THEN "broken" ELSE "dead"

\* send() blocks while the connection is full.
Send(s, c) ==
  /\ At(s, c, "send")
  /\ \/ /\ link[s][c].state = "open"
        /\ Len(link[s][c].down) + Len(thread[s][c].resp) <= SendSize
        /\ link' = [link EXCEPT ![s][c].down = @ \o thread[s][c].resp]
     \/ /\ link[s][c].state \in {"closed", "reset"}
        /\ link' = [link EXCEPT ![s][c].state = NowDead(@)]
  /\ thread' = [thread EXCEPT ![s][c].pc = "recv"]
  /\ UNCHANGED <<stack, status, logged_in, busy, clientVars, stray>>

\* SIGPIPE ends the process with all its threads.
KilledBySigpipe(s, c) ==
  /\ At(s, c, "send") /\ link[s][c].state \in {"broken", "dead"}
  /\ status' = [status EXCEPT ![s] = "killed"]
  /\ UNCHANGED <<stack, thread, logged_in, busy, link, clientVars, stray>>

ServerStep(s, c) ==
  \/ Accept(s, c) \/ Recv(s, c) \/ RecvFails(s, c)
  \/ Select(s, c) \/ Finalize(s, c) \/ Answer(s, c)
  \/ s = "auth" /\ (Update(c) \/ Commit(c))
  \/ Send(s, c) \/ KilledBySigpipe(s, c)

Next ==
  \E c \in Client :
    \/ \E t \in Typed : LogIn(c, t)
    \/ ClientStep(c) \/ Quit(c)
    \/ \E s \in Server : ServerStep(s, c)

Spec == Init /\ [][Next]_vars

\* Every thread and every client is scheduled; users owe nothing.
FairSpec ==
  /\ Spec
  /\ \A c \in Client :
       /\ WF_vars(ClientStep(c))
       /\ \A s \in Server : WF_vars(ServerStep(s, c))

------------------------------------------------------------------------------
LinkState == {"none", "open", "closed", "reset", "broken", "dead"}

Link == [state : LinkState, up : Seq(Nat), down : Seq(Nat)]

Thread == [pc : {"none", "recv", "check", "select", "answer", "update", "send"},
           zeroed : BOOLEAN, header : Message, found : BOOLEAN, resp : Seq(Nat)]

TypeOK ==
  /\ stack \in Stack
  /\ status \in [Server -> {"running", "killed"}]
  /\ logged_in \in [auth_login -> {<< >>, uniqueauthcode}]
  /\ link \in [Server -> [Client -> Link]]
  /\ thread \in [Server -> [Client -> Thread]]
  /\ phase \in [Client -> {"login", "auth", "code", "game", "in", "failed",
                           "refused", "no server", "gone"}]
  /\ typed \in [Client -> Typed \cup {NoOne}]
  /\ code \in [Client -> Seq(Nat)]
  /\ busy \subseteq Client /\ stray \subseteq Client
  /\ \A s \in Server, c \in Client : Len(link[s][c].down) <= SendSize

Right(c) == typed[c] \in auth_login

(***************************************************************************)
(* Whoever is let in typed a user name and password of the database, and   *)
(* the code of some login is stored; but a client whose auth server was    *)
(* killed goes to the game server without a code and is let in by any row  *)
(* without a login (GameClient.cpp:29-35, AuthDatabaseHandler.cpp:41); and *)
(* anything may be parsed out of a buffer that nobody initialised          *)
(* (AuthServer.cpp:57-63, GameServer.cpp:56-64, GameClient.cpp:50-55).     *)
(***************************************************************************)
ConnectedMeansLoggedIn ==
  \A c \in Client :
    phase[c] = "in" =>
      \/ Right(c) /\ \E r \in auth_login : logged_in[r] = uniqueauthcode
      \/ code[c] = << >> /\ ~Running("auth")
      \/ c \in stray

(***************************************************************************)
(* Whoever typed a right user name and password is refused only if the     *)
(* database was locked when his login was looked up, stored, or his code   *)
(* looked up, if the auth server was killed, if the client did not wait    *)
(* for its answer, or if a buffer held more of a message behind the bytes  *)
(* received (AuthServer.cpp:57-91, AuthDatabaseHandler.cpp:26-33).  The    *)
(* code and the answers reach the client although the messages are cut at  *)
(* their first 0 byte.                                                     *)
(***************************************************************************)
RefusedForAReason ==
  \A c \in Client :
    Right(c) /\ phase[c] \in {"failed", "refused"} =>
      c \in busy \/ ~Running("auth") \/ stack.client_n = "dontwait" \/ c \in stray

(***************************************************************************)
(* A thread that waits for data (flags 0) is killed only by a client that  *)
(* ended with an answer unread: its reset makes recv() return -1, and the  *)
(* last answer is sent again.  A client that has read its answers, or had  *)
(* none yet, does not end the servers (AuthServer.cpp:60-74).              *)
(***************************************************************************)
KilledByAReset ==
  stack.server_n = "none" =>
    \A s \in Server :
      ~Running(s) => \E c \in Client : link[s][c].state = "dead"

(***************************************************************************)
(* A client with a right user name and password gets in, if no user ends a *)
(* client, the database is not locked for it, no server is killed, nothing *)
(* behind the received bytes is taken for more of a message, and the flags *)
(* of recv() do not keep it from waiting or make it wait for ever          *)
(* (GameClient.cpp:26-45).                                                 *)
(***************************************************************************)
GoodClientGetsIn ==
  \A c \in Client :
    phase[c] = "auth" /\ Right(c) ~>
      \/ phase[c] \in {"in", "gone"}
      \/ c \in busy \cup stray
      \/ \E s \in Server : ~Running(s)
      \/ stack.client_n \in {"dontwait", "waitall"} \/ stack.server_n = "waitall"

==============================================================================
