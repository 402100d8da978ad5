---------------------------- MODULE HttpdRequest ----------------------------
(***************************************************************************)
(* How tinyhttpd/httpd.c reads a request and sends a file, character by    *)
(* character: get_line(), the scan of the request line in                  *)
(* accept_request(), the loops that read the headers, and cat().           *)
(* Httpd.tla has the rest of the server and takes a request as a whole.    *)
(*                                                                         *)
(* A character is a string of length one.  "G" and "P" stand for the words *)
(* GET and POST, a line that begins with "n" for Content-Length: 1.        *)
(***************************************************************************)
EXTENDS Integers, Sequences, FiniteSetsExt

CONSTANTS
  Size,       \* size of the buffers (1024)
  WordSize,   \* size of method and url (255)
  Input       \* what a client sends, a file holds, and the uninitialised buf
              \* held: [stream, file, garbage]

CR == "\r"
LF == "\n"
NUL == "NUL"
SP == " "
QUERY == "?"    \* what a query begins with
Space == {SP, CR, LF}   \* isspace()
Char == {"G", "P", "x", "n", SP, QUERY, CR, LF, NUL}

ASSUME HttpdRequestAssumption ==
  /\ Size \in Nat /\ Size > 2
  /\ WordSize \in 3 .. Size      \* method holds more than a GET or a POST
  /\ \A a \in Input : /\ a.stream \in Seq(Char) /\ a.file \in Seq(Char)
                      /\ a.garbage \in [1 .. Size -> Char]

VARIABLES
  input,       \* what the client sends, the file it asks for, the old buf
  arrived,     \* characters that have arrived
  closed,      \* the client has closed its end behind them
  pos,         \* characters the server has taken
  pc,          \* "request", "headers", "file", "done"
  peeking,     \* get_line is in its second recv(), behind a carriage return
  buf,         \* the line so far, without the NUL
  parsed,      \* method, url, and whether there is a query
  content_length,
  fpos,        \* position in the file
  sent         \* what cat() has sent

lineVars == <<pos, peeking, buf>>
fileVars == <<fpos, sent>>
requestVars == <<input, arrived, closed, lineVars, pc, parsed,
          content_length, fileVars>>

RequestInit ==
  /\ input \in Input
  /\ arrived = 0 /\ closed = FALSE
  /\ pc = "request" /\ pos = 0 /\ peeking = FALSE /\ buf = << >>
  /\ parsed = [method |-> << >>, url |-> << >>, query |-> FALSE]
  /\ content_length = -1
  /\ fpos = 0 /\ sent = << >>

------------------------------------------------------------------------------
(* The client.                                                             *)

Arrive ==
  /\ ~closed /\ arrived < Len(input.stream)
  /\ arrived' = arrived + 1
  /\ UNCHANGED <<input, closed, lineVars, pc, parsed, content_length,
                 fileVars>>

\* Sooner or later, or never.
Close ==
  /\ ~closed
  /\ closed' = TRUE
  /\ UNCHANGED <<input, arrived, lineVars, pc, parsed,
                 content_length, fileVars>>

------------------------------------------------------------------------------
(* The request line.                                                       *)

\* The array buf: the line, its NUL, and what was there before.
Array(line) ==
  line \o <<NUL>> \o SubSeq(input.garbage, Len(line) + 2, Size)

\* The first position of s from k on with a character of C, or the one behind s.
First(s, k, C) == Min({n \in k .. Len(s) : s[n] \in C} \cup {Len(s) + 1})

\* The part before the first character of C: before its NUL, a C string.
Before(s, C) == SubSeq(s, 1, First(s, 1, C) - 1)

CString[s \in Seq(Char)] == Before(s, {NUL})

\* Where the three loops over buf stop: behind the method, before and behind
\* the url.  They run over a NUL, and never over the end of buf: the last two
\* look at j, and method is smaller than buf.
MethodEnd[a \in Seq(Char)] == Min({WordSize, First(a, 1, Space)})

UrlBegin[a \in Seq(Char)] == First(a, MethodEnd[a], Char \ Space)

UrlEnd[a \in Seq(Char)] == Min({UrlBegin[a] + WordSize - 1, First(a, UrlBegin[a], Space)})

\* method and url; behind a "?" of a GET there is a query.
RequestOf(method, url) ==
  LET get == method = <<"G">>
  IN [method |-> method,
      query |-> get /\ \E k \in DOMAIN url : url[k] = QUERY,
      url |-> IF get THEN Before(url, {QUERY}) ELSE url]

Scan(line) ==
  LET a == Array(line)
  IN RequestOf(CString[SubSeq(a, 1, MethodEnd[a] - 1)],
               CString[SubSeq(a, UrlBegin[a], UrlEnd[a] - 1)])

------------------------------------------------------------------------------
(* A line is complete.                                                     *)

\* Anything but GET and POST is answered 501 without reading the headers.
RequestLine(line) ==
  /\ pc = "request"
  /\ parsed' = Scan(line)
  /\ pc' = IF Scan(line).method \in {<<"G">>, <<"P">>} THEN "headers" ELSE "done"
  /\ UNCHANGED content_length

\* The loops of accept_request, serve_file and execute_cgi end with a line
\* "\n" or without a line.  A file (of those that are there) is sent for a GET
\* without a query.
Header(line) ==
  /\ pc = "headers"
  /\ IF line \in {<< >>, <<LF>>}
     THEN /\ pc' = IF parsed.method = <<"G">> /\ ~parsed.query
                   THEN "file" ELSE "done"
          /\ UNCHANGED content_length
     ELSE /\ content_length' =
               IF parsed.method = <<"P">> /\ line[1] = "n" THEN 1 ELSE content_length
          /\ UNCHANGED pc
  /\ UNCHANGED parsed

LineDone(line) ==
  /\ RequestLine(line) \/ Header(line)
  /\ buf' = << >>

\* The end of the loop of get_line().
Stored(line) ==
  IF Len(line) = Size - 1 \/ line[Len(line)] = LF
  THEN LineDone(line)
  ELSE buf' = line /\ UNCHANGED <<pc, parsed, content_length>>

------------------------------------------------------------------------------
(* get_line().                                                             *)

Reading == pc \in {"request", "headers"}

\* recv() has something, or returns 0.
HasChar == pos < arrived

\* Mutant of AtEnd: a recv() that returns 0 does not end the loop.
NotSeen == FALSE

AtEnd == pos = arrived /\ closed

NextChar == input.stream[pos + 1]

Other == <<input, arrived, closed, fileVars>>

RecvChar ==
  /\ Reading /\ ~peeking /\ HasChar
  /\ pos' = pos + 1
  /\ IF NextChar = CR
     THEN peeking' = TRUE /\ UNCHANGED <<buf, pc, parsed, content_length>>
     ELSE Stored(Append(buf, NextChar)) /\ UNCHANGED peeking
  /\ UNCHANGED Other

RecvEnd ==
  /\ Reading /\ ~peeking /\ AtEnd
  /\ LineDone(buf)
  /\ UNCHANGED <<pos, peeking, Other>>

\* Mutant of Behind: the newline is looked at but not taken.
NotTaken == pos

\* MSG_PEEK, and a newline behind the carriage return is taken.
Behind == IF HasChar /\ NextChar = LF THEN pos + 1 ELSE pos

\* It waits for a character, even behind the last line.
Peek ==
  /\ Reading /\ peeking /\ (HasChar \/ AtEnd)
  /\ pos' = Behind
  /\ Stored(Append(buf, LF))
  /\ peeking' = FALSE
  /\ UNCHANGED Other

------------------------------------------------------------------------------
(* serve_file() and cat().                                                 *)

\* fgets(): up to the buffer's size, a newline, or the end of the file.
LineEnd ==
  Min({fpos + Size - 1, Len(input.file)}
        \cup {k \in fpos + 1 .. Len(input.file) : input.file[k] = LF})

Line == SubSeq(input.file, fpos + 1, LineEnd)

\* Mutant of HitsEnd: the end is met when nothing is left.
NothingLeft == LineEnd = Len(input.file)

\* fgets() asks for a character behind the last one.
HitsEnd ==
  /\ LineEnd = Len(input.file)
  /\ fpos = LineEnd \/ input.file[LineEnd] # LF
  /\ LineEnd < fpos + Size - 1

\* A pass of the loop; the send() follows a fgets() that did not hit the end.
Cat ==
  /\ pc = "file"
  /\ fpos' = LineEnd
  /\ sent' = IF HitsEnd THEN sent ELSE sent \o CString[Line]
  /\ pc' = IF HitsEnd THEN "done" ELSE pc
  /\ UNCHANGED <<input, arrived, closed, lineVars, parsed,
                 content_length>>

RequestStep == RecvChar \/ RecvEnd \/ Peek \/ Cat

RequestNext == Arrive \/ Close \/ RequestStep

RequestSpec == RequestInit /\ [][RequestNext]_requestVars

\* What was sent arrives; the client need not close.
FairRequestSpec == RequestSpec /\ WF_requestVars(RequestStep) /\ WF_requestVars(Arrive)

------------------------------------------------------------------------------
RequestTypeOK ==
  /\ input \in Input
  /\ arrived \in 0 .. Len(input.stream) /\ closed \in BOOLEAN
  /\ pos \in 0 .. arrived
  /\ pc \in {"request", "headers", "file", "done"}
  /\ peeking \in BOOLEAN
  /\ buf \in Seq(Char \ {CR}) /\ Len(buf) < Size - 1
  /\ parsed \in [method : Seq(Char), url : Seq(Char), query : BOOLEAN]
  /\ content_length \in {-1, 1}
  /\ fpos \in 0 .. Len(input.file) /\ sent \in Seq(Char)

\* In what has come: where a line ends (at LF, CR, or CR LF), where lines
\* begin, and where the blank lines behind the first line end.
IsEnd(k) ==
  /\ k \in 1 .. arrived
  /\ \/ input.stream[k] = LF
     \/ input.stream[k] = CR /\ (k = arrived \/ input.stream[k + 1] # LF)

Begins == {1} \cup {k \in 2 .. arrived + 1 : IsEnd(k - 1)}

Blank ==
  {k \in 2 .. arrived :
     IsEnd(k) /\ (IsEnd(k - 1) \/ (input.stream[k - 1] = CR /\ IsEnd(k - 2)))}

HeadersEnd == Min({arrived} \cup Blank)

\* Every line up to there fits into buf with its newline.
Fits ==
  \A b \in Begins :
    \/ \E k \in b .. b + Size - 2 : k > arrived \/ input.stream[k] \in {CR, LF}
    \/ b > HeadersEnd

\* The first line, and what a line says: the method is what stands before the
\* first blank, the url the word behind it, as far as the array url holds it.
RequestText == Before(SubSeq(input.stream, 1, arrived), {CR, LF})

Said(text) ==
  LET begins == {k \in 2 .. Len(text) : text[k] # SP /\ text[k - 1] = SP}
      word == IF begins = {} THEN << >>
              ELSE Before(SubSeq(text, Min(begins), Len(text)), {SP})
  IN RequestOf(Before(text, {SP}), SubSeq(word, 1, Min({Len(word), WordSize - 1})))

(***************************************************************************)
(* If every line fits into buf, the server has taken the request when the  *)
(* headers are through, and no character of the body behind them: method,  *)
(* url (cut at its buffer) and length are those sent, whatever ends the    *)
(* lines and whatever buf held before, unless the request line has no end  *)
(* or a 0 in it.                                                           *)
(* A line of Size - 1 characters or more may end the headers early, never  *)
(* late (httpd.c:55-79, 103, 216-227, 304-332, 398).                       *)
(***************************************************************************)
RequestAsSent ==
  pc \in {"file", "done"} /\ parsed.method \in {<<"G">>, <<"P">>} =>
    /\ Blank # {} => pos <= HeadersEnd
    /\ Fits =>
        /\ pos = HeadersEnd
        /\ /\ Begins # {1}
           /\ \A k \in DOMAIN RequestText : RequestText[k] # NUL
           => parsed = Said(RequestText)
        /\ content_length =
              IF /\ parsed.method = <<"P">>
                 /\ \E b \in Begins \ {1} : b <= pos /\ input.stream[b] = "n"
              THEN 1 ELSE -1

\* Where the fgets() begins that reads character k of the file.
PieceOf(k) ==
  LET b == Max({1} \cup {n \in 2 .. k : input.file[n - 1] = LF})
  IN k - ((k - b) % (Size - 1))

(***************************************************************************)
(* cat() sends the file as it is if it has no 0 characters, but for a last *)
(* line without newline: of it only full buffers are sent.  Of a line with *)
(* a 0 what stands behind it is lost (httpd.c:154-164).                    *)
(***************************************************************************)
FileAsSent ==
  pc = "done" /\ fpos > 0 =>
    LET file == input.file
        last == Min({k \in 0 .. Len(file) :
                       \A n \in k + 1 .. Len(file) : file[n] # LF})
        full == Len(file) - ((Len(file) - last) % (Size - 1))
    IN IF \A k \in 1 .. Len(file) : file[k] # NUL
       THEN sent = SubSeq(file, 1, full)
       ELSE /\ \A k \in 1 .. Len(sent) : sent[k] # NUL
            /\ Len(sent) = Cardinality({k \in 1 .. full :
                 \A n \in 1 .. k : file[n] = NUL => PieceOf(n) # PieceOf(k)})

(***************************************************************************)
(* A request that is complete is taken, or one that the client ended by    *)
(* closing, unless a line ends with a carriage return behind which nothing *)
(* comes: get_line() waits for the next character (httpd.c:317).           *)
(***************************************************************************)
RequestTaken ==
  Blank # {} \/ closed ~>
    \/ pc = "done"
    \/ peeking /\ pos = arrived /\ ~closed

==============================================================================
