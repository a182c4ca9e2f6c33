----------------------------- MODULE HttpServer -----------------------------
(***************************************************************************)
(* tractor::HttpServer on one connection: HttpParser, HttpRequest and the  *)
(* use HttpServer::onMessage makes of them.                                *)
(*                                                                         *)
(* The client writes lines, in any order, and the kernel delivers them cut *)
(* anywhere.  The parser looks at nothing before findCRLF() finds the end  *)
(* of a line, so a line is two parts: the line, standing for any beginning *)
(* of it up to its CR, and EOL, the rest up to its LF.  Of a line, only    *)
(* what the parser decides by is kept:                                     *)
(*                                                                         *)
(*   "http11", "http10"    request lines processRequestLine accepts        *)
(*   "badVersion"          one with a method and another version           *)
(*   "close", "keepAlive"  Connection headers; as request lines they have  *)
(*                         no method that setMethod knows                  *)
(*   "blank"               has neither a space nor a colon                 *)
(***************************************************************************)
EXTENDS Naturals, Sequences

CONSTANT MaxLines       \* bound on the lines the client writes

ASSUME MaxLinesAssumption == MaxLines \in Nat

VARIABLES
  unread,          \* kernel: parts received and not read
  inputBuffer_,    \* of the connection
  pc,              \* "poll", "parse" in parseRuquest, "parsed" behind it
  ok,              \* local of parseRuquest
  state_,          \* of the parser
  method_, version_,
  connection,      \* headers_["Connection"], or noHeader
  connState,       \* state_ of the connection
  aborted,         \* the assert of setMethod has failed
  out,             \* the responses given to the connection, in order
  stream,          \* history: the lines the client has written
  calls,           \* history: the requests given to httpCallback_
  rejected,        \* history: a 400 was due
  pipelined        \* history: the client wrote on while a request waited

requestVars == <<method_, version_, connection>>
parserVars == <<state_, requestVars>>
historyVars == <<stream, calls, rejected, pipelined>>
vars == <<unread, inputBuffer_, pc, ok, parserVars, connState, aborted, out,
          historyVars>>

RequestLines == {"http11", "http10"}
HeaderLines == {"close", "keepAlive"}
Lines == RequestLines \cup HeaderLines \cup {"badVersion", "blank"}
EOL == "eol"

(* setMethod is called only behind a first space. *)
hasSpace(line) == line # "blank"
hasMethod(line) == line \in RequestLines \cup {"badVersion"}
hasColon(line) == line \in HeaderLines

versionOf(line) ==
  CASE line = "http11" -> "kHttp11" [] line = "http10" -> "kHttp10"
    [] OTHER -> "kUnknown"

(* getHeader of a field that has not come. *)
noHeader == ""

valueOf(line) == IF line = "close" THEN "close" ELSE "Keep-Alive"

(* onConnection gives the connection a new parser. *)
Init ==
  /\ unread = << >> /\ inputBuffer_ = << >>
  /\ pc = "poll" /\ ok = TRUE
  /\ state_ = "kExpectRequestLine"
  /\ method_ = "kInvalid" /\ version_ = "kUnknown" /\ connection = noHeader
  /\ connState = "kConnected"
  /\ aborted = FALSE
  /\ out = << >>
  /\ stream = << >> /\ calls = << >> /\ rejected = FALSE /\ pipelined = FALSE

-----------------------------------------------------------------------------
(***************************************************************************)
(* What the client has asked for, by the lines it wrote alone: a request   *)
(* goes from its first line to the first line behind it without a colon,   *)
(* and the next one starts there.                                          *)
(***************************************************************************)
LastOf(i) ==
  LET ends == {j \in i + 1 .. Len(stream) : ~hasColon(stream[j])}
  IN  IF ends = {} THEN Len(stream) + 1
                   ELSE CHOOSE j \in ends : \A k \in ends : j <= k

(* Line at which the n-th request starts, if there is one. *)
FirstOf[n \in 1 .. MaxLines + 1] ==
  IF n = 1 THEN 1 ELSE LastOf(FirstOf[n - 1]) + 1

IsComplete(n) == LastOf(FirstOf[n]) <= Len(stream)

(* The Connection header that counts is the last one. *)
ConnectionOf(n) ==
  LET headers == FirstOf[n] + 1 .. LastOf(FirstOf[n]) - 1
  IN  IF headers = {} THEN noHeader ELSE valueOf(stream[LastOf(FirstOf[n]) - 1])

Request(n) == [version |-> versionOf(stream[FirstOf[n]]),
               connection |-> ConnectionOf(n)]

AsksToClose(n) ==
  \/ Request(n).connection = "close"
  \/ Request(n).version = "kHttp10" /\ Request(n).connection # "Keep-Alive"

(* The request after those answered is complete. *)
Waiting == ~rejected /\ IsComplete(Len(calls) + 1)

-----------------------------------------------------------------------------
(***************************************************************************)
(* The client, and the kernel.                                             *)
(***************************************************************************)
(* The last line written is not complete. *)
Unfinished ==
  LET parts == inputBuffer_ \o unread
  IN  parts # << >> /\ parts[Len(parts)] # EOL

(* The first part of a line, any but the last byte. *)
clientBeginsLine(line) ==
  /\ ~Unfinished /\ Len(stream) < MaxLines
  /\ unread' = Append(unread, line)
  /\ stream' = Append(stream, line)
  /\ pipelined' = (pipelined \/ Waiting)
  /\ UNCHANGED <<inputBuffer_, pc, ok, parserVars, connState, aborted, out,
                 calls, rejected>>

clientEndsLine ==
  /\ Unfinished
  /\ unread' = Append(unread, EOL)
  /\ UNCHANGED <<inputBuffer_, pc, ok, parserVars, connState, aborted, out,
                 historyVars>>

-----------------------------------------------------------------------------
(***************************************************************************)
(* The server.                                                             *)
(***************************************************************************)

(* TcpConnection::handleRead_ and onMessage, up to the loop of             *)
(* parseRuquest.  A connection that is shut down goes on reading.          *)
onMessage ==
  /\ pc = "poll" /\ ~aborted /\ unread # << >>
  /\ inputBuffer_' = inputBuffer_ \o unread
  /\ unread' = << >>
  /\ ok' = TRUE
  /\ pc' = "parse"
  /\ UNCHANGED <<parserVars, connState, aborted, out, historyVars>>

findCRLF_NotAtEnd == Len(inputBuffer_) > 2

(* The first line is there to its LF. *)
findCRLF == Len(inputBuffer_) >= 2

line1 == Head(inputBuffer_)

retrieveUntil == inputBuffer_' = SubSeq(inputBuffer_, 3, Len(inputBuffer_))

(* The part of every iteration's action that is the same. *)
Iteration(state) ==
  /\ pc = "parse" /\ ~aborted
  /\ state_ = state
  /\ UNCHANGED <<unread, connState, out, historyVars>>

(* No whole line yet. *)
needMore ==
  /\ ~findCRLF
  /\ \E state \in {"kExpectRequestLine", "kExpectHeaders"} : Iteration(state)
  /\ pc' = "parsed"
  /\ UNCHANGED <<inputBuffer_, ok, parserVars, aborted>>

(* assert(method_ == kInvalid) *)
setMethodAborts ==
  /\ findCRLF /\ Iteration("kExpectRequestLine")
  /\ hasSpace(line1) /\ method_ # "kInvalid"
  /\ aborted' = TRUE
  /\ UNCHANGED <<inputBuffer_, pc, ok, parserVars>>

processRequestLine_AnyVersion(line) == hasMethod(line)

(* What processRequestLine returns: a method, and HTTP/1.0 or HTTP/1.1. *)
processRequestLine(line) == line \in RequestLines

setMethod(line) ==
  /\ hasSpace(line) => method_ = "kInvalid"
  /\ method_' = IF hasMethod(line) THEN "kGet" ELSE method_

acceptRequestLine ==
  /\ findCRLF /\ Iteration("kExpectRequestLine")
  /\ processRequestLine(line1)
  /\ setMethod(line1)
  /\ version_' = versionOf(line1)
  /\ retrieveUntil
  /\ state_' = "kExpectHeaders"
  /\ UNCHANGED <<pc, ok, connection, aborted>>

(* The method may have been set all the same; nothing is retrieved. *)
refuseRequestLine ==
  /\ findCRLF /\ Iteration("kExpectRequestLine")
  /\ ~processRequestLine(line1)
  /\ setMethod(line1)
  /\ ok' = FALSE
  /\ pc' = "parsed"
  /\ UNCHANGED <<inputBuffer_, state_, version_, connection, aborted>>

addHeader ==
  /\ findCRLF /\ Iteration("kExpectHeaders")
  /\ hasColon(line1)
  /\ connection' = valueOf(line1)
  /\ retrieveUntil
  /\ UNCHANGED <<pc, ok, state_, method_, version_, aborted>>

(* A line without a colon, whatever it is, ends the headers. *)
endHeaders ==
  /\ findCRLF /\ Iteration("kExpectHeaders")
  /\ ~hasColon(line1)
  /\ state_' = "kGotAll"
  /\ pc' = "parsed"
  /\ retrieveUntil
  /\ UNCHANGED <<ok, requestVars, aborted>>

(* TcpConnection::shutdown *)
shutdownAfter(close) ==
  connState' = IF close /\ connState = "kConnected" THEN "kDisconnecting"
                                                    ELSE connState

(* TcpConnection::send *)
send(response) ==
  out' = IF connState = "kConnected" THEN Append(out, response) ELSE out

(* A response that closes the connection has no Content-Length. *)
appendToBuffer(closeConnection) == [contentLength |-> ~closeConnection]

(* httpCallback_ may close although the client did not ask for it, as      *)
(* setBodyByFile does without a file and the default callback always.  One *)
(* that keeps open what the client asked to close is not considered.       *)
httpCallback_(close) == {close, TRUE}

(* Behind parseRuquest, neither an error nor a whole request. *)
onMessageReturns ==
  /\ pc = "parsed" /\ ok /\ state_ # "kGotAll"
  /\ pc' = "poll"
  /\ UNCHANGED <<unread, inputBuffer_, ok, parserVars, connState, aborted, out,
                 historyVars>>

badRequest ==
  /\ pc = "parsed" /\ ~ok
  /\ send([contentLength |-> FALSE])
  /\ shutdownAfter(TRUE)
  /\ rejected' = TRUE
  /\ pc' = "poll"
  /\ UNCHANGED <<unread, inputBuffer_, ok, parserVars, aborted, stream, calls,
                 pipelined>>

mustClose_IgnoresVersion == connection = "close"

mustClose ==
  \/ connection = "close"
  \/ version_ = "kHttp10" /\ connection # "Keep-Alive"

reset_KeepsHeaders ==
  /\ state_' = "kExpectRequestLine"
  /\ method_' = "kInvalid" /\ version_' = "kUnknown"
  /\ UNCHANGED connection

reset_Forgotten == UNCHANGED parserVars

reset ==
  /\ state_' = "kExpectRequestLine"
  /\ method_' = "kInvalid" /\ version_' = "kUnknown" /\ connection' = noHeader

(* onRequest and reset. *)
onRequest ==
  /\ pc = "parsed" /\ ok /\ state_ = "kGotAll"
  /\ \E closeConnection \in httpCallback_(mustClose) :
       /\ send(appendToBuffer(closeConnection))
       /\ shutdownAfter(closeConnection)
  /\ calls' = Append(calls, [version |-> version_, connection |-> connection])
  /\ reset
  /\ pc' = "poll"
  /\ UNCHANGED <<unread, inputBuffer_, ok, aborted, stream, rejected,
                 pipelined>>

ServerStep ==
  \/ onMessage \/ needMore \/ setMethodAborts \/ acceptRequestLine
  \/ refuseRequestLine \/ addHeader \/ endHeaders \/ onMessageReturns
  \/ badRequest \/ onRequest

Next ==
  \/ ServerStep
  \/ clientEndsLine
  \/ \E line \in Lines : clientBeginsLine(line)

Spec == Init /\ [][Next]_vars

(* The loop thread goes on; callbacks return. *)
FairSpec == Spec /\ WF_vars(ServerStep)

-----------------------------------------------------------------------------
(* Types; and no version is known before a request line is accepted.       *)
TypeOK ==
  /\ pc \in {"poll", "parse", "parsed"} /\ ok \in BOOLEAN
  /\ state_ \in {"kExpectRequestLine", "kExpectHeaders", "kGotAll"}
  /\ method_ \in {"kInvalid", "kGet"}
  /\ version_ \in {"kUnknown", "kHttp10", "kHttp11"}
  /\ connection \in {noHeader, "close", "Keep-Alive"}
  /\ connState \in {"kConnected", "kDisconnecting"}
  /\ aborted \in BOOLEAN /\ rejected \in BOOLEAN /\ pipelined \in BOOLEAN
  /\ state_ = "kExpectRequestLine" => version_ = "kUnknown"

(* However the input is cut, httpCallback_ is called with the requests     *)
(* that are in it, each with its own version and headers, in order, and    *)
(* only with those that begin well; a 400 is sent only where the next of   *)
(* them does not.                                                          *)
RequestsAreThoseOfTheStream ==
  /\ TypeOK
  /\ \A n \in 1..Len(calls) :
       /\ IsComplete(n) /\ calls[n] = Request(n)
       /\ stream[FirstOf[n]] \in RequestLines
  /\ rejected => stream[FirstOf[Len(calls) + 1]] \notin RequestLines

(* The client can tell where each response ends, and a client that asked   *)
(* for it sees the end of the connection: every response but the last has  *)
(* a Content-Length and answers a request to keep the connection.          *)
OnlyTheLastCloses ==
  \A n \in 1 .. Len(out) - 1 : out[n].contentLength /\ ~AsksToClose(n)

(* A client that does not write on before it has its answer never waits    *)
(* for one while the server waits for it.                                  *)
NoRequestWaits ==
  pc = "poll" /\ unread = << >> /\ ~Unfinished /\ ~pipelined => ~Waiting

(* parseRuquest, whose loop has no branch for kGotAll, comes to an end.    *)
OnMessageReturns == pc # "poll" ~> (pc = "poll" \/ aborted)

(* assert(method_ == kInvalid) in HttpRequest::setMethod.                  *)
MethodAssertHolds == ~aborted
=============================================================================
