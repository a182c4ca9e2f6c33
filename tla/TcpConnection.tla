--------------------------- MODULE TcpConnection ---------------------------
(***************************************************************************)
(* One tractor::TcpConnection: its data path, its shutdown and its end.    *)
(*                                                                         *)
(* The loop thread polls the connection's channel, calls back, and runs    *)
(* pending functors, as in EventLoop.  User code runs inside the callbacks *)
(* of the loop thread and in one more thread that holds a                  *)
(* TcpConnectionPtr.  The other end of the connection and the socket       *)
(* buffers are the environment.  closeCallback_ is the one TcpServer sets, *)
(* with a single loop: it queues connectDestroyed.                         *)
(***************************************************************************)
EXTENDS Epoll, Naturals, Sequences

CONSTANTS
  channel_,
  Messages,      \* messages user code may send, each once
  Length,        \* their sizes in bytes
  SendSpace,     \* capacity of the socket's send buffer
  MaxChunks,     \* bound on what the peer sends
  Modes,         \* the values of nonBlocking to consider
  OtherMessages  \* those of Messages that the second thread sends

ASSUME ChannelAssumption == channel_ \in Channels

ASSUME LengthAssumption ==
  /\ Length \in [Messages -> Nat]
  /\ SendSpace \in Nat \ {0}
  /\ MaxChunks \in Nat
  /\ Modes \subseteq BOOLEAN /\ OtherMessages \subseteq Messages
  /\ FALSE \in Modes => \A m \in Messages : Length[m] <= SendSpace

VARIABLES
  state_,
  poller,            \* channel_ and the poller, see Epoll
  outputBuffer_,     \* the bytes between its two indices
  pendingFunctors_,
  functors,          \* the batch doPendingFunctors() is running
  pc,                \* where the loop thread is
  todo,              \* callbacks handleEvent() has still to make
  other,             \* what the other thread is in the middle of
  sent,              \* kernel: bytes taken by write(2), in order
  space,             \* kernel: free space of the send buffer
  unread,            \* kernel: chunks received and not read
  chunks,            \* chunks the peer has sent so far
  peer,              \* "open", "closed" (FIN received) or "reset"
  soError,           \* kernel: the pending SO_ERROR
  finSent,           \* kernel: shutdown(SHUT_WR) was called
  nonBlocking,       \* kernel: whether write(2) may return before all is
                     \* written, on a non-blocking socket or by a signal
  aborted,           \* an assert of TcpConnection has failed
  accepted,          \* history: bytes handed to sendInLoop, in order
  said,              \* history: messages of the send() calls of all threads
  closed,            \* history: handleClose_ has run
  late,              \* history: sendInLoop was run for the second thread
                     \* after connectDestroyed had removed the channel
  promised           \* history: what the loop thread had sent when it
                     \* called shutdown()

loopVars == <<functors, pc, todo>>
kernelVars == <<sent, space, unread, chunks, peer, soError, finSent>>
historyVars == <<accepted, said, closed, late, promised>>
vars == <<state_, poller, outputBuffer_, pendingFunctors_, loopVars, other,
          kernelVars, nonBlocking, aborted, historyVars>>

sockfd == FdOf[channel_]

Bytes(m) == [k \in 1..Length[m] |-> <<m, k>>]

Callbacks == {"connected", "message", "writeComplete", "disconnected"}

Idle == [op |-> "idle"]
Writing == isWriting(poller, channel_)

Init ==
  /\ state_ = "kConnecting"
  /\ poller = EmptyPoller
  /\ outputBuffer_ = << >>
  /\ pendingFunctors_ = << >>
  /\ functors = << >>
  /\ pc = "start"
  /\ todo = {}
  /\ other = Idle
  /\ sent = << >> /\ space = SendSpace
  /\ unread = 0 /\ chunks = 0
  /\ peer = "open" /\ soError = FALSE /\ finSent = FALSE
  /\ nonBlocking \in Modes
  /\ aborted = FALSE
  /\ accepted = << >>
  /\ said = {}
  /\ closed = FALSE /\ late = FALSE
  /\ promised = {}

-----------------------------------------------------------------------------
(***************************************************************************)
(* write(2) on the socket.  After SHUT_WR or a reset it fails; otherwise   *)
(* it takes what fits, and fails with EWOULDBLOCK if nothing does.  On a   *)
(* blocking socket (accept(2) makes those, Socket::Accept) it does not     *)
(* return before all fits or the connection is broken.                     *)
(***************************************************************************)
Broken == finSent \/ peer = "reset"

writeReturns(n) == nonBlocking \/ Broken \/ n <= space

writeFails(n) == Broken \/ (space = 0 /\ n > 0)

writeTakes(n) == IF writeFails(n) THEN 0 ELSE IF n <= space THEN n ELSE space

(* The effect on the kernel of a write of the first n of these bytes. *)
write(bytes, n) ==
  /\ sent' = sent \o SubSeq(bytes, 1, n)
  /\ space' = space - n
  /\ soError' = (soError /\ ~Broken)

sendDirectly_IgnoresBacklog == TRUE

(* if no thing in output queue, try writing directly *)
sendDirectly == ~Writing /\ outputBuffer_ = << >>

(* sendInLoop: write, queue what is left and wait for POLLOUT.  After an   *)
(* error, whatever it is, the whole message is left.                       *)
sendInLoop(m) ==
  LET size == Length[m]
      direct == sendDirectly
      nwrote == IF direct THEN writeTakes(size) ELSE 0
      rest == SubSeq(Bytes(m), nwrote + 1, size)
  IN  /\ IF direct THEN writeReturns(size) /\ write(Bytes(m), nwrote)
                   ELSE UNCHANGED <<sent, space, soError>>
      /\ pendingFunctors_' =
           IF direct /\ ~writeFails(size) /\ nwrote = size
           THEN Append(pendingFunctors_, [call |-> "writeComplete"])
           ELSE pendingFunctors_
      /\ outputBuffer_' = outputBuffer_ \o rest
      /\ poller' = IF rest # << >> /\ ~Writing THEN enableWriting(poller, channel_)
                                               ELSE poller
      /\ accepted' = accepted \o Bytes(m)

shutdownInLoop_Always == finSent' = TRUE

(* shutdownInLoop: half-close now, or leave it to handleWrite_. *)
shutdownInLoop == finSent' = (finSent \/ ~Writing)

(* handleClose_, and removeConnection behind closeCallback_. *)
handleClose_ ==
  /\ aborted' = (aborted \/ state_ \notin {"kConnected", "kDisconnecting"})
  /\ poller' = disableAll(poller, channel_)
  /\ pendingFunctors_' = Append(pendingFunctors_, [call |-> "connectDestroyed"])
  /\ closed' = TRUE

-----------------------------------------------------------------------------
(***************************************************************************)
(* The loop thread.                                                        *)
(***************************************************************************)

(* connectEstablished, up to the connection callback. *)
connectEstablished ==
  /\ pc = "start"
  /\ aborted' = (aborted \/ state_ # "kConnecting")
  /\ state_' = "kConnected"
  /\ poller' = enableReading(poller, channel_)
  /\ pc' = "connected"
  /\ UNCHANGED <<outputBuffer_, pendingFunctors_, functors, todo, other,
                 kernelVars, historyVars>>

(* What the kernel sees on the socket. *)
SocketEvents ==
  (IF unread > 0 \/ peer # "open" THEN {"in"} ELSE {})
    \cup (IF space > 0 \/ Broken THEN {"out"} ELSE {})
    \cup (IF peer = "reset" \/ (peer = "closed" /\ finSent) THEN {"hup"} ELSE {})
    \cup (IF soError THEN {"err"} ELSE {})

(* EPoller::poll and the conditions of Channel::handleEvent, which are all *)
(* on revents_ and so are settled when poll() returns.                     *)
poll ==
  /\ pc = "poll"
  /\ LET events == revents(poller, sockfd, SocketEvents)
     IN  todo' = (IF "hup" \in events /\ "in" \notin events THEN {"close"} ELSE {})
                   \cup (IF "err" \in events THEN {"error"} ELSE {})
                   \cup (IF "in" \in events THEN {"read"} ELSE {})
                   \cup (IF "out" \in events THEN {"write"} ELSE {})
  /\ pc' = "handle"
  /\ UNCHANGED <<state_, poller, outputBuffer_, pendingFunctors_, functors,
                 other, kernelVars, aborted, historyVars>>

(* Channel::handleEvent: the next callback is cb. *)
handleEvent(cb) ==
  /\ pc = "handle" /\ cb \in todo
  /\ CASE cb = "close" -> TRUE
       [] cb = "error" -> "close" \notin todo
       [] cb = "read"  -> todo \cap {"close", "error"} = {}
       [] cb = "write" -> todo = {"write"}
  /\ todo' = todo \ {cb}

closeEvent ==
  /\ handleEvent("close")
  /\ handleClose_
  /\ UNCHANGED <<state_, outputBuffer_, functors, pc, other, kernelVars,
                 accepted, said, late, promised>>

(* handleError_: getsockopt(SO_ERROR) clears the error. *)
handleError_ ==
  /\ handleEvent("error")
  /\ soError' = FALSE
  /\ UNCHANGED <<state_, poller, outputBuffer_, pendingFunctors_, functors, pc,
                 other, sent, space, unread, chunks, peer, finSent, aborted,
                 historyVars>>

endOfFile_Ignored == UNCHANGED <<poller, pendingFunctors_, aborted, closed>>

(* read(2) returned 0. *)
endOfFile == handleClose_

(* handleRead_: data, an error (which reading it clears), or end of file. *)
handleRead_ ==
  /\ handleEvent("read")
  /\ \/ /\ unread > 0
        /\ unread' = 0
        /\ pc' = "message"
        /\ UNCHANGED <<soError, poller, pendingFunctors_, aborted, closed>>
     \/ /\ unread = 0 /\ soError
        /\ soError' = FALSE
        /\ UNCHANGED <<unread, pc, poller, pendingFunctors_, aborted, closed>>
     \/ /\ unread = 0 /\ ~soError
        /\ endOfFile
        /\ UNCHANGED <<unread, pc, soError>>
  /\ UNCHANGED <<state_, outputBuffer_, functors, other, sent, space, chunks,
                 peer, finSent, accepted, said, late, promised>>

stopWriting_Forgotten(done) == UNCHANGED poller

stopWriting(done) ==
  poller' = IF done THEN disableWriting(poller, channel_) ELSE poller

finishShutdown_Forgotten(done) == UNCHANGED finSent

(* shutdownInLoop after disableWriting: the channel is not writing. *)
finishShutdown(done) ==
  finSent' = (finSent \/ (done /\ state_ = "kDisconnecting"))

(* handleWrite_: write what is queued; when the last byte is gone, stop    *)
(* writing and finish a shutdown() that was waiting for it.                *)
handleWrite_ ==
  LET n == writeTakes(Len(outputBuffer_))
      rest == SubSeq(outputBuffer_, n + 1, Len(outputBuffer_))
      done == n > 0 /\ rest = << >>
  IN  /\ handleEvent("write")
      /\ IF Writing
         THEN /\ writeReturns(Len(outputBuffer_))
              /\ write(outputBuffer_, n)
              /\ outputBuffer_' = rest
              /\ stopWriting(done)
              /\ pendingFunctors_' =
                   IF done THEN Append(pendingFunctors_, [call |-> "writeComplete"])
                           ELSE pendingFunctors_
              /\ finishShutdown(done)
         ELSE UNCHANGED <<sent, space, soError, outputBuffer_, poller,
                          pendingFunctors_, finSent>>
      /\ UNCHANGED <<state_, functors, pc, other, unread, chunks, peer, aborted,
                     historyVars>>

(* EventLoop::doPendingFunctors: the swap, and the end of the batch. *)
doPendingFunctors ==
  /\ pc = "handle" /\ todo = {}
  /\ functors' = pendingFunctors_
  /\ pendingFunctors_' = << >>
  /\ pc' = "functors"
  /\ UNCHANGED <<state_, poller, outputBuffer_, todo, other, kernelVars,
                 aborted, historyVars>>

endFunctors ==
  /\ pc = "functors" /\ functors = << >>
  /\ pc' = "poll"
  /\ UNCHANGED <<state_, poller, outputBuffer_, pendingFunctors_, functors,
                 todo, other, kernelVars, aborted, historyVars>>

(* The next functor of the batch. *)
runFunctor(call) ==
  /\ pc = "functors" /\ functors # << >>
  /\ Head(functors).call = call
  /\ functors' = Tail(functors)

runWriteComplete ==
  /\ runFunctor("writeComplete")
  /\ pc' = "writeComplete"
  /\ UNCHANGED <<state_, poller, outputBuffer_, pendingFunctors_, todo, other,
                 kernelVars, aborted, historyVars>>

runSend ==
  /\ runFunctor("sendInLoop")
  /\ sendInLoop(Head(functors).message)
  /\ late' = (late \/ poller.index[channel_] = kNew)
  /\ UNCHANGED <<state_, pc, todo, other, unread, chunks, peer, finSent,
                 aborted, said, closed, promised>>

runShutdown ==
  /\ runFunctor("shutdownInLoop")
  /\ shutdownInLoop
  /\ UNCHANGED <<state_, poller, outputBuffer_, pendingFunctors_, pc, todo,
                 other, sent, space, unread, chunks, peer, soError, aborted,
                 historyVars>>

disableAtEnd_Skipped == UNCHANGED poller

(* The second disableAll: user code may have sent since handleClose_. *)
disableAtEnd == poller' = disableAll(poller, channel_)

(* connectDestroyed, up to the connection callback. *)
connectDestroyed ==
  /\ runFunctor("connectDestroyed")
  /\ aborted' = (aborted \/ state_ \notin {"kConnected", "kDisconnecting"})
  /\ state_' = "kDisconnected"
  /\ disableAtEnd
  /\ pc' = "disconnected"
  /\ UNCHANGED <<outputBuffer_, pendingFunctors_, todo, other, kernelVars,
                 historyVars>>

(* A user callback returns to where it was called from; connectDestroyed   *)
(* goes on to remove the channel.                                          *)
callbackReturn ==
  /\ pc \in Callbacks
  /\ pc' = CASE pc = "connected" -> "handle"
             [] pc = "message" -> "handle"
             [] OTHER -> "functors"
  /\ poller' = IF pc = "disconnected" THEN removeChannel(poller, channel_)
                                      ELSE poller
  /\ UNCHANGED <<state_, outputBuffer_, pendingFunctors_, functors, todo, other,
                 kernelVars, aborted, historyVars>>

LoopStep ==
  /\ \/ connectEstablished \/ poll \/ closeEvent \/ handleError_ \/ handleRead_
     \/ handleWrite_ \/ doPendingFunctors \/ endFunctors \/ runWriteComplete
     \/ runSend \/ runShutdown \/ connectDestroyed \/ callbackReturn
  /\ UNCHANGED nonBlocking

-----------------------------------------------------------------------------
(***************************************************************************)
(* send() and shutdown(), which do nothing unless state_ is kConnected.    *)
(***************************************************************************)
Unsaid == Messages \ said

(* Called by user code in the loop thread. *)
send(m) ==
  /\ pc \in Callbacks /\ m \in Unsaid \ OtherMessages
  /\ state_ = "kConnected"
  /\ sendInLoop(m)
  /\ said' = said \cup {m}
  /\ UNCHANGED <<state_, loopVars, other, unread, chunks, peer, finSent,
                 aborted, closed, late, promised>>

shutdown ==
  /\ pc \in Callbacks
  /\ state_ = "kConnected"
  /\ state_' = "kDisconnecting"
  /\ shutdownInLoop
  /\ promised' = said \ OtherMessages
  /\ UNCHANGED <<poller, outputBuffer_, pendingFunctors_, loopVars, other, sent,
                 space, unread, chunks, peer, soError, aborted, accepted, said,
                 closed, late>>

(* Called by the other thread: the test of state_ ... *)
otherTests ==
  /\ other = Idle
  /\ state_ = "kConnected"
  /\ \/ \E m \in Unsaid \cap OtherMessages : other' = [op |-> "send", message |-> m]
     \/ other' = [op |-> "shutdown"]
  /\ UNCHANGED <<state_, poller, outputBuffer_, pendingFunctors_, loopVars,
                 kernelVars, aborted, historyVars>>

(* ... then, for shutdown(), setState_ ... *)
otherSetState ==
  /\ other.op = "shutdown"
  /\ state_' = "kDisconnecting"
  /\ other' = [op |-> "queueShutdown"]
  /\ UNCHANGED <<poller, outputBuffer_, pendingFunctors_, loopVars, kernelVars,
                 aborted, historyVars>>

(* ... and the call of runInLoop, which queues. *)
otherQueues ==
  /\ \/ /\ other.op = "send"
        /\ pendingFunctors_' = Append(pendingFunctors_,
             [call |-> "sendInLoop", message |-> other.message])
        /\ said' = said \cup {other.message}
     \/ /\ other.op = "queueShutdown"
        /\ pendingFunctors_' = Append(pendingFunctors_, [call |-> "shutdownInLoop"])
        /\ UNCHANGED said
  /\ other' = Idle
  /\ UNCHANGED <<state_, poller, outputBuffer_, loopVars, kernelVars, aborted,
                 accepted, closed, late, promised>>

-----------------------------------------------------------------------------
(***************************************************************************)
(* The peer.                                                               *)
(***************************************************************************)
loopAndUser == <<state_, poller, outputBuffer_, pendingFunctors_, loopVars,
                 other, aborted, historyVars>>

peerReads ==
  /\ peer # "reset" /\ space < SendSpace
  /\ space' = space + 1
  /\ UNCHANGED <<loopAndUser, sent, unread, chunks, peer, soError, finSent>>

peerSends ==
  /\ peer = "open" /\ chunks < MaxChunks
  /\ unread' = unread + 1 /\ chunks' = chunks + 1
  /\ UNCHANGED <<loopAndUser, sent, space, peer, soError, finSent>>

peerCloses ==
  /\ peer = "open"
  /\ peer' = "closed"
  /\ UNCHANGED <<loopAndUser, sent, space, unread, chunks, soError, finSent>>

peerResets ==
  /\ peer # "reset"
  /\ peer' = "reset"
  /\ soError' = TRUE
  /\ UNCHANGED <<loopAndUser, sent, space, unread, chunks, finSent>>

-----------------------------------------------------------------------------
PeerReads == peerReads /\ UNCHANGED nonBlocking

Next ==
  \/ LoopStep
  \/ PeerReads
  \/ /\ \/ \E m \in Messages : send(m)
        \/ shutdown
        \/ otherTests \/ otherSetState \/ otherQueues
        \/ peerSends \/ peerCloses \/ peerResets
     /\ UNCHANGED nonBlocking

Spec == Init /\ [][Next]_vars

OtherQueues == otherQueues /\ UNCHANGED nonBlocking

(* The loop thread keeps running and the peer keeps reading; a shutdown()  *)
(* of the second thread that has set state_ goes on to queue the rest.     *)
FairSpec ==
  Spec /\ WF_vars(LoopStep) /\ WF_vars(PeerReads) /\ WF_vars(OtherQueues)

-----------------------------------------------------------------------------
(* Types.  The poller's state is left to EPoller. *)
TypeOK ==
  /\ state_ \in {"kConnecting", "kConnected", "kDisconnecting", "kDisconnected"}
  /\ \A b \in {Len(outputBuffer_), Len(sent), Len(accepted), unread, chunks} :
       b \in Nat
  /\ pc \in Callbacks \cup {"start", "poll", "handle", "functors"}
  /\ todo \in SUBSET {"close", "error", "read", "write"}
  /\ space \in 0..SendSpace
  /\ peer \in {"open", "closed", "reset"}
  /\ soError \in BOOLEAN /\ finSent \in BOOLEAN /\ aborted \in BOOLEAN

(* However writes are cut short and whoever sends, the bytes given to the  *)
(* kernel followed by outputBuffer_ are the messages in the order          *)
(* sendInLoop got them: nothing lost, repeated or overtaken.               *)
StreamIntact == accepted = sent \o outputBuffer_

(* Until handleClose_ disables the channel, bytes are queued exactly while *)
(* it waits for POLLOUT: they are not forgotten, and the loop does not     *)
(* spin on a writable socket with nothing to write.                        *)
WritingIffBacklog ==
  /\ TypeOK
  /\ ~closed => (Writing <=> outputBuffer_ # << >>)

(* The asserts of connectEstablished, handleClose_ and connectDestroyed on *)
(* state_, those of EPoller, and every epoll_ctl hold, whatever two        *)
(* threads send and shut down while the connection ends, as long as no     *)
(* message of the second thread comes so late that the channel is gone.    *)
NoFailure == ~late => ~aborted /\ ~poller.aborted /\ ~poller.ctlFailed

(* The loop thread that sends and then shuts down has its messages written *)
(* before the FIN, however long they had to wait in outputBuffer_ and      *)
(* whatever the second thread sends or shuts down, until the connection    *)
(* ends (handleClose_) for another reason.                                 *)
ShutdownKeepsMessages ==
  finSent /\ ~closed => \A m \in promised : \A k \in 1..Length[m] :
               \E i \in 1..Len(sent) : sent[i] = <<m, k>>

(* When the peer closes or resets, the connection is taken down: its       *)
(* channel is closed and removed, unless a message of the second thread    *)
(* comes so late that it registers the channel again.                      *)
PeerGoneIsNoticed ==
  peer # "open" ~> (late \/ (closed /\ poller.index[channel_] = kNew))

(* A shutdown() is carried out, or overtaken by the end of the connection. *)
ShutdownIsCarriedOut ==
  state_ = "kDisconnecting" ~> (finSent \/ state_ = "kDisconnected")

(* assert(state_ == kConnected || state_ == kDisconnecting) at the head of *)
(* handleClose_ and of connectDestroyed.                                   *)
StateAssertsHold == ~aborted
=============================================================================
