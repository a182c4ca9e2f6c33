-------------------------- MODULE TcpServerProofs --------------------------
(***************************************************************************)
(* TcpServer for any number of connections and any reuse of descriptors.   *)
(***************************************************************************)
EXTENDS TcpServer, EpollProofs, SequenceTheorems, TLAPS

(* The channels there are: those of the connections and the Acceptor's. *)
Live == exist \cup {acceptChannel_}

(* connectDestroyed of c is queued and has not run. *)
Waiting(c) ==
  \/ \E i \in 1..Len(pendingFunctors_) : pendingFunctors_[i] = c
  \/ \E i \in 1..Len(functors) : i > ran /\ functors[i] = c

NoRepeat(s) == \A i, j \in 1..Len(s) : s[i] = s[j] => i = j

(***************************************************************************)
(* The inductive invariant.  The life of a connection ties together what   *)
(* four owners know of it: it is connected while it is in connections_ or  *)
(* its connectDestroyed waits, never both; afterwards its channel is not   *)
(* registered, so whoever drops the last pointer may destroy it.  A        *)
(* channel that waits in activeChannels_ belongs to a connection that is   *)
(* still in connections_: only its own handleEvent() takes it out.         *)
(***************************************************************************)
Queues ==
  /\ pendingFunctors_ \in Seq(Conns) /\ functors \in Seq(Conns)
  /\ ran \in 0..Len(functors)
  /\ NoRepeat(pendingFunctors_) /\ NoRepeat(functors)

Phases ==
  /\ pc # "handle" => active = {} /\ handling = None /\ pendingFunctors_ = << >>
  /\ pc # "functors" => functors = << >> /\ ran = 0
  /\ active \subseteq connections_ \cup {acceptChannel_}
  /\ handling \in Live \cup {None}

Lives ==
  /\ \A c \in exist : state_[c] # "none"
  /\ \A c \in exist : state_[c] = "kConnected" <=> c \in connections_ \/ Waiting(c)
  /\ \A c \in connections_ : ~Waiting(c)
  /\ \A c \in exist : state_[c] = "kDisconnected" => poller.index[c] = kNew

Registration == Consistent(poller, Live) /\ OneChannelPerFd(Live)

ServerInv == TypeOK /\ ~aborted /\ Queues /\ Phases /\ Lives /\ Registration

-----------------------------------------------------------------------------
LEMMA ServerInit == Init => ServerInv
<1> SUFFICES ASSUME Init PROVE ServerInv
  OBVIOUS
<1>1. /\ poller = EmptyPoller /\ connections_ = {} /\ exist = {} /\ held = {}
      /\ pendingFunctors_ = << >> /\ functors = << >> /\ ran = 0
      /\ pc = "out" /\ active = {} /\ handling = None /\ gone = {}
      /\ aborted = FALSE /\ listening_ = FALSE
      /\ state_ = [c \in Conns |-> "none"]
  BY DEF Init
<1>2. Live = {acceptChannel_} /\ Live \in SUBSET Channels
  BY <1>1, ServerAssumption DEF Live
<1>3. Registration
  BY <1>1, <1>2, EmptyConsistent DEF Registration, OneChannelPerFd
<1>4. TypeOK
  <2>1. InSeq(pendingFunctors_) = {} /\ InSeq(functors) = {}
    <3>1. 1..Len(<< >>) = {}
      OBVIOUS
    <3> QED
      BY <1>1, <3>1 DEF InSeq
  <2>2. listening_ \in BOOLEAN /\ aborted \in BOOLEAN
    BY <1>1, Zenon
  <2> QED
    BY <1>1, <2>1, <2>2 DEF TypeOK
<1>5. Queues /\ Phases
  BY <1>1 DEF Queues, Phases, NoRepeat
<1>6. Lives
  BY <1>1 DEF Lives
<1> QED
  BY <1>1, <1>3, <1>4, <1>5, <1>6 DEF ServerInv

(* What the invariant says, without InSeq. *)
LEMMA ServerFacts ==
  ASSUME ServerInv
  PROVE  /\ listening_ \in BOOLEAN /\ aborted = FALSE
         /\ connections_ \subseteq exist /\ held \subseteq exist
         /\ exist \subseteq Conns /\ Live \in SUBSET Channels
         /\ state_ \in [Conns -> {"none", "kConnected", "kDisconnected"}]
         /\ \A i \in 1..Len(pendingFunctors_) : pendingFunctors_[i] \in exist
         /\ \A i \in 1..Len(functors) : functors[i] \in exist
         /\ pc \in {"out", "poll", "handle", "functors"}
         /\ active \subseteq Channels /\ handling \in Channels \cup {None}
         /\ gone \subseteq Conns
         /\ Consistent(poller, Live) /\ OneChannelPerFd(Live)
         /\ poller \in PollerStates
         /\ acceptChannel_ \in Live /\ acceptChannel_ \notin Conns
<1>1. acceptChannel_ \in Channels /\ acceptChannel_ \notin Conns
  BY ServerAssumption DEF Conns
<1>2. exist \subseteq Conns /\ Live \in SUBSET Channels
  BY <1>1 DEF ServerInv, TypeOK, Live, Conns
<1>3. /\ \A i \in 1..Len(pendingFunctors_) : pendingFunctors_[i] \in exist
      /\ \A i \in 1..Len(functors) : functors[i] \in exist
  BY DEF ServerInv, TypeOK, InSeq
<1>4. aborted = FALSE
  BY Zenon DEF ServerInv, TypeOK
<1> QED
  BY <1>1, <1>2, <1>3, <1>4 DEF ServerInv, TypeOK, Registration, Consistent, Live

(* Steps that change neither the life nor the queues of connections: what  *)
(* is left to show is that they register no connection that is down.       *)
LEMMA OtherSteps ==
  ASSUME ServerInv, TypeOK', Phases', Registration',
         UNCHANGED <<connections_, exist, state_, pendingFunctors_, functors,
                     ran, aborted>>,
         \A c \in exist : state_[c] = "kDisconnected" => poller'.index[c] = kNew
  PROVE  ServerInv'
<1>1. Queues'
  BY DEF ServerInv, Queues
<1>2. \A c : Waiting(c)' <=> Waiting(c)
  BY DEF Waiting
<1>3. Lives'
  BY <1>2 DEF ServerInv, Lives
<1> QED
  BY <1>1, <1>3 DEF ServerInv

(* A mask is set for a channel of a connection that is not down, or for    *)
(* the Acceptor's.                                                         *)
LEMMA MaskStep ==
  ASSUME ServerInv, NEW ch \in Live, NEW mask \in SUBSET Events,
         ch \in exist => state_[ch] # "kDisconnected",
         poller' = setEvents(poller, ch, mask), exist' = exist
  PROVE  /\ Registration'
         /\ \A c \in exist : state_[c] = "kDisconnected" => poller'.index[c] = kNew
<1>1. Consistent(poller', Live) /\ RegisteredWith(poller, poller', ch, mask)
  BY ServerFacts, SetEventsConsistent
<1>2. Live' = Live
  BY DEF Live
<1>3. Registration'
  BY <1>1, <1>2, ServerFacts DEF Registration
<1>4. \A c \in exist : state_[c] = "kDisconnected" => poller'.index[c] = kNew
  BY <1>1, ServerFacts DEF RegisteredWith, ServerInv, Lives, Conns
<1> QED
  BY <1>3, <1>4

LEMMA Masks ==
  ASSUME ServerInv, NEW ch \in Channels
  PROVE  /\ poller.events[ch] \cup {"in"} \in SUBSET Events
         /\ poller.events[ch] \cup {"out"} \in SUBSET Events
         /\ poller.events[ch] \ {"out"} \in SUBSET Events
         /\ {} \in SUBSET Events
<1>1. poller.events[ch] \in SUBSET Events
  BY ServerFacts, PollerFields
<1> QED
  BY <1>1 DEF Events

-----------------------------------------------------------------------------
LEMMA StartStep == ServerInv /\ start => ServerInv'
<1> SUFFICES ASSUME ServerInv, start PROVE ServerInv'
  OBVIOUS
<1>1. /\ acceptChannel_ \in Live /\ acceptChannel_ \in Channels
      /\ acceptChannel_ \notin exist
  BY ServerFacts, ServerAssumption
<1>2. /\ poller' = setEvents(poller, acceptChannel_,
                            poller.events[acceptChannel_] \cup {"in"})
      /\ exist' = exist
  BY DEF start, Listen, enableReading
<1>3. /\ Registration'
      /\ \A c \in exist : state_[c] = "kDisconnected" => poller'.index[c] = kNew
  BY <1>1, <1>2, Masks, MaskStep
<1>4. TypeOK'
  BY DEF start, loopVars, kernelVars, ServerInv, TypeOK
<1>5. Phases'
  BY DEF start, loopVars, kernelVars, ServerInv, Phases, Live
<1> QED
  BY <1>3, <1>4, <1>5, OtherSteps DEF start, loopVars, kernelVars

(* Steps that leave the poller alone and touch only the loop's position or *)
(* the kernel's view of the peers.                                         *)
LEMMA PlainStep ==
  ASSUME ServerInv,
         \/ loop \/ handleReturn \/ clientConnects \/ \E c \in Conns : peerGoes(c)
  PROVE  ServerInv'
<1>1. TypeOK' /\ Phases'
  <2>1. CASE loop
    BY <2>1 DEF loop, kernelVars, ServerInv, TypeOK, Phases, Live
  <2>2. CASE handleReturn
    BY <2>2 DEF handleReturn, kernelVars, ServerInv, TypeOK, Phases, Live
  <2>3. CASE clientConnects
    BY <2>3 DEF clientConnects, loopVars, ServerInv, TypeOK, Phases, Live
  <2>4. CASE \E c \in Conns : peerGoes(c)
    BY <2>4 DEF peerGoes, loopVars, ServerInv, TypeOK, Phases, Live
  <2> QED
    BY <2>1, <2>2, <2>3, <2>4
<1>2. UNCHANGED <<poller, connections_, exist, state_, pendingFunctors_,
                  functors, ran, aborted>>
  BY DEF loop, handleReturn, clientConnects, peerGoes, loopVars, kernelVars
<1>3. Registration'
  BY <1>2 DEF ServerInv, Registration, Live
<1> QED
  BY <1>1, <1>2, <1>3, OtherSteps DEF ServerInv, Lives

(* poll() reports channels of connections that are in connections_: no     *)
(* connectDestroyed waits when the loop gets there, and a connection that  *)
(* is down has no channel in the kernel's set.                             *)
LEMMA PollStep == ServerInv /\ poll => ServerInv'
<1> SUFFICES ASSUME ServerInv, poll PROVE ServerInv'
  OBVIOUS
<1>1. PICK reported \in SUBSET
               {fd \in Fds : revents(poller, fd, SocketEvents(fd)) # {}} :
        /\ active' = {poller.interest[fd].ptr : fd \in reported}
        /\ poller' = [poller EXCEPT !.aborted = poller.aborted \/
                        \E fd \in reported : fillActive(poller, fd).aborted]
  BY DEF poll
<1>2. /\ pc = "poll" /\ pc' = "handle"
      /\ UNCHANGED <<listening_, connections_, state_, exist, held,
                 pendingFunctors_, functors, ran, handling, gone, aborted>>
  BY DEF poll, kernelVars
<1>3. \A fd \in reported : /\ fd \in DOMAIN poller.interest
                           /\ fillActive(poller, fd) = poller
                           /\ poller.interest[fd].ptr \in Live
  <2>1. \A fd \in reported : fd \in DOMAIN poller.interest
    BY DEF revents
  <2> QED
    BY <2>1, ServerFacts, FillConsistent
<1>4. poller' = poller
  <2>1. ~poller.aborted /\ poller.aborted \in BOOLEAN
    BY ServerFacts, PollerFields DEF Consistent
  <2>2. (\E fd \in reported : fillActive(poller, fd).aborted) = FALSE
    BY <1>3, <2>1
  <2>3. (poller.aborted \/ \E fd \in reported : fillActive(poller, fd).aborted)
          = poller.aborted
    BY <2>1, <2>2, Zenon
  <2>4. [poller EXCEPT !.aborted = poller.aborted] = poller
    BY ServerFacts DEF PollerStates
  <2> QED
    BY <1>1, <2>3, <2>4
<1>5. active' \subseteq connections_ \cup {acceptChannel_}
  <2> SUFFICES ASSUME NEW fd \in reported
               PROVE  poller.interest[fd].ptr \in connections_ \cup {acceptChannel_}
    BY <1>1
  <2> DEFINE ch == poller.interest[fd].ptr
  <2>1. ch \in Live /\ poller.index[ch] = kAdded
    BY <1>3, ServerFacts DEF Consistent, Watched
  <2> HIDE DEF ch
  <2>2. CASE ch \in exist
    <3>1. state_[ch] = "kConnected"
      BY <2>1, <2>2, ServerFacts DEF ServerInv, Lives, kNew, kAdded
    <3>2. pendingFunctors_ = << >> /\ functors = << >>
      BY <1>2 DEF ServerInv, Phases
    <3>3. ~Waiting(ch)
      BY <3>2 DEF Waiting
    <3> QED
      BY <2>2, <3>1, <3>3 DEF ServerInv, Lives, ch
  <2> QED
    BY <2>1, <2>2 DEF Live, ch
<1>6. Phases'
  BY <1>2, <1>5 DEF ServerInv, Phases, Live
<1>7. TypeOK'
  <2>1. active' \subseteq Channels
    BY <1>5, ServerFacts, ServerAssumption DEF Conns
  <2> QED
    BY <1>2, <2>1 DEF ServerInv, TypeOK
<1>8. Registration'
  BY <1>2, <1>4 DEF ServerInv, Registration, Live
<1> QED
  BY <1>2, <1>4, <1>6, <1>7, <1>8, OtherSteps DEF ServerInv, Lives

-----------------------------------------------------------------------------
LEMMA MessageStep ==
  ASSUME ServerInv, NEW c \in Conns, handleMessage(c)
  PROVE  ServerInv'
<1>1. /\ pc = "handle" /\ c \in active /\ active' = active \ {c} /\ handling' = c
      /\ UNCHANGED <<functors, ran, pc, listening_, connections_, state_, exist,
                     held, pendingFunctors_, gone, aborted>>
  BY DEF handleMessage, handleEvent, kernelVars
<1>2. c \in connections_ /\ c \in exist
  BY <1>1, ServerFacts DEF ServerInv, Phases
<1>3. state_[c] = "kConnected"
  BY <1>2 DEF ServerInv, Lives
<1>4. TypeOK'
  BY <1>1, ServerFacts DEF ServerInv, TypeOK, Conns
<1>5. Phases'
  BY <1>1, <1>2 DEF ServerInv, Phases, Live
<1>6. /\ Registration'
      /\ \A d \in exist : state_[d] = "kDisconnected" => poller'.index[d] = kNew
  <2>1. CASE \E d \in Sendable(c) : poller' = enableWriting(poller, d)
    <3>1. PICK d \in Sendable(c) : poller' = enableWriting(poller, d)
      BY <2>1
    <3>2. d \in exist /\ state_[d] = "kConnected"
      BY <1>2, ServerFacts DEF Sendable
    <3>3. d \in Live /\ d \in Channels
      BY <3>2, ServerFacts DEF Live
    <3>4. poller' = setEvents(poller, d, poller.events[d] \cup {"out"})
      BY <3>1 DEF enableWriting
    <3> QED
      BY <1>1, <3>2, <3>3, <3>4, Masks, MaskStep
  <2>2. CASE poller' = disableWriting(poller, c)
    <3>1. c \in Live /\ c \in Channels
      BY <1>2, ServerFacts DEF Live
    <3>2. poller' = setEvents(poller, c, poller.events[c] \ {"out"})
      BY <2>2 DEF disableWriting
    <3> QED
      BY <1>1, <1>3, <3>1, <3>2, Masks, MaskStep
  <2>3. CASE UNCHANGED poller
    BY <1>1, <2>3 DEF ServerInv, Registration, Lives, Live
  <2> QED
    BY <2>1, <2>2, <2>3 DEF handleMessage
<1> QED
  BY <1>1, <1>4, <1>5, <1>6, OtherSteps

(* handleRand: a connection is constructed on a descriptor no other has,   *)
(* so it is registered like the first, or accept(2) fails.                 *)
LEMMA AcceptStep == ServerInv /\ handleRand => ServerInv'
<1> SUFFICES ASSUME ServerInv, handleRand PROVE ServerInv'
  OBVIOUS
<1>1. /\ pc = "handle" /\ active' = active \ {acceptChannel_}
      /\ handling' = acceptChannel_
      /\ UNCHANGED <<functors, ran, pc, listening_, pendingFunctors_, gone,
                     aborted>>
  BY DEF handleRand, handleEvent
<1>2. CASE UNCHANGED <<exist, connections_, state_, poller, held, backlog>>
  <2>1. TypeOK'
    BY <1>1, <1>2, ServerAssumption DEF ServerInv, TypeOK
  <2>2. Phases'
    BY <1>1, <1>2 DEF ServerInv, Phases, Live
  <2>3. Registration'
    BY <1>2 DEF ServerInv, Registration, Live
  <2> QED
    BY <1>1, <1>2, <2>1, <2>2, <2>3, OtherSteps DEF ServerInv, Lives
<1>3. ASSUME NEW c \in FreeToAccept, newConnection(c) PROVE ServerInv'
  <2>1. /\ c \in Conns /\ c \in Channels /\ state_[c] = "none"
        /\ \A d \in exist : FdOf[d] # FdOf[c]
    BY DEF FreeToAccept, Conns
  <2>2. /\ exist' = exist \cup {c} /\ connections_' = connections_ \cup {c}
        /\ state_' = [state_ EXCEPT ![c] = "kConnected"]
        /\ held' \subseteq held \cup {c}
    BY <1>3 DEF newConnection
  <2>3. c \notin exist
    BY <2>1
  <2>4. \A d \in Live : FdOf[d] # FdOf[c]
    BY <2>1, ServerAssumption DEF Live, Conns
  <2>5. PICK p : p = construct(poller, c)
    OBVIOUS
  <2>6. /\ Consistent(p, Live \cup {c}) /\ OneChannelPerFd(Live \cup {c})
        /\ ConstructedIn(poller, p, c)
    <3>1. /\ Live \in SUBSET Channels /\ OneChannelPerFd(Live)
          /\ Consistent(poller, Live)
      BY ServerFacts
    <3>2. /\ OneChannelPerFd(Live \cup {c})
          /\ Consistent(construct(poller, c), Live \cup {c})
          /\ ConstructedIn(poller, construct(poller, c), c)
      BY <2>1, <2>4, <3>1, ConstructConsistent
    <3> QED
      BY <2>5, <3>2, Zenon
  <2>7. poller' = setEvents(p, c, p.events[c] \cup {"in"})
    BY <1>3, <2>5 DEF newConnection, enableReading
  <2>8. p.events[c] \cup {"in"} \in SUBSET Events
    BY <2>6 DEF Events, ConstructedIn
  <2>9. Live' = Live \cup {c} /\ Live \cup {c} \in SUBSET Channels
    BY <2>1, <2>2, ServerFacts DEF Live
  <2>10. /\ Consistent(poller', Live \cup {c})
         /\ RegisteredWith(p, poller', c, p.events[c] \cup {"in"})
    <3> DEFINE L == Live \cup {c}
    <3>1. /\ L \in SUBSET Channels /\ OneChannelPerFd(L) /\ Consistent(p, L)
          /\ c \in L
      BY <2>6, <2>9
    <3> HIDE DEF L
    <3>2. /\ Consistent(poller', L)
          /\ RegisteredWith(p, poller', c, p.events[c] \cup {"in"})
      BY <2>7, <2>8, <3>1, SetEventsConsistent
    <3> QED
      BY <3>2 DEF L
  <2>11. Registration'
    BY <2>6, <2>9, <2>10 DEF Registration
  <2>12. \A d \in exist : poller'.index[d] = poller.index[d]
    BY <2>3, <2>6, <2>10, ServerFacts
       DEF ConstructedIn, RegisteredWith, Conns
  <2>13. \A d : Waiting(d)' <=> Waiting(d)
    BY <1>1 DEF Waiting
  <2>14. ~Waiting(c)
    BY <2>3, ServerFacts DEF Waiting
  <2>15. \A d \in exist : state_'[d] = state_[d]
    BY <2>2, <2>3, ServerFacts
  <2>16. state_'[c] = "kConnected"
    BY <2>1, <2>2, ServerFacts
  <2>17. Lives'
    BY <2>2, <2>3, <2>12, <2>13, <2>14, <2>15, <2>16, ServerFacts
       DEF ServerInv, Lives
  <2>18. TypeOK'
    <3>1. state_' \in [Conns -> {"none", "kConnected", "kDisconnected"}]
      BY <2>1, <2>2, ServerFacts
    <3>2. InSeq(pendingFunctors_') \cup InSeq(functors') \subseteq exist'
      BY <1>1, <2>2, ServerFacts DEF InSeq
    <3>3. active' \subseteq Channels /\ handling' \in Channels
      BY <1>1, ServerFacts, ServerAssumption
    <3> QED
      BY <1>1, <2>1, <2>2, <3>1, <3>2, <3>3 DEF ServerInv, TypeOK
  <2>19. Phases'
    BY <1>1, <2>2 DEF ServerInv, Phases, Live
  <2>20. Queues'
    BY <1>1 DEF ServerInv, Queues
  <2> QED
    BY <1>1, <2>11, <2>17, <2>18, <2>19, <2>20 DEF ServerInv
<1> QED
  BY <1>2, <1>3 DEF handleRand

-----------------------------------------------------------------------------
(* handleClose_ and removeConnectionInLoop: the connection leaves          *)
(* connections_, which it was in, and its connectDestroyed waits.          *)
LEMMA CloseStep ==
  ASSUME ServerInv, NEW c \in Conns, handleClose_(c)
  PROVE  ServerInv'
<1>1. /\ pc = "handle" /\ c \in active /\ active' = active \ {c} /\ handling' = c
      /\ connections_' = connections_ \ {c}
      /\ pendingFunctors_' = Append(pendingFunctors_, c)
      /\ poller' = disableAll(poller, c)
      /\ aborted' = (aborted \/ state_[c] # "kConnected" \/ c \notin connections_)
      /\ UNCHANGED <<functors, ran, pc, listening_, state_, exist, held, gone>>
  BY DEF handleClose_, handleEvent, removeConnectionInLoop, erased, kernelVars
<1>2. c \in connections_ /\ c \in exist /\ c \in Live /\ c \in Channels
  BY <1>1, ServerFacts DEF ServerInv, Phases, Live
<1>3. state_[c] = "kConnected" /\ ~Waiting(c)
  BY <1>2 DEF ServerInv, Lives
<1>4. aborted' = FALSE
  BY <1>1, <1>2, <1>3, ServerFacts, Zenon
<1>5. pendingFunctors_ \in Seq(Conns) /\ NoRepeat(pendingFunctors_)
  BY DEF ServerInv, Queues
<1>6. /\ pendingFunctors_' \in Seq(Conns)
      /\ Len(pendingFunctors_') = Len(pendingFunctors_) + 1
      /\ pendingFunctors_'[Len(pendingFunctors_) + 1] = c
      /\ \A i \in 1..Len(pendingFunctors_) : pendingFunctors_'[i] = pendingFunctors_[i]
      /\ Len(pendingFunctors_) \in Nat
  BY <1>1, <1>5
<1>7. \A i \in 1..Len(pendingFunctors_) : pendingFunctors_[i] # c
  BY <1>3 DEF Waiting
<1>8. NoRepeat(pendingFunctors_')
  BY <1>5, <1>6, <1>7 DEF NoRepeat
<1>9. \A d : Waiting(d)' <=> Waiting(d) \/ d = c
  BY <1>1, <1>6 DEF Waiting
<1>10. /\ Registration'
       /\ \A d \in exist : state_[d] = "kDisconnected" => poller'.index[d] = kNew
  <2>1. poller' = setEvents(poller, c, {})
    BY <1>1 DEF disableAll
  <2> QED
    BY <1>1, <1>2, <1>3, <2>1, Masks, MaskStep
<1>11. Lives'
  BY <1>1, <1>2, <1>3, <1>9, <1>10 DEF ServerInv, Lives
<1>12. Queues'
  BY <1>1, <1>6, <1>8 DEF ServerInv, Queues
<1>13. Phases'
  BY <1>1, <1>2 DEF ServerInv, Phases, Live
<1>14. TypeOK'
  <2>1. InSeq(pendingFunctors_') \cup InSeq(functors') \subseteq exist'
    BY <1>1, <1>2, <1>6, ServerFacts DEF InSeq
  <2>2. active' \subseteq Channels /\ handling' \in Channels
    BY <1>1, <1>2, ServerFacts
  <2>3. aborted' \in BOOLEAN /\ listening_' \in BOOLEAN
    BY <1>1, <1>4, ServerFacts, Zenon
  <2> QED
    BY <1>1, <2>1, <2>2, <2>3 DEF ServerInv, TypeOK
<1> QED
  BY <1>4, <1>10, <1>11, <1>12, <1>13, <1>14 DEF ServerInv

LEMMA SwapStep == ServerInv /\ doPendingFunctors => ServerInv'
<1> SUFFICES ASSUME ServerInv, doPendingFunctors PROVE ServerInv'
  OBVIOUS
<1>1. /\ pc = "handle" /\ active = {} /\ handling = None
      /\ functors' = pendingFunctors_ /\ ran' = 0
      /\ pendingFunctors_' = << >> /\ pc' = "functors"
      /\ UNCHANGED <<poller, listening_, connections_, state_, exist, held,
                     active, handling, gone, aborted>>
  BY DEF doPendingFunctors, kernelVars
<1>2. functors = << >> /\ pendingFunctors_ \in Seq(Conns)
  BY <1>1 DEF ServerInv, Phases, Queues
<1>3. Len(pendingFunctors_) \in Nat
  BY <1>2
<1>4. \A d : Waiting(d)' <=> Waiting(d)
  BY <1>1, <1>2, <1>3 DEF Waiting
<1>5. Lives'
  BY <1>1, <1>4 DEF ServerInv, Lives
<1>6. Queues'
  BY <1>1, <1>3 DEF ServerInv, Queues, NoRepeat
<1>7. Phases'
  BY <1>1 DEF ServerInv, Phases, Live
<1>8. TypeOK'
  <2>1. InSeq(pendingFunctors_') \cup InSeq(functors') \subseteq exist'
    BY <1>1, ServerFacts DEF InSeq
  <2> QED
    BY <1>1, <2>1 DEF ServerInv, TypeOK
<1>9. Registration'
  BY <1>1 DEF ServerInv, Registration, Live
<1> QED
  BY <1>1, <1>5, <1>6, <1>7, <1>8, <1>9 DEF ServerInv

(* connectDestroyed finds the connection kConnected, and leaves its        *)
(* channel unregistered whatever user code did to it in the meantime.      *)
LEMMA DestroyedStep == ServerInv /\ runConnectDestroyed => ServerInv'
<1> SUFFICES ASSUME ServerInv, runConnectDestroyed PROVE ServerInv'
  OBVIOUS
<1>1. PICK c : c = functors[ran + 1]
  OBVIOUS
<1>2. /\ pc = "functors" /\ ran < Len(functors) /\ ran' = ran + 1
      /\ aborted' = (aborted \/ state_[c] # "kConnected")
      /\ state_' = [state_ EXCEPT ![c] = "kDisconnected"]
      /\ poller' = removeChannel(disableAll(poller, c), c)
      /\ held' \subseteq held
      /\ UNCHANGED <<listening_, connections_, exist, pendingFunctors_, functors,
                     pc, active, handling, gone>>
  BY <1>1 DEF runConnectDestroyed, connectDestroyed, kernelVars
<1>3. /\ functors \in Seq(Conns) /\ ran \in 0..Len(functors)
      /\ NoRepeat(functors) /\ pendingFunctors_ = << >>
      /\ Len(functors) \in Nat
  BY <1>2 DEF ServerInv, Queues, Phases
<1>4. ran + 1 \in 1..Len(functors) /\ ran + 1 > ran
  BY <1>2, <1>3
<1>5. /\ c \in exist /\ c \in Live /\ c \in Channels /\ c \in Conns
      /\ Waiting(c)
  BY <1>1, <1>4, ServerFacts DEF Waiting, Live
<1>6. state_[c] = "kConnected" /\ c \notin connections_
  BY <1>5 DEF ServerInv, Lives
<1>7. aborted' = FALSE
  BY <1>2, <1>6, ServerFacts, Zenon
<1>8. \A d : Waiting(d)' <=> Waiting(d) /\ d # c
  <2> SUFFICES ASSUME NEW d PROVE Waiting(d)' <=> Waiting(d) /\ d # c
    OBVIOUS
  <2>1. Waiting(d) <=> \E i \in 1..Len(functors) : i > ran /\ functors[i] = d
    BY <1>3 DEF Waiting
  <2>2. Waiting(d)' <=> \E i \in 1..Len(functors) : i > ran + 1 /\ functors[i] = d
    BY <1>2, <1>3 DEF Waiting
  <2>3. \A i \in 1..Len(functors) : functors[i] = c => i = ran + 1
    BY <1>1, <1>3, <1>4 DEF NoRepeat
  <2>4. \A i \in 1..Len(functors) : i > ran + 1 <=> i > ran /\ i # ran + 1
    BY <1>3
  <2> QED
    BY <1>1, <2>1, <2>2, <2>3, <2>4
<1>9. PICK p : p = setEvents(poller, c, {})
  OBVIOUS
<1>10. Consistent(p, Live) /\ RegisteredWith(poller, p, c, {})
  BY <1>5, <1>9, Masks, ServerFacts, SetEventsConsistent
<1>11. p.events[c] = {} /\ p.index[c] # kNew
  BY <1>5, <1>10, ServerFacts, PollerFields DEF RegisteredWith
<1>12. poller' = removeChannel(p, c)
  BY <1>2, <1>9 DEF disableAll
<1>13. Consistent(poller', Live) /\ UnregisteredFrom(p, poller', c)
  BY <1>5, <1>10, <1>11, <1>12, ServerFacts, RemoveConsistent
<1>14. Registration'
  BY <1>2, <1>13, ServerFacts DEF Registration, Live
<1>15. /\ poller'.index[c] = kNew
       /\ \A d \in exist : d # c => poller'.index[d] = poller.index[d]
  <2>1. p \in PollerStates
    BY <1>10 DEF Consistent
  <2> QED
    BY <1>5, <1>10, <1>13, <2>1, ServerFacts, PollerFields
       DEF RegisteredWith, UnregisteredFrom, Conns
<1>16. /\ state_'[c] = "kDisconnected"
       /\ \A d \in exist : d # c => state_'[d] = state_[d]
       /\ state_' \in [Conns -> {"none", "kConnected", "kDisconnected"}]
  BY <1>2, <1>5, ServerFacts
<1>17. Lives'
  BY <1>2, <1>6, <1>8, <1>15, <1>16, ServerFacts DEF ServerInv, Lives
<1>18. Queues'
  BY <1>2, <1>3, <1>4 DEF ServerInv, Queues
<1>19. Phases'
  BY <1>2 DEF ServerInv, Phases, Live
<1>20. TypeOK'
  <2>1. aborted' \in BOOLEAN
    BY <1>7, Zenon
  <2> QED
    BY <1>2, <1>16, <2>1 DEF ServerInv, TypeOK
<1> QED
  BY <1>7, <1>14, <1>17, <1>18, <1>19, <1>20 DEF ServerInv

(* The last pointer to some connections goes: they are down, so closing    *)
(* their descriptors takes nothing out of the kernel's set.                *)
LEMMA Destructed ==
  ASSUME ServerInv, NEW users, destruct(poller, users),
         \A c \in exist \ users : c \notin connections_ /\ ~Waiting(c)
  PROVE  /\ exist' = exist \cap users /\ poller' = poller
         /\ Registration'
<1> DEFINE X == exist \ users
<1>1. X \in SUBSET Live /\ \A c \in X : poller.index[c] = kNew
  BY ServerFacts DEF ServerInv, Lives, Live
<1>2. exist' = exist \cap users
  BY DEF destruct
<1>3. Live' = Live \ X
  BY <1>2, ServerFacts DEF Live
<1>4. poller' = [poller EXCEPT !.interest =
                   [fd \in DOMAIN @ \ {FdOf[c] : c \in X} |-> @[fd]]]
  BY DEF destruct
<1> HIDE DEF X
<1>5. OneChannelPerFd(Live \ X) /\ Consistent(poller, Live \ X)
  BY <1>1, ServerFacts, DestroyAllConsistent
<1>6. [poller EXCEPT !.interest =
         [fd \in DOMAIN @ \ {FdOf[c] : c \in X} |-> @[fd]]] = poller
  BY <1>1, ServerFacts, DestroyAllConsistent
<1>7. poller' = poller
  BY <1>4, <1>6
<1> QED
  BY <1>2, <1>3, <1>5, <1>7 DEF Registration

LEMMA EndStep == ServerInv /\ endFunctors => ServerInv'
<1> SUFFICES ASSUME ServerInv, endFunctors PROVE ServerInv'
  OBVIOUS
<1> DEFINE users == connections_ \cup held \cup Owned(pendingFunctors_)
<1>1. /\ pc = "functors" /\ ran = Len(functors) /\ destruct(poller, users)
      /\ functors' = << >> /\ ran' = 0 /\ pc' = "poll"
      /\ UNCHANGED <<listening_, connections_, state_, held, pendingFunctors_,
                     active, handling, gone, aborted>>
  BY DEF endFunctors, kernelVars
<1>2. /\ pendingFunctors_ = << >> /\ active = {} /\ handling = None
      /\ functors \in Seq(Conns)
  BY <1>1 DEF ServerInv, Phases, Queues
<1>3. \A d : ~Waiting(d)
  <2>1. Len(functors) \in Nat
    BY <1>2
  <2>2. \A i \in 1..Len(functors) : ~(i > ran)
    BY <1>1, <2>1
  <2> QED
    BY <1>2, <2>2 DEF Waiting
<1>4. connections_ \subseteq users /\ held \subseteq users
  OBVIOUS
<1> HIDE DEF users
<1>5. exist' = exist \cap users /\ poller' = poller /\ Registration'
  BY <1>1, <1>3, <1>4, Destructed
<1>6. \A d : ~Waiting(d)'
  BY <1>1, <1>2 DEF Waiting
<1>7. Lives'
  BY <1>1, <1>3, <1>5, <1>6 DEF ServerInv, Lives
<1>8. Queues'
  BY <1>1, <1>2 DEF ServerInv, Queues, NoRepeat
<1>9. Phases'
  BY <1>1, <1>2 DEF ServerInv, Phases, Live
<1>10. TypeOK'
  <2>1. InSeq(pendingFunctors_') \cup InSeq(functors') \subseteq exist'
    BY <1>1, <1>2 DEF InSeq
  <2>2. connections_' \subseteq exist' /\ held' \subseteq exist' /\ exist' \subseteq Conns
    BY <1>1, <1>4, <1>5, ServerFacts
  <2> QED
    BY <1>1, <2>1, <2>2 DEF ServerInv, TypeOK
<1> QED
  BY <1>1, <1>5, <1>7, <1>8, <1>9, <1>10 DEF ServerInv

LEMMA DropStep ==
  ASSUME ServerInv, NEW c \in Conns, userDrops(c)
  PROVE  ServerInv'
<1> DEFINE users == connections_ \cup held' \cup {handling}
                      \cup Owned(pendingFunctors_) \cup Owned(functors)
<1>1. /\ held' = held \ {c} /\ destruct(poller, users)
      /\ UNCHANGED <<listening_, connections_, state_, pendingFunctors_,
                     functors, ran, pc, active, handling, gone, aborted>>
  BY DEF userDrops, loopVars, kernelVars
<1>2. /\ connections_ \subseteq users /\ held' \subseteq users
      /\ handling \in users
      /\ InSeq(pendingFunctors_) \subseteq users /\ InSeq(functors) \subseteq users
  BY DEF Owned
<1> HIDE DEF users
<1>3. \A d : Waiting(d) => d \in users
  BY <1>2 DEF Waiting, InSeq
<1>4. exist' = exist \cap users /\ poller' = poller /\ Registration'
  BY <1>1, <1>2, <1>3, Destructed
<1>5. \A d : Waiting(d)' <=> Waiting(d)
  BY <1>1 DEF Waiting
<1>6. Lives'
  BY <1>1, <1>4, <1>5 DEF ServerInv, Lives
<1>7. Queues'
  BY <1>1 DEF ServerInv, Queues
<1>8. Phases'
  BY <1>1, <1>2, <1>4 DEF ServerInv, Phases, Live
<1>9. TypeOK'
  <2>1. InSeq(pendingFunctors_') \cup InSeq(functors') \subseteq exist'
    BY <1>1, <1>2, <1>4 DEF ServerInv, TypeOK
  <2>2. connections_' \subseteq exist' /\ held' \subseteq exist' /\ exist' \subseteq Conns
    BY <1>1, <1>2, <1>4, ServerFacts
  <2> QED
    BY <1>1, <2>1, <2>2 DEF ServerInv, TypeOK
<1> QED
  BY <1>1, <1>4, <1>6, <1>7, <1>8, <1>9 DEF ServerInv

-----------------------------------------------------------------------------
LEMMA ServerNext == ServerInv /\ [Next]_vars => ServerInv'
<1> SUFFICES ASSUME ServerInv, [Next]_vars PROVE ServerInv'
  OBVIOUS
<1>1. CASE start
  BY <1>1, StartStep
<1>2. CASE loop \/ handleReturn \/ clientConnects \/ \E c \in Conns : peerGoes(c)
  BY <1>2, PlainStep
<1>3. CASE poll
  BY <1>3, PollStep
<1>4. CASE handleRand
  BY <1>4, AcceptStep
<1>5. ASSUME NEW c \in Conns, handleClose_(c) PROVE ServerInv'
  BY <1>5, CloseStep
<1>6. ASSUME NEW c \in Conns, handleMessage(c) PROVE ServerInv'
  BY <1>6, MessageStep
<1>7. CASE doPendingFunctors
  BY <1>7, SwapStep
<1>8. CASE runConnectDestroyed
  BY <1>8, DestroyedStep
<1>9. CASE endFunctors
  BY <1>9, EndStep
<1>10. ASSUME NEW c \in Conns, userDrops(c) PROVE ServerInv'
  BY <1>10, DropStep
<1>11. CASE UNCHANGED vars
  <2>1. UNCHANGED <<poller, connections_, exist, state_, pendingFunctors_,
                    functors, ran, aborted>>
    BY <1>11 DEF vars, loopVars
  <2>2. TypeOK' /\ Phases' /\ Registration'
    BY <1>11 DEF vars, loopVars, kernelVars, ServerInv, TypeOK, Phases,
                 Registration, Live
  <2> QED
    BY <2>1, <2>2, OtherSteps DEF ServerInv, Lives
<1> QED
  BY <1>1, <1>2, <1>3, <1>4, <1>5, <1>6, <1>7, <1>8, <1>9, <1>10, <1>11
     DEF Next, LoopStep

LEMMA ServerInvariant == Spec => []ServerInv
  BY ServerInit, ServerNext, PTL DEF Spec

(* Types, and connections_, the queues and user code point only to         *)
(* connections that exist, for any number of connections (TcpServer.h,     *)
(* TcpServer.cpp:35-80).                                                   *)
THEOREM ServerTypeCorrect == Spec => []TypeOK
<1>1. ServerInv => TypeOK
  BY DEF ServerInv
<1> QED
  BY <1>1, ServerInvariant, PTL

(* TcpServer and TcpConnection keep to what EPoller asks of its callers:   *)
(* no assert of handleClose_, removeConnectionInLoop, connectDestroyed or  *)
(* EPoller and no epoll_ctl fails, however descriptors are used again and  *)
(* whatever pointers user code keeps, sends to and drops                   *)
(* (TcpServer.cpp:35-80, TcpConnection.cpp:71-105).                        *)
THEOREM ServerNeverFails == Spec => []NoFailure
<1>1. ServerInv => NoFailure
  BY DEF ServerInv, Registration, Consistent, NoFailure
<1> QED
  BY <1>1, ServerInvariant, PTL

(* No channel is destroyed while activeChannels_, the running              *)
(* handleEvent(), channels_ or the kernel points to it: the pointer bound  *)
(* into the queued connectDestroyed outlives them all.                     *)
THEOREM ServerNeverDangles == Spec => []NoDanglingChannel
<1>1. ServerInv => NoDanglingChannel
  <2> SUFFICES ASSUME ServerInv PROVE NoDanglingChannel
    OBVIOUS
  <2>1. active \subseteq Live /\ {handling} \ {None} \subseteq Live
    BY ServerFacts DEF ServerInv, Phases, Live
  <2>2. {poller.channels[fd] : fd \in DOMAIN poller.channels} \subseteq Live
    BY ServerFacts DEF Consistent, Filed
  <2>3. {poller.interest[fd].ptr : fd \in DOMAIN poller.interest} \subseteq Live
    BY ServerFacts DEF Consistent, Watched
  <2> QED
    BY <2>1, <2>2, <2>3 DEF NoDanglingChannel, Live
<1> QED
  BY <1>1, ServerInvariant, PTL
=============================================================================
