------------------------ MODULE TcpConnectionProofs ------------------------
(***************************************************************************)
(* TcpConnection for any messages of any length, any send buffer and any   *)
(* number of chunks from the peer.                                         *)
(***************************************************************************)
EXTENDS TcpConnection, EpollProofs, SequenceTheorems, TLAPS

Byte == Messages \X Nat

Functors ==
  [call : {"writeComplete", "connectDestroyed", "shutdownInLoop"}]
    \cup [call : {"sendInLoop"}, message : Messages]

Others ==
  [op : {"idle", "shutdown", "queueShutdown"}] \cup [op : {"send"}, message : OtherMessages]

(* A functor of this kind is in the queue s. *)
Has(s, call) == \E i \in 1..Len(s) : s[i].call = call

Queued(call) == Has(pendingFunctors_, call) \/ Has(functors, call)

AtMostOne(s, call) ==
  \A i, j \in 1..Len(s) : s[i].call = call /\ s[j].call = call => i = j

Types ==
  /\ TypeOK
  /\ sent \in Seq(Byte) /\ outputBuffer_ \in Seq(Byte) /\ accepted \in Seq(Byte)
  /\ pendingFunctors_ \in Seq(Functors) /\ functors \in Seq(Functors)
  /\ other \in Others
  /\ said \subseteq Messages
  /\ closed \in BOOLEAN /\ late \in BOOLEAN

Phases ==
  /\ pc = "start" <=> state_ = "kConnecting"
  /\ pc = "start" => other = Idle /\ ~closed
  /\ pc \in {"start", "connected", "poll", "handle", "message"} => functors = << >>
  /\ pc \notin {"handle", "message"} => ~Has(pendingFunctors_, "connectDestroyed")
  /\ "close" \in todo => "read" \notin todo

(* While connectDestroyed's callback runs, the channel is disabled but     *)
(* still registered, and nothing enables it.                               *)
Registration ==
  /\ Consistent(poller, {channel_})
  /\ pc = "disconnected" => /\ poller.events[channel_] = {}
                            /\ poller.index[channel_] # kNew
                            /\ state_ # "kConnected"

(* Bytes are queued while the channel waits for POLLOUT. *)
Backlog == ~closed => (Writing <=> outputBuffer_ # << >>)

(* No shutdown has begun. *)
NoShutdownYet ==
  state_ \in {"kConnecting", "kConnected"} =>
    ~finSent /\ ~Queued("shutdownInLoop") /\ other.op # "queueShutdown"

(* All bytes of m are in stream s. *)
Contains(s, m) == \A k \in 1..Length[m] : \E i \in 1..Len(s) : s[i] = <<m, k>>

Promises ==
  /\ promised \subseteq said \ OtherMessages
  /\ \A m \in said \ OtherMessages : Contains(accepted, m)
  /\ finSent /\ ~closed => \A m \in promised : Contains(sent, m)

(* The end of the connection: handleClose_ queues connectDestroyed once,   *)
(* it takes state_ down and then the channel out of the poller, so that no *)
(* poll() brings a second handleClose_, until a late message of the second *)
(* thread registers the channel again.                                     *)
Closing ==
  /\ Queued("connectDestroyed") => closed
  /\ state_ = "kDisconnected" => closed
  /\ pc = "disconnected" => closed

Orderly ==
  /\ ~aborted
  /\ todo \cap {"close", "read"} # {} => ~closed
  /\ AtMostOne(pendingFunctors_, "connectDestroyed")
  /\ AtMostOne(functors, "connectDestroyed")
  /\ Queued("connectDestroyed") => state_ # "kDisconnected" /\ pc # "disconnected"
  /\ closed /\ ~Queued("connectDestroyed") =>
       /\ state_ # "kConnected"
       /\ pc = "disconnected" \/ poller.index[channel_] = kNew

Ending == Closing /\ (~late => Orderly)

ConnInv ==
  /\ Types /\ Phases /\ Registration /\ StreamIntact /\ Backlog
  /\ NoShutdownYet /\ Promises /\ Ending

-----------------------------------------------------------------------------
(***************************************************************************)
(* Queues of functors.                                                     *)
(***************************************************************************)
LEMMA EmptyQueue ==
  ASSUME NEW call
  PROVE  ~Has(<< >>, call) /\ AtMostOne(<< >>, call)
  BY DEF Has, AtMostOne

LEMMA AppendQueue ==
  ASSUME NEW s \in Seq(Functors), NEW f \in Functors, NEW call
  PROVE  /\ Append(s, f) \in Seq(Functors)
         /\ Has(Append(s, f), call) <=> Has(s, call) \/ f.call = call
         /\ AtMostOne(s, call) /\ (f.call = call => ~Has(s, call))
              => AtMostOne(Append(s, f), call)
<1>1. /\ Append(s, f) \in Seq(Functors)
      /\ Len(Append(s, f)) = Len(s) + 1 /\ Len(s) \in Nat
      /\ \A i \in 1..Len(s) : Append(s, f)[i] = s[i]
      /\ Append(s, f)[Len(s) + 1] = f
  BY AppendProperties
<1>2. \A i \in 1..(Len(s) + 1) : i \in 1..Len(s) \/ i = Len(s) + 1
  BY <1>1
<1>3. Has(Append(s, f), call) <=> Has(s, call) \/ f.call = call
  BY <1>1, <1>2 DEF Has
<1>4. ASSUME AtMostOne(s, call), f.call = call => ~Has(s, call)
      PROVE  AtMostOne(Append(s, f), call)
  BY <1>1, <1>2, <1>4 DEF AtMostOne, Has
<1> QED
  BY <1>1, <1>3, <1>4

LEMMA TailQueue ==
  ASSUME NEW s \in Seq(Functors), s # << >>, NEW call
  PROVE  /\ Tail(s) \in Seq(Functors) /\ Head(s) \in Functors
         /\ Has(s, call) <=> Head(s).call = call \/ Has(Tail(s), call)
         /\ AtMostOne(s, call) => /\ AtMostOne(Tail(s), call)
                                  /\ Head(s).call = call => ~Has(Tail(s), call)
<1>1. /\ Tail(s) \in Seq(Functors) /\ Head(s) \in Functors /\ Head(s) = s[1]
      /\ Len(Tail(s)) = Len(s) - 1 /\ Len(s) \in Nat /\ Len(s) > 0
      /\ \A i \in 1..Len(Tail(s)) : Tail(s)[i] = s[i + 1]
  BY HeadTailProperties
<1>2. \A i \in 1..Len(s) : i = 1 \/ i - 1 \in 1..Len(Tail(s))
  BY <1>1
<1>3. \A i \in 1..Len(Tail(s)) : i + 1 \in 1..Len(s) /\ i + 1 # 1
  BY <1>1
<1>4. 1 \in 1..Len(s)
  BY <1>1
<1>5. Has(s, call) <=> Head(s).call = call \/ Has(Tail(s), call)
  <2>1. ASSUME NEW i \in 1..Len(s), s[i].call = call
        PROVE  Head(s).call = call \/ Has(Tail(s), call)
    <3>1. CASE i = 1
      BY <1>1, <2>1, <3>1
    <3>2. CASE i # 1
      <4>1. i - 1 \in 1..Len(Tail(s)) /\ (i - 1) + 1 = i
        BY <1>2, <3>2
      <4>2. Tail(s)[i - 1] = s[i]
        BY <1>1, <4>1
      <4> QED
        BY <2>1, <4>1, <4>2 DEF Has
    <3> QED
      BY <3>1, <3>2
  <2>2. Head(s).call = call \/ Has(Tail(s), call) => Has(s, call)
    BY <1>1, <1>3, <1>4 DEF Has
  <2> QED
    BY <2>1, <2>2 DEF Has
<1>6. ASSUME AtMostOne(s, call)
      PROVE  /\ AtMostOne(Tail(s), call)
             /\ Head(s).call = call => ~Has(Tail(s), call)
  <2>1. AtMostOne(Tail(s), call)
    <3> SUFFICES ASSUME NEW i \in 1..Len(Tail(s)), NEW j \in 1..Len(Tail(s)),
                        Tail(s)[i].call = call, Tail(s)[j].call = call
                 PROVE  i = j
      BY DEF AtMostOne
    <3>1. s[i + 1].call = call /\ s[j + 1].call = call
      BY <1>1
    <3>2. i + 1 = j + 1
      BY <1>3, <1>6, <3>1 DEF AtMostOne
    <3> QED
      BY <3>2
  <2>2. Head(s).call = call => ~Has(Tail(s), call)
    BY <1>1, <1>3, <1>4, <1>6 DEF AtMostOne, Has
  <2> QED
    BY <2>1, <2>2
<1> QED
  BY <1>1, <1>5, <1>6

(***************************************************************************)
(* Streams of bytes.                                                       *)
(***************************************************************************)
LEMMA BytesIsSeq ==
  ASSUME NEW m \in Messages
  PROVE  /\ Bytes(m) \in Seq(Byte) /\ Len(Bytes(m)) = Length[m]
         /\ Length[m] \in Nat
         /\ \A k \in 1..Length[m] : Bytes(m)[k] = <<m, k>>
<1>1. Length[m] \in Nat
  BY LengthAssumption
<1>2. \A k \in 1..Length[m] : <<m, k>> \in Byte
  BY <1>1 DEF Byte
<1>3. Bytes(m) \in [1..Length[m] -> Byte]
  BY <1>2 DEF Bytes
<1>4. Bytes(m) \in Seq(Byte)
  BY <1>1, <1>3, SeqDef
<1>5. Len(Bytes(m)) = Length[m]
  BY <1>1, <1>3, <1>4, LenProperties
<1> QED
  BY <1>1, <1>4, <1>5 DEF Bytes

(* A write of the first n bytes leaves the others. *)
LEMMA SplitStream ==
  ASSUME NEW s \in Seq(Byte), NEW n \in 0..Len(s)
  PROVE  /\ SubSeq(s, 1, n) \in Seq(Byte) /\ SubSeq(s, n + 1, Len(s)) \in Seq(Byte)
         /\ SubSeq(s, 1, n) \o SubSeq(s, n + 1, Len(s)) = s
         /\ SubSeq(s, n + 1, Len(s)) = << >> <=> n = Len(s)
<1>1. Len(s) \in Nat /\ \A i \in 1..Len(s) : s[i] \in Byte
  BY ElementOfSeq
<1>2. n \in Nat /\ n <= Len(s)
  BY <1>1
<1>3. SubSeq(s, 1, n) \in Seq(Byte)
  BY <1>1, <1>2, SubSeqProperties
<1>4. /\ SubSeq(s, n + 1, Len(s)) \in Seq(Byte)
      /\ Len(SubSeq(s, n + 1, Len(s))) = Len(s) - n
  <2>1. \A i \in (n + 1)..Len(s) : s[i] \in Byte
    BY <1>1, <1>2
  <2>2. /\ SubSeq(s, n + 1, Len(s)) \in Seq(Byte)
        /\ Len(SubSeq(s, n + 1, Len(s))) =
             IF n + 1 <= Len(s) THEN Len(s) - (n + 1) + 1 ELSE 0
    BY <1>1, <1>2, <2>1, SubSeqProperties
  <2>3. CASE n + 1 <= Len(s)
    BY <1>1, <1>2, <2>2, <2>3
  <2>4. CASE n = Len(s)
    BY <1>1, <1>2, <2>2, <2>4
  <2> QED
    BY <1>1, <1>2, <2>3, <2>4
<1>5. SubSeq(s, 1, n) \o SubSeq(s, n + 1, Len(s)) = s
  <2>1. /\ 1 \in 1..(Len(s) + 1) /\ n \in (1 - 1)..Len(s)
        /\ Len(s) \in n..Len(s)
    BY <1>1, <1>2
  <2>2. SubSeq(s, 1, n) \o SubSeq(s, n + 1, Len(s)) = SubSeq(s, 1, Len(s))
    BY <2>1, ConcatAdjacentSubSeq, Zenon
  <2> QED
    BY <2>2, SubSeqFull
<1>6. SubSeq(s, n + 1, Len(s)) = << >> <=> n = Len(s)
  <2>1. PICK b \in Seq(Byte) : b = SubSeq(s, n + 1, Len(s))
    BY <1>4
  <2>2. Len(b) = Len(s) - n
    BY <1>4, <2>1
  <2>3. b = << >> <=> Len(b) = 0
    BY EmptySeq
  <2>4. b = << >> <=> n = Len(s)
    BY <1>1, <1>2, <2>2, <2>3
  <2> QED
    BY <2>1, <2>4, Zenon
<1> QED
  BY <1>3, <1>4, <1>5, <1>6

LEMMA JoinStreams ==
  ASSUME NEW s \in Seq(Byte), NEW t \in Seq(Byte), NEW u \in Seq(Byte)
  PROVE  (s \o t) \o u = s \o (t \o u)
  BY ConcatAssociative

(* A longer stream contains what a part of it contains. *)
LEMMA ContainsPart ==
  ASSUME NEW s \in Seq(Byte), NEW t \in Seq(Byte), NEW m,
         Contains(s, m) \/ Contains(t, m)
  PROVE  Contains(s \o t, m)
<1>1. /\ Len(s \o t) = Len(s) + Len(t) /\ Len(s) \in Nat /\ Len(t) \in Nat
      /\ \A i \in 1..(Len(s) + Len(t)) :
           (s \o t)[i] = IF i <= Len(s) THEN s[i] ELSE t[i - Len(s)]
  BY ConcatProperties
<1>2. ASSUME NEW i \in 1..Len(s)
      PROVE  i \in 1..Len(s \o t) /\ (s \o t)[i] = s[i]
  BY <1>1
<1>3. ASSUME NEW i \in 1..Len(t)
      PROVE  i + Len(s) \in 1..Len(s \o t) /\ (s \o t)[i + Len(s)] = t[i]
  <2>1. /\ i + Len(s) \in 1..(Len(s) + Len(t)) /\ ~(i + Len(s) <= Len(s))
        /\ (i + Len(s)) - Len(s) = i
    BY <1>1
  <2> QED
    BY <1>1, <2>1
<1> QED
  BY <1>2, <1>3 DEF Contains

-----------------------------------------------------------------------------
LEMMA ConnInit == Init => ConnInv
<1> SUFFICES ASSUME Init PROVE ConnInv
  OBVIOUS
<1>1. /\ state_ = "kConnecting" /\ poller = EmptyPoller /\ outputBuffer_ = << >>
      /\ pendingFunctors_ = << >> /\ functors = << >> /\ pc = "start" /\ todo = {}
      /\ other = Idle /\ sent = << >> /\ space = SendSpace
      /\ unread = 0 /\ chunks = 0 /\ peer = "open" /\ soError = FALSE
      /\ finSent = FALSE /\ aborted = FALSE /\ accepted = << >> /\ said = {}
      /\ closed = FALSE /\ late = FALSE /\ promised = {}
  BY DEF Init
<1>2. /\ << >> \in Seq(Byte) /\ << >> \in Seq(Functors) /\ Len(<< >>) = 0
      /\ << >> \o << >> = << >>
  OBVIOUS
<1>3. SendSpace \in Nat /\ SendSpace \in 0..SendSpace
  BY LengthAssumption
<1>4. Types
  <2>1. /\ soError \in BOOLEAN /\ finSent \in BOOLEAN /\ aborted \in BOOLEAN
        /\ closed \in BOOLEAN /\ late \in BOOLEAN
    BY <1>1, Zenon
  <2>2. other \in Others
    BY <1>1 DEF Others, Idle
  <2> QED
    BY <1>1, <1>2, <1>3, <2>1, <2>2 DEF Types, TypeOK
<1>5. Registration
  BY <1>1, ChannelAssumption, EmptyConsistent DEF Registration
<1>6. \A call : ~Queued(call) /\ ~Has(pendingFunctors_, call)
  BY <1>1, EmptyQueue DEF Queued
<1>7. Phases
  BY <1>1, <1>6 DEF Phases
<1>8. StreamIntact
  BY <1>1, <1>2 DEF StreamIntact
<1>9. Backlog
  <2>1. poller.events[channel_] = {}
    BY <1>1, ChannelAssumption DEF EmptyPoller
  <2> QED
    BY <1>1, <2>1 DEF Backlog, Writing, isWriting
<1>10. NoShutdownYet
  BY <1>1, <1>6 DEF NoShutdownYet, Idle
<1>11. Promises
  BY <1>1 DEF Promises
<1>12. Ending
  BY <1>1, <1>6, EmptyQueue DEF Ending, Closing, Orderly
<1> QED
  BY <1>4, <1>5, <1>7, <1>8, <1>9, <1>10, <1>11, <1>12 DEF ConnInv

LEMMA ConnFacts ==
  ASSUME ConnInv
  PROVE  /\ sent \in Seq(Byte) /\ outputBuffer_ \in Seq(Byte)
         /\ accepted \in Seq(Byte) /\ accepted = sent \o outputBuffer_
         /\ Len(outputBuffer_) \in Nat
         /\ pendingFunctors_ \in Seq(Functors) /\ functors \in Seq(Functors)
         /\ space \in Nat /\ space <= SendSpace /\ SendSpace \in Nat
         /\ soError \in BOOLEAN /\ finSent \in BOOLEAN
         /\ channel_ \in Channels
         /\ {channel_} \in SUBSET Channels /\ OneChannelPerFd({channel_})
         /\ Consistent(poller, {channel_})
         /\ poller \in PollerStates
         /\ poller.events[channel_] \in SUBSET Events
<1>1. SendSpace \in Nat
  BY LengthAssumption
<1>2. /\ sent \in Seq(Byte) /\ outputBuffer_ \in Seq(Byte)
      /\ accepted \in Seq(Byte)
      /\ pendingFunctors_ \in Seq(Functors) /\ functors \in Seq(Functors)
      /\ space \in 0..SendSpace
      /\ soError \in BOOLEAN /\ finSent \in BOOLEAN
  BY DEF ConnInv, Types, TypeOK
<1>3. /\ {channel_} \in SUBSET Channels /\ OneChannelPerFd({channel_})
      /\ channel_ \in Channels
  BY ChannelAssumption DEF OneChannelPerFd
<1>4. Consistent(poller, {channel_})
  BY DEF ConnInv, Registration
<1>5. poller \in PollerStates
  BY <1>4 DEF Consistent
<1>6. poller.events[channel_] \in SUBSET Events
  BY <1>3, <1>5, PollerFields
<1>7. space \in Nat /\ space <= SendSpace
  BY <1>1, <1>2
<1>8. accepted = sent \o outputBuffer_
  BY DEF ConnInv, StreamIntact
<1>9. Len(outputBuffer_) \in Nat
  BY <1>2
<1> QED
  BY <1>1, <1>2, <1>3, <1>4, <1>5, <1>6, <1>7, <1>8, <1>9

(* A mask set for the channel. *)
LEMMA MaskSetFor ==
  ASSUME ConnInv, NEW mask \in SUBSET Events, NEW q,
         q = setEvents(poller, channel_, mask)
  PROVE  /\ Consistent(q, {channel_}) /\ q.index[channel_] # kNew
         /\ q.events[channel_] = mask
<1>1. Consistent(setEvents(poller, channel_, mask), {channel_})
      /\ RegisteredWith(poller, setEvents(poller, channel_, mask), channel_, mask)
  <2>1. channel_ \in {channel_}
    OBVIOUS
  <2> QED
    BY <2>1, ConnFacts, SetEventsConsistent
<1>2. Consistent(q, {channel_}) /\ RegisteredWith(poller, q, channel_, mask)
  BY <1>1, Zenon
<1> QED
  BY <1>2, ConnFacts, PollerFields DEF RegisteredWith

(* What write(2) takes fits. *)
LEMMA WriteTakes ==
  ASSUME ConnInv, NEW n \in Nat
  PROVE  /\ writeTakes(n) \in 0..n /\ writeTakes(n) \in Nat
         /\ space - writeTakes(n) \in 0..SendSpace
  BY ConnFacts DEF writeTakes

(* A functor other than connectDestroyed and shutdownInLoop is queued, or  *)
(* none.                                                                   *)
Harmless ==
  /\ pendingFunctors_' \in Seq(Functors)
  /\ \A call \in {"connectDestroyed", "shutdownInLoop"} :
       /\ Has(pendingFunctors_', call) <=> Has(pendingFunctors_, call)
       /\ AtMostOne(pendingFunctors_, call) => AtMostOne(pendingFunctors_', call)

LEMMA WriteCompleteHarmless ==
  ASSUME ConnInv,
         \/ pendingFunctors_' = pendingFunctors_
         \/ pendingFunctors_' = Append(pendingFunctors_, [call |-> "writeComplete"])
  PROVE  Harmless
<1>1. CASE pendingFunctors_' = pendingFunctors_
  BY <1>1, ConnFacts DEF Harmless
<1>2. CASE pendingFunctors_' = Append(pendingFunctors_, [call |-> "writeComplete"])
  <2>1. PICK f : f = [call |-> "writeComplete"]
    OBVIOUS
  <2>2. f \in Functors /\ f.call = "writeComplete"
    BY <2>1 DEF Functors
  <2>3. pendingFunctors_' = Append(pendingFunctors_, f)
    BY <1>2, <2>1
  <2>4. \A call : /\ Append(pendingFunctors_, f) \in Seq(Functors)
                  /\ Has(Append(pendingFunctors_, f), call)
                       <=> Has(pendingFunctors_, call) \/ f.call = call
                  /\ AtMostOne(pendingFunctors_, call)
                       /\ (f.call = call => ~Has(pendingFunctors_, call))
                      => AtMostOne(Append(pendingFunctors_, f), call)
    BY <2>2, ConnFacts, AppendQueue
  <2> QED
    BY <2>2, <2>3, <2>4 DEF Harmless
<1> QED
  BY <1>1, <1>2

(* sendInLoop: the stream goes on with the bytes of m, partly written and  *)
(* partly queued, and the channel waits for POLLOUT if any are queued.     *)
LEMMA SendInLoop ==
  ASSUME ConnInv, NEW m \in Messages, sendInLoop(m)
  PROVE  /\ Harmless
         /\ sent' \in Seq(Byte) /\ outputBuffer_' \in Seq(Byte)
         /\ accepted' \in Seq(Byte) /\ accepted' = accepted \o Bytes(m)
         /\ accepted' = sent' \o outputBuffer_'
         /\ \E t \in Seq(Byte) : sent' = sent \o t
         /\ space' \in 0..SendSpace /\ soError' \in BOOLEAN
         /\ Consistent(poller', {channel_})
         /\ poller' = poller \/ poller'.index[channel_] # kNew
         /\ Backlog /\ closed' = closed => Backlog'
<1> DEFINE size == Length[m]
           B == Bytes(m)
<1>1. PICK n : n = IF sendDirectly THEN writeTakes(size) ELSE 0
  OBVIOUS
<1>2. PICK rest : rest = SubSeq(B, n + 1, size)
  OBVIOUS
<1>3. /\ sendDirectly => write(B, n)
      /\ ~sendDirectly => UNCHANGED <<sent, space, soError>>
      /\ \/ pendingFunctors_' = pendingFunctors_
         \/ pendingFunctors_' = Append(pendingFunctors_, [call |-> "writeComplete"])
      /\ outputBuffer_' = outputBuffer_ \o rest
      /\ rest # << >> /\ ~Writing => poller' = enableWriting(poller, channel_)
      /\ ~(rest # << >> /\ ~Writing) => poller' = poller
      /\ accepted' = accepted \o B
  BY <1>1, <1>2 DEF sendInLoop
<1>4. B \in Seq(Byte) /\ Len(B) = size /\ size \in Nat
  BY BytesIsSeq
<1>5. n \in 0..size /\ n \in Nat /\ space - n \in 0..SendSpace
  <2>1. 0 \in 0..size /\ space - 0 \in 0..SendSpace
    BY <1>4, ConnFacts
  <2>2. /\ writeTakes(size) \in 0..size /\ writeTakes(size) \in Nat
        /\ space - writeTakes(size) \in 0..SendSpace
    BY <1>4, WriteTakes
  <2>3. n = writeTakes(size) \/ n = 0
    BY <1>1
  <2> QED
    BY <2>1, <2>2, <2>3
<1> HIDE DEF B, size
<1>6. PICK first : first = SubSeq(B, 1, n)
  OBVIOUS
<1>7. /\ first \in Seq(Byte) /\ rest \in Seq(Byte) /\ first \o rest = B
  BY <1>2, <1>4, <1>5, <1>6, SplitStream
<1>8. Harmless
  BY <1>3, WriteCompleteHarmless
<1>9. /\ outputBuffer_' \in Seq(Byte) /\ accepted' \in Seq(Byte)
      /\ accepted' = accepted \o B
  BY <1>3, <1>4, <1>7, ConnFacts
<1>10. sent \in Seq(Byte) /\ outputBuffer_ \in Seq(Byte)
  BY ConnFacts
<1>11. /\ sent' \in Seq(Byte) /\ accepted' = sent' \o outputBuffer_'
       /\ \E t \in Seq(Byte) : sent' = sent \o t
       /\ space' \in 0..SendSpace /\ soError' \in BOOLEAN
  <2>1. CASE sendDirectly
    <3>1. sent' = sent \o first /\ space' = space - n /\ outputBuffer_ = << >>
      BY <1>3, <1>6, <2>1 DEF write, sendDirectly
    <3>2. soError' \in BOOLEAN
      <4>1. soError' = (soError /\ ~Broken)
        BY <1>3, <2>1 DEF write
      <4> QED
        BY <4>1, Zenon
    <3>3. outputBuffer_' = rest /\ accepted = sent
      BY <1>3, <1>7, <3>1, ConnFacts
    <3>4. (sent \o first) \o rest = sent \o (first \o rest)
      <4>1. sent \in Seq(Byte) /\ first \in Seq(Byte) /\ rest \in Seq(Byte)
        BY <1>7, <1>10
      <4> QED
        BY ONLY <4>1, JoinStreams, Zenon
    <3>5. accepted' = sent' \o outputBuffer_'
      BY <1>3, <1>7, <3>1, <3>3, <3>4
    <3>6. sent' \in Seq(Byte)
      BY <1>7, <1>10, <3>1
    <3> QED
      BY <1>5, <1>7, <3>1, <3>2, <3>5, <3>6
  <2>2. CASE ~sendDirectly
    <3>1. UNCHANGED <<sent, space, soError>> /\ n = 0
      BY <1>1, <1>3, <2>2
    <3>2. SubSeq(B, 1, Len(B)) = B
      BY <1>4, SubSeqFull
    <3>3. rest = B
      BY <1>2, <1>4, <3>1, <3>2
    <3>4. (sent \o outputBuffer_) \o B = sent \o (outputBuffer_ \o B)
      BY <1>4, <1>10, JoinStreams
    <3>5. accepted' = sent' \o outputBuffer_'
      BY <1>3, <3>1, <3>3, <3>4, ConnFacts
    <3>6. sent' = sent \o << >> /\ << >> \in Seq(Byte)
      BY <1>10, <3>1
    <3>7. space' \in 0..SendSpace /\ soError' \in BOOLEAN
      BY <3>1, ConnFacts
    <3> QED
      BY <1>10, <3>1, <3>5, <3>6, <3>7
  <2> QED
    BY <2>1, <2>2
<1>12. /\ Consistent(poller', {channel_})
       /\ poller' = poller \/ poller'.index[channel_] # kNew
       /\ Backlog /\ closed' = closed => Backlog'
  <2>1. CASE rest # << >> /\ ~Writing
    <3>1. PICK mask \in SUBSET Events : mask = poller.events[channel_] \cup {"out"}
      BY ConnFacts DEF Events
    <3>2. poller' = setEvents(poller, channel_, mask)
      BY <1>3, <2>1, <3>1 DEF enableWriting
    <3>3. /\ Consistent(poller', {channel_}) /\ poller'.index[channel_] # kNew
          /\ poller'.events[channel_] = mask
      BY <3>2, MaskSetFor
    <3>4. "out" \in poller'.events[channel_]
      BY <3>1, <3>3
    <3>5. outputBuffer_' # << >>
      <4>1. outputBuffer_ \o rest = << >> => rest = << >>
        BY <1>7, <1>10, ConcatSimplifications
      <4> QED
        BY <1>3, <2>1, <4>1
    <3>6. Backlog'
      BY <3>4, <3>5 DEF Backlog, Writing, isWriting
    <3> QED
      BY <3>3, <3>6
  <2>2. CASE ~(rest # << >> /\ ~Writing)
    <3>1. poller' = poller
      BY <1>3, <2>2
    <3>2. ASSUME Backlog, closed' = closed PROVE Backlog'
      <4>1. Writing' <=> Writing
        BY <3>1 DEF Writing, isWriting
      <4>2. CASE rest = << >>
        BY <1>3, <1>10, <3>2, <4>1, <4>2 DEF Backlog
      <4>3. CASE Writing
        <5>1. ~closed => outputBuffer_ # << >>
          BY <3>2, <4>3 DEF Backlog
        <5>2. outputBuffer_ \o rest = << >> => outputBuffer_ = << >>
          BY <1>7, <1>10, ConcatSimplifications
        <5> QED
          BY <1>3, <3>2, <4>1, <4>3, <5>1, <5>2 DEF Backlog
      <4> QED
        BY <2>2, <4>2, <4>3
    <3> QED
      BY <3>1, <3>2, ConnFacts
  <2> QED
    BY <2>1, <2>2
<1> QED
  BY <1>8, <1>9, <1>11, <1>12 DEF B

-----------------------------------------------------------------------------
(* Steps of the kernel and the peer alone. *)
LEMMA Untouched ==
  ASSUME ConnInv, TypeOK', todo' \subseteq todo,
         UNCHANGED <<state_, poller, outputBuffer_, pendingFunctors_, functors, pc,
                     other, sent, finSent, aborted, accepted, said, closed, late,
                     promised>>
  PROVE  ConnInv'
<1>1. Types' /\ Phases'
  BY DEF ConnInv, Types, Phases
<1>2. Registration' /\ StreamIntact' /\ Backlog'
  BY DEF ConnInv, Registration, StreamIntact, Backlog, Writing
<1>3. NoShutdownYet' /\ Promises'
  BY DEF ConnInv, NoShutdownYet, Queued, Promises
<1>4. Ending'
  BY DEF ConnInv, Ending, Closing, Orderly, Queued
<1> QED
  BY <1>1, <1>2, <1>3, <1>4 DEF ConnInv

LEMMA KernelStep ==
  ASSUME ConnInv,
         peerReads \/ peerSends \/ peerCloses \/ peerResets \/ handleError_
  PROVE  ConnInv'
<1>1. /\ UNCHANGED <<state_, poller, outputBuffer_, pendingFunctors_, functors, pc,
                     other, sent, finSent, aborted, accepted, said, closed, late,
                     promised>>
      /\ todo' \subseteq todo
  BY DEF peerReads, peerSends, peerCloses, peerResets, handleError_, handleEvent,
         loopAndUser, loopVars, historyVars
<1>2. /\ todo \in SUBSET {"close", "error", "read", "write"}
      /\ unread \in Nat /\ chunks \in Nat /\ peer \in {"open", "closed", "reset"}
      /\ space \in 0..SendSpace /\ SendSpace \in Nat
  BY LengthAssumption DEF ConnInv, Types, TypeOK
<1>3. /\ unread' \in Nat /\ chunks' \in Nat /\ peer' \in {"open", "closed", "reset"}
      /\ space' \in 0..SendSpace
  BY <1>2 DEF peerReads, peerSends, peerCloses, peerResets, handleError_
<1>4. soError' \in BOOLEAN
  BY ConnFacts DEF peerReads, peerSends, peerCloses, peerResets, handleError_
<1>5. TypeOK'
  BY <1>1, <1>2, <1>3, <1>4 DEF ConnInv, Types, TypeOK
<1> QED
  BY <1>1, <1>5, Untouched

-----------------------------------------------------------------------------
(* poll(): a connection that has ended has no channel in the poller, so    *)
(* nothing is reported for it.                                             *)
LEMMA PollStep == ConnInv /\ poll => ConnInv'
<1> SUFFICES ASSUME ConnInv, poll PROVE ConnInv'
  OBVIOUS
<1>1. /\ pc = "poll" /\ pc' = "handle"
      /\ UNCHANGED <<state_, poller, outputBuffer_, pendingFunctors_, functors,
                     other, sent, space, unread, chunks, peer, soError, finSent,
                     aborted, accepted, said, closed, late, promised>>
  BY DEF poll, kernelVars, historyVars
<1>2. /\ todo' \in SUBSET {"close", "error", "read", "write"}
      /\ "close" \in todo' => "read" \notin todo'
  BY DEF poll
<1>3. Types'
  BY <1>1, <1>2 DEF ConnInv, Types, TypeOK, Callbacks
<1>4. Phases'
  BY <1>1, <1>2 DEF ConnInv, Phases
<1>5. Registration' /\ StreamIntact' /\ Backlog'
  BY <1>1 DEF ConnInv, Registration, StreamIntact, Backlog, Writing
<1>6. NoShutdownYet' /\ Promises'
  BY <1>1 DEF ConnInv, NoShutdownYet, Queued, Promises
<1>7. ~Queued("connectDestroyed")
  BY <1>1, EmptyQueue DEF ConnInv, Phases, Queued
<1>8. ASSUME ~late, closed PROVE todo' = {}
  <2>1. poller.index[channel_] = kNew
    BY <1>1, <1>7, <1>8 DEF ConnInv, Ending, Orderly
  <2>2. sockfd \notin DOMAIN poller.interest
    BY <2>1, ConnFacts, NotAddedNotWatched DEF sockfd, Consistent, kNew, kAdded
  <2>3. revents(poller, sockfd, SocketEvents) = {}
    BY <2>2 DEF revents
  <2> QED
    BY <2>3 DEF poll
<1>9. Ending'
  <2>1. Closing'
    BY <1>1 DEF ConnInv, Ending, Closing, Queued
  <2>2. ASSUME ~late PROVE Orderly'
    BY <1>1, <1>8, <2>2 DEF ConnInv, Ending, Orderly, Queued
  <2> QED
    BY <1>1, <2>1, <2>2 DEF Ending
<1> QED
  BY <1>3, <1>4, <1>5, <1>6, <1>9 DEF ConnInv

LEMMA SwapStep == ConnInv /\ doPendingFunctors => ConnInv'
<1> SUFFICES ASSUME ConnInv, doPendingFunctors PROVE ConnInv'
  OBVIOUS
<1>1. /\ pc = "handle" /\ todo = {} /\ pc' = "functors"
      /\ functors' = pendingFunctors_ /\ pendingFunctors_' = << >>
      /\ UNCHANGED <<state_, poller, outputBuffer_, todo, other, sent, space,
                     unread, chunks, peer, soError, finSent, aborted, accepted,
                     said, closed, late, promised>>
  BY DEF doPendingFunctors, kernelVars, historyVars
<1>2. functors = << >>
  BY <1>1 DEF ConnInv, Phases
<1>3. Types'
  BY <1>1 DEF ConnInv, Types, TypeOK, Callbacks
<1>4. \A call : ~Has(<< >>, call) /\ AtMostOne(<< >>, call)
  BY EmptyQueue
<1>5. \A call : Queued(call)' <=> Queued(call)
  BY <1>1, <1>2, <1>4 DEF Queued
<1>6. Phases'
  BY <1>1, <1>4 DEF ConnInv, Phases
<1>7. Registration' /\ StreamIntact' /\ Backlog'
  BY <1>1 DEF ConnInv, Registration, StreamIntact, Backlog, Writing
<1>8. NoShutdownYet' /\ Promises'
  BY <1>1, <1>5 DEF ConnInv, NoShutdownYet, Promises
<1>9. Ending'
  BY <1>1, <1>4, <1>5 DEF ConnInv, Ending, Closing, Orderly
<1> QED
  BY <1>3, <1>6, <1>7, <1>8, <1>9 DEF ConnInv

LEMMA EndStep == ConnInv /\ endFunctors => ConnInv'
<1> SUFFICES ASSUME ConnInv, endFunctors PROVE ConnInv'
  OBVIOUS
<1>1. /\ pc = "functors" /\ functors = << >> /\ pc' = "poll"
      /\ UNCHANGED <<state_, poller, outputBuffer_, pendingFunctors_, functors,
                     todo, other, sent, space, unread, chunks, peer, soError,
                     finSent, aborted, accepted, said, closed, late, promised>>
  BY DEF endFunctors, kernelVars, historyVars
<1>2. Types' /\ Phases'
  BY <1>1 DEF ConnInv, Types, TypeOK, Callbacks, Phases
<1>3. Registration' /\ StreamIntact' /\ Backlog'
  BY <1>1 DEF ConnInv, Registration, StreamIntact, Backlog, Writing
<1>4. NoShutdownYet' /\ Promises'
  BY <1>1 DEF ConnInv, NoShutdownYet, Queued, Promises
<1>5. Ending'
  BY <1>1 DEF ConnInv, Ending, Closing, Orderly, Queued
<1> QED
  BY <1>2, <1>3, <1>4, <1>5 DEF ConnInv

-----------------------------------------------------------------------------
(* The next functor is taken from the batch. *)
LEMMA Popped ==
  ASSUME ConnInv, NEW call, runFunctor(call)
  PROVE  /\ pc = "functors" /\ functors' \in Seq(Functors)
         /\ Head(functors) \in Functors /\ Head(functors).call = call
         /\ \A c : /\ Has(functors, c) <=> c = call \/ Has(functors', c)
                   /\ AtMostOne(functors, c) => AtMostOne(functors', c)
                   /\ AtMostOne(functors, call) => ~Has(functors', call)
<1>1. /\ pc = "functors" /\ functors # << >> /\ Head(functors).call = call
      /\ functors' = Tail(functors)
  BY DEF runFunctor
<1>2. functors \in Seq(Functors)
  BY ConnFacts
<1>3. Tail(functors) \in Seq(Functors) /\ Head(functors) \in Functors
  BY <1>1, <1>2, TailQueue
<1>4. ASSUME NEW c
      PROVE  /\ Has(functors, c) <=> Head(functors).call = c \/ Has(Tail(functors), c)
             /\ AtMostOne(functors, c) =>
                  /\ AtMostOne(Tail(functors), c)
                  /\ Head(functors).call = c => ~Has(Tail(functors), c)
  BY <1>1, <1>2, TailQueue
<1>5. AtMostOne(functors, call) => ~Has(functors', call)
  BY <1>1, <1>4
<1>6. ASSUME NEW c
      PROVE  /\ Has(functors, c) <=> c = call \/ Has(functors', c)
             /\ AtMostOne(functors, c) => AtMostOne(functors', c)
  BY <1>1, <1>4
<1> QED
  BY <1>1, <1>3, <1>5, <1>6

LEMMA WriteCompleteStep == ConnInv /\ runWriteComplete => ConnInv'
<1> SUFFICES ASSUME ConnInv, runWriteComplete PROVE ConnInv'
  OBVIOUS
<1>1. /\ runFunctor("writeComplete") /\ pc' = "writeComplete"
      /\ UNCHANGED <<state_, poller, outputBuffer_, pendingFunctors_, todo,
                     other, sent, space, unread, chunks, peer, soError, finSent,
                     aborted, accepted, said, closed, late, promised>>
  BY DEF runWriteComplete, kernelVars, historyVars
<1>2. /\ pc = "functors" /\ functors' \in Seq(Functors)
      /\ \A c : /\ Has(functors, c) <=> c = "writeComplete" \/ Has(functors', c)
                /\ AtMostOne(functors, c) => AtMostOne(functors', c)
  BY <1>1, Popped
<1>3. \A c \in {"connectDestroyed", "shutdownInLoop"} : Queued(c)' <=> Queued(c)
  BY <1>1, <1>2 DEF Queued
<1>4. Types' /\ Phases'
  BY <1>1, <1>2 DEF ConnInv, Types, TypeOK, Callbacks, Phases
<1>5. Registration' /\ StreamIntact' /\ Backlog'
  BY <1>1 DEF ConnInv, Registration, StreamIntact, Backlog, Writing
<1>6. NoShutdownYet' /\ Promises'
  BY <1>1, <1>3 DEF ConnInv, NoShutdownYet, Promises
<1>7. Ending'
  BY <1>1, <1>2, <1>3 DEF ConnInv, Ending, Closing, Orderly
<1> QED
  BY <1>4, <1>5, <1>6, <1>7 DEF ConnInv

(* The FIN is sent, by whichever path, when no byte waits: then all that   *)
(* sendInLoop got is with the kernel, the promised messages included.      *)
LEMMA FinKeepsPromises ==
  ASSUME ConnInv, finSent' => finSent \/ closed \/ outputBuffer_ = << >>,
         UNCHANGED <<promised, said, accepted, sent, closed>>
  PROVE  Promises'
<1>1. ASSUME outputBuffer_ = << >> PROVE accepted = sent
  BY <1>1, ConnFacts
<1>2. /\ promised \subseteq said \ OtherMessages
      /\ \A m \in said \ OtherMessages : Contains(accepted, m)
      /\ finSent /\ ~closed => \A m \in promised : Contains(sent, m)
  BY DEF ConnInv, Promises
<1>3. ASSUME finSent', ~closed PROVE \A m \in promised : Contains(sent, m)
  <2>1. CASE finSent
    BY <1>2, <1>3, <2>1
  <2>2. CASE outputBuffer_ = << >>
    BY <1>1, <1>2, <2>2
  <2> QED
    BY <1>3, <2>1, <2>2
<1> QED
  BY <1>2, <1>3 DEF Promises

LEMMA ShutdownInLoopStep == ConnInv /\ runShutdown => ConnInv'
<1> SUFFICES ASSUME ConnInv, runShutdown PROVE ConnInv'
  OBVIOUS
<1>1. /\ runFunctor("shutdownInLoop") /\ finSent' = (finSent \/ ~Writing)
      /\ UNCHANGED <<state_, poller, outputBuffer_, pendingFunctors_, pc, todo,
                     other, sent, space, unread, chunks, peer, soError,
                     aborted, accepted, said, closed, late, promised>>
  BY DEF runShutdown, shutdownInLoop, historyVars
<1>2. /\ pc = "functors" /\ functors' \in Seq(Functors)
      /\ \A c : /\ Has(functors, c) <=> c = "shutdownInLoop" \/ Has(functors', c)
                /\ AtMostOne(functors, c) => AtMostOne(functors', c)
  BY <1>1, Popped
<1>3. Queued("connectDestroyed")' <=> Queued("connectDestroyed")
  BY <1>1, <1>2 DEF Queued
<1>4. finSent' \in BOOLEAN
  BY <1>1, Zenon
<1>5. Types' /\ Phases'
  BY <1>1, <1>2, <1>4 DEF ConnInv, Types, TypeOK, Callbacks, Phases
<1>6. Registration' /\ StreamIntact' /\ Backlog'
  BY <1>1 DEF ConnInv, Registration, StreamIntact, Backlog, Writing
<1>7. NoShutdownYet'
  <2>1. Queued("shutdownInLoop")
    BY <1>2 DEF Queued
  <2> QED
    BY <1>1, <2>1 DEF ConnInv, NoShutdownYet
<1>8. Promises'
  BY <1>1, FinKeepsPromises DEF ConnInv, Backlog
<1>9. Ending'
  BY <1>1, <1>2, <1>3 DEF ConnInv, Ending, Closing, Orderly
<1> QED
  BY <1>5, <1>6, <1>7, <1>8, <1>9 DEF ConnInv

(* A message of the second thread. *)
LEMMA RunSendStep == ConnInv /\ runSend => ConnInv'
<1> SUFFICES ASSUME ConnInv, runSend PROVE ConnInv'
  OBVIOUS
<1>1. PICK m : m = Head(functors).message
  OBVIOUS
<1>2. /\ runFunctor("sendInLoop") /\ sendInLoop(m)
      /\ late' = (late \/ poller.index[channel_] = kNew)
      /\ UNCHANGED <<state_, pc, todo, other, unread, chunks, peer, finSent,
                     aborted, said, closed, promised>>
  BY <1>1 DEF runSend
<1>3. /\ pc = "functors" /\ functors' \in Seq(Functors)
      /\ Head(functors) \in Functors /\ Head(functors).call = "sendInLoop"
      /\ \A c : /\ Has(functors, c) <=> c = "sendInLoop" \/ Has(functors', c)
                /\ AtMostOne(functors, c) => AtMostOne(functors', c)
  BY <1>2, Popped
<1>4. m \in Messages
  BY <1>1, <1>3 DEF Functors
<1>5. /\ Harmless
      /\ sent' \in Seq(Byte) /\ outputBuffer_' \in Seq(Byte)
      /\ accepted' \in Seq(Byte) /\ accepted' = accepted \o Bytes(m)
      /\ accepted' = sent' \o outputBuffer_'
      /\ \E t \in Seq(Byte) : sent' = sent \o t
      /\ space' \in 0..SendSpace /\ soError' \in BOOLEAN
      /\ Consistent(poller', {channel_})
      /\ poller' = poller \/ poller'.index[channel_] # kNew
      /\ Backlog /\ closed' = closed => Backlog'
  BY <1>2, <1>4, SendInLoop
<1>6. \A c \in {"connectDestroyed", "shutdownInLoop"} : Queued(c)' <=> Queued(c)
  BY <1>3, <1>5 DEF Queued, Harmless
<1>7. late' \in BOOLEAN
  BY <1>2, Zenon
<1>8. Types'
  <2>1. Len(outputBuffer_') \in Nat /\ Len(sent') \in Nat /\ Len(accepted') \in Nat
    BY <1>5, LenProperties
  <2>2. TypeOK'
    BY <1>2, <1>5, <2>1 DEF ConnInv, Types, TypeOK
  <2> QED
    BY <1>2, <1>3, <1>5, <1>7, <2>2 DEF ConnInv, Types, Harmless
<1>9. Phases'
  BY <1>2, <1>3, <1>5 DEF ConnInv, Phases, Harmless
<1>10. Registration' /\ StreamIntact' /\ Backlog'
  BY <1>2, <1>3, <1>5 DEF ConnInv, Registration, StreamIntact
<1>11. NoShutdownYet'
  BY <1>2, <1>6 DEF ConnInv, NoShutdownYet
<1>12. Promises'
  <2>1. \A w : Contains(accepted, w) => Contains(accepted', w)
    BY <1>4, <1>5, ConnFacts, BytesIsSeq, ContainsPart
  <2>2. \A w : Contains(sent, w) => Contains(sent', w)
    BY <1>5, ConnFacts, ContainsPart
  <2> QED
    BY <1>2, <2>1, <2>2 DEF ConnInv, Promises
<1>13. Ending'
  <2>1. Closing'
    BY <1>2, <1>6 DEF ConnInv, Ending, Closing
  <2>2. ASSUME ~late' PROVE Orderly'
    <3>1. ~late /\ poller.index[channel_] # kNew
      BY <1>2, <2>2
    <3>2. Orderly
      BY <3>1 DEF ConnInv, Ending
    <3>3. closed => Queued("connectDestroyed")
      BY <1>3, <3>1, <3>2 DEF Orderly
    <3>4. /\ AtMostOne(pendingFunctors_', "connectDestroyed")
          /\ AtMostOne(functors', "connectDestroyed")
      BY <1>3, <1>5, <3>2 DEF Orderly, Harmless
    <3> QED
      BY <1>2, <1>6, <3>2, <3>3, <3>4 DEF Orderly
  <2> QED
    BY <2>1, <2>2 DEF Ending
<1> QED
  BY <1>8, <1>9, <1>10, <1>11, <1>12, <1>13 DEF ConnInv

(* connectDestroyed finds state_ up, since it was queued once; with the    *)
(* second disableAll the channel stays disabled until it is removed.       *)
LEMMA DestroyedStep == ConnInv /\ connectDestroyed => ConnInv'
<1> SUFFICES ASSUME ConnInv, connectDestroyed PROVE ConnInv'
  OBVIOUS
<1>1. /\ runFunctor("connectDestroyed") /\ state_' = "kDisconnected"
      /\ aborted' = (aborted \/ state_ \notin {"kConnected", "kDisconnecting"})
      /\ poller' = setEvents(poller, channel_, {}) /\ pc' = "disconnected"
      /\ UNCHANGED <<outputBuffer_, pendingFunctors_, todo, other, sent, space,
                     unread, chunks, peer, soError, finSent, accepted, said,
                     closed, late, promised>>
  BY DEF connectDestroyed, disableAtEnd, disableAll, kernelVars, historyVars
<1>2. /\ pc = "functors" /\ functors' \in Seq(Functors)
      /\ \A c : /\ Has(functors, c) <=> c = "connectDestroyed" \/ Has(functors', c)
                /\ AtMostOne(functors, c) => AtMostOne(functors', c)
      /\ AtMostOne(functors, "connectDestroyed")
           => ~Has(functors', "connectDestroyed")
  BY <1>1, Popped
<1>3. Queued("connectDestroyed") /\ closed
  BY <1>2 DEF ConnInv, Ending, Closing, Queued
<1>4. /\ Consistent(poller', {channel_}) /\ poller'.index[channel_] # kNew
      /\ poller'.events[channel_] = {}
  <2>1. {} \in SUBSET Events
    OBVIOUS
  <2> QED
    BY <1>1, <2>1, MaskSetFor
<1>5. aborted' \in BOOLEAN
  BY <1>1, Zenon
<1>6. Types' /\ Phases'
  BY <1>1, <1>2, <1>5 DEF ConnInv, Types, TypeOK, Callbacks, Phases
<1>7. Registration' /\ StreamIntact' /\ Backlog'
  BY <1>1, <1>3, <1>4 DEF ConnInv, Registration, StreamIntact, Backlog
<1>8. NoShutdownYet' /\ Promises'
  BY <1>1 DEF ConnInv, NoShutdownYet, Promises
<1>9. Ending'
  <2>1. Closing'
    BY <1>1, <1>3 DEF Closing
  <2>2. ASSUME ~late PROVE Orderly'
    <3>1. Orderly
      BY <2>2 DEF ConnInv, Ending
    <3>2. state_ # "kDisconnected" /\ state_ # "kConnecting"
      BY <1>2, <1>3, <3>1 DEF ConnInv, Orderly, Phases
    <3>3. state_ \in {"kConnected", "kDisconnecting"}
      BY <3>2 DEF ConnInv, Types, TypeOK
    <3>4. ~aborted'
      BY <1>1, <3>1, <3>3 DEF Orderly
    <3>5. ~Queued("connectDestroyed")'
      BY <1>1, <1>2, <3>1 DEF ConnInv, Orderly, Phases, Queued
    <3> QED
      BY <1>1, <1>2, <3>1, <3>4, <3>5 DEF Orderly
  <2> QED
    BY <1>1, <2>1, <2>2 DEF Ending
<1> QED
  BY <1>6, <1>7, <1>8, <1>9 DEF ConnInv

(* A callback returns; after the last one the channel is removed. *)
LEMMA CallbackStep == ConnInv /\ callbackReturn => ConnInv'
<1> SUFFICES ASSUME ConnInv, callbackReturn PROVE ConnInv'
  OBVIOUS
<1>1. /\ pc \in Callbacks
      /\ pc \in {"connected", "message"} => pc' = "handle"
      /\ pc \notin {"connected", "message"} => pc' = "functors"
      /\ pc = "disconnected" => poller' = removeChannel(poller, channel_)
      /\ pc # "disconnected" => poller' = poller
      /\ UNCHANGED <<state_, outputBuffer_, pendingFunctors_, functors, todo,
                     other, sent, space, unread, chunks, peer, soError, finSent,
                     aborted, accepted, said, closed, late, promised>>
  BY DEF callbackReturn, Callbacks, kernelVars, historyVars
<1>2. pc' \in {"handle", "functors"}
  BY <1>1
<1>3. Types'
  BY <1>1, <1>2 DEF ConnInv, Types, TypeOK
<1>4. Phases'
  BY <1>1 DEF ConnInv, Phases, Callbacks
<1>5. /\ Consistent(poller', {channel_}) /\ poller'.events = poller.events
      /\ pc = "disconnected" => poller'.index[channel_] = kNew
  <2>1. CASE pc = "disconnected"
    <3>1. poller.events[channel_] = {} /\ poller.index[channel_] # kNew
      BY <2>1 DEF ConnInv, Registration
    <3>2. /\ Consistent(removeChannel(poller, channel_), {channel_})
          /\ UnregisteredFrom(poller, removeChannel(poller, channel_), channel_)
      BY <3>1, ConnFacts, RemoveConsistent
    <3>3. Consistent(poller', {channel_}) /\ UnregisteredFrom(poller, poller', channel_)
      BY <1>1, <2>1, <3>2
    <3> QED
      BY <3>3, ConnFacts, PollerFields DEF UnregisteredFrom
  <2>2. CASE pc # "disconnected"
    BY <1>1, <2>2, ConnFacts
  <2> QED
    BY <2>1, <2>2
<1>6. Registration' /\ StreamIntact'
  BY <1>1, <1>2, <1>5 DEF ConnInv, Registration, StreamIntact
<1>7. Backlog'
  BY <1>1, <1>5 DEF ConnInv, Backlog, Writing, isWriting
<1>8. NoShutdownYet' /\ Promises'
  BY <1>1 DEF ConnInv, NoShutdownYet, Queued, Promises
<1>9. Ending'
  <2>1. Closing'
    BY <1>1, <1>2 DEF ConnInv, Ending, Closing, Queued
  <2>2. ASSUME ~late PROVE Orderly'
    BY <1>1, <1>2, <1>5, <2>2 DEF ConnInv, Ending, Orderly, Queued
  <2> QED
    BY <1>1, <2>1, <2>2 DEF Ending
<1> QED
  BY <1>3, <1>4, <1>6, <1>7, <1>8, <1>9 DEF ConnInv

LEMMA EstablishedStep == ConnInv /\ connectEstablished => ConnInv'
<1> SUFFICES ASSUME ConnInv, connectEstablished PROVE ConnInv'
  OBVIOUS
<1>1. /\ pc = "start" /\ pc' = "connected" /\ state_' = "kConnected"
      /\ aborted' = (aborted \/ state_ # "kConnecting")
      /\ poller' = setEvents(poller, channel_, poller.events[channel_] \cup {"in"})
      /\ UNCHANGED <<outputBuffer_, pendingFunctors_, functors, todo, other,
                     sent, space, unread, chunks, peer, soError, finSent,
                     accepted, said, closed, late, promised>>
  BY DEF connectEstablished, enableReading, kernelVars, historyVars
<1>2. /\ state_ = "kConnecting" /\ other = Idle /\ ~closed /\ functors = << >>
      /\ ~Has(pendingFunctors_, "connectDestroyed")
  BY <1>1 DEF ConnInv, Phases
<1>3. PICK mask \in SUBSET Events : mask = poller.events[channel_] \cup {"in"}
  BY ConnFacts DEF Events
<1>4. /\ Consistent(poller', {channel_}) /\ poller'.index[channel_] # kNew
      /\ poller'.events[channel_] = mask
  BY <1>1, <1>3, MaskSetFor
<1>5. aborted' \in BOOLEAN
  BY <1>1, Zenon
<1>6. Types'
  BY <1>1, <1>5 DEF ConnInv, Types, TypeOK, Callbacks
<1>7. Phases'
  BY <1>1, <1>2 DEF ConnInv, Phases
<1>8. Registration' /\ StreamIntact'
  BY <1>1, <1>4 DEF ConnInv, Registration, StreamIntact
<1>9. Backlog'
  <2>1. "out" \in mask <=> "out" \in poller.events[channel_]
    BY <1>3
  <2>2. Writing' <=> Writing
    BY <1>4, <2>1 DEF Writing, isWriting
  <2> QED
    BY <1>1, <2>2 DEF ConnInv, Backlog
<1>10. NoShutdownYet' /\ Promises'
  BY <1>1, <1>2 DEF ConnInv, NoShutdownYet, Queued, Promises
<1>11. Ending'
  <2>1. Closing'
    BY <1>1 DEF ConnInv, Ending, Closing, Queued
  <2>2. ASSUME ~late PROVE Orderly'
    <3>1. Orderly
      BY <2>2 DEF ConnInv, Ending
    <3>2. ~closed
      BY <1>2
    <3>3. ~aborted'
      BY <1>1, <1>2, <3>1 DEF Orderly
    <3>4. ~Queued("connectDestroyed")'
      BY <1>1, <1>2, EmptyQueue DEF Queued
    <3> QED
      BY <1>1, <3>1, <3>2, <3>3, <3>4 DEF Orderly, Queued
  <2> QED
    BY <1>1, <2>1, <2>2 DEF Ending
<1> QED
  BY <1>6, <1>7, <1>8, <1>9, <1>10, <1>11 DEF ConnInv

-----------------------------------------------------------------------------
(* handleClose_, from closeEvent or at end of file: the connection has not *)
(* been closed before, and nothing left in todo closes it again.           *)
LEMMA CloseStep ==
  ASSUME ConnInv, handleClose_, pc = "handle", pc' = pc,
         todo \cap {"close", "read"} # {}, todo' \cap {"close", "read"} = {},
         todo' \subseteq todo,
         UNCHANGED <<state_, outputBuffer_, functors, other, sent, space, unread,
                     chunks, peer, soError, finSent, accepted, said, late,
                     promised>>
  PROVE  ConnInv'
<1>1. PICK f : f = [call |-> "connectDestroyed"]
  OBVIOUS
<1>2. f \in Functors /\ f.call = "connectDestroyed"
  BY <1>1 DEF Functors
<1>3. /\ aborted' = (aborted \/ state_ \notin {"kConnected", "kDisconnecting"})
      /\ poller' = setEvents(poller, channel_, {})
      /\ pendingFunctors_' = Append(pendingFunctors_, f) /\ closed' = TRUE
  BY <1>1 DEF handleClose_, disableAll
<1>4. /\ pendingFunctors_' \in Seq(Functors)
      /\ Has(pendingFunctors_', "connectDestroyed")
      /\ Has(pendingFunctors_', "shutdownInLoop")
           <=> Has(pendingFunctors_, "shutdownInLoop")
      /\ AtMostOne(pendingFunctors_, "connectDestroyed")
           /\ ~Has(pendingFunctors_, "connectDestroyed")
          => AtMostOne(pendingFunctors_', "connectDestroyed")
  <2>1. pendingFunctors_ \in Seq(Functors)
    BY ConnFacts
  <2>2. ASSUME NEW call
        PROVE  /\ Append(pendingFunctors_, f) \in Seq(Functors)
               /\ Has(Append(pendingFunctors_, f), call)
                    <=> Has(pendingFunctors_, call) \/ f.call = call
               /\ AtMostOne(pendingFunctors_, call)
                    /\ (f.call = call => ~Has(pendingFunctors_, call))
                   => AtMostOne(Append(pendingFunctors_, f), call)
    BY <1>2, <2>1, AppendQueue
  <2> QED
    BY <1>2, <1>3, <2>2
<1>5. /\ Consistent(poller', {channel_}) /\ poller'.index[channel_] # kNew
      /\ poller'.events[channel_] = {}
  <2>1. {} \in SUBSET Events
    OBVIOUS
  <2> QED
    BY <1>3, <2>1, MaskSetFor
<1>6. aborted' \in BOOLEAN /\ closed' \in BOOLEAN
  BY <1>3, Zenon
<1>7. Types' /\ Phases'
  BY <1>3, <1>4, <1>6 DEF ConnInv, Types, TypeOK, Phases
<1>8. Registration' /\ StreamIntact' /\ Backlog'
  BY <1>3, <1>5 DEF ConnInv, Registration, StreamIntact, Backlog
<1>9. NoShutdownYet' /\ Promises'
  BY <1>3, <1>4 DEF ConnInv, NoShutdownYet, Queued, Promises
<1>10. Ending'
  <2>1. Closing'
    BY <1>3 DEF Closing
  <2>2. ASSUME ~late PROVE Orderly'
    <3>1. Orderly
      BY <2>2 DEF ConnInv, Ending
    <3>2. ~closed
      BY <3>1 DEF Orderly
    <3>3. ~Queued("connectDestroyed") /\ state_ # "kDisconnected"
      BY <3>2 DEF ConnInv, Ending, Closing
    <3>4. state_ # "kConnecting"
      BY DEF ConnInv, Phases
    <3>5. ~aborted'
      BY <1>3, <3>1, <3>3, <3>4 DEF ConnInv, Types, TypeOK, Orderly
    <3>6. AtMostOne(pendingFunctors_', "connectDestroyed")
      BY <1>4, <3>1, <3>3 DEF Orderly, Queued
    <3>7. Queued("connectDestroyed")'
      BY <1>4 DEF Queued
    <3> QED
      BY <3>1, <3>3, <3>5, <3>6, <3>7 DEF Orderly
  <2> QED
    BY <2>1, <2>2 DEF Ending
<1> QED
  BY <1>7, <1>8, <1>9, <1>10 DEF ConnInv

LEMMA CloseEventStep == ConnInv /\ closeEvent => ConnInv'
<1> SUFFICES ASSUME ConnInv, closeEvent PROVE ConnInv'
  OBVIOUS
<1>1. /\ pc = "handle" /\ "close" \in todo /\ todo' = todo \ {"close"}
      /\ handleClose_
      /\ UNCHANGED <<state_, outputBuffer_, functors, pc, other, sent, space,
                     unread, chunks, peer, soError, finSent, accepted, said,
                     late, promised>>
  BY DEF closeEvent, handleEvent, kernelVars
<1>2. /\ todo \cap {"close", "read"} # {} /\ todo' \cap {"close", "read"} = {}
      /\ todo' \subseteq todo
  BY <1>1 DEF ConnInv, Phases
<1> QED
  BY <1>1, <1>2, CloseStep

(* handleRead_: data goes to the message callback; at end of file the      *)
(* connection is closed.                                                   *)
LEMMA ReadStep == ConnInv /\ handleRead_ => ConnInv'
<1> SUFFICES ASSUME ConnInv, handleRead_ PROVE ConnInv'
  OBVIOUS
<1>1. /\ pc = "handle" /\ "read" \in todo /\ todo' = todo \ {"read"}
      /\ todo \cap {"close", "error"} = {}
      /\ UNCHANGED <<state_, outputBuffer_, functors, other, sent, space, chunks,
                     peer, finSent, accepted, said, late, promised>>
  BY DEF handleRead_, handleEvent
<1>2. CASE /\ unread' = 0 /\ pc' = "message"
           /\ UNCHANGED <<soError, poller, pendingFunctors_, aborted, closed>>
  <2>1. Types'
    BY <1>1, <1>2 DEF ConnInv, Types, TypeOK, Callbacks
  <2>2. Phases'
    BY <1>1, <1>2 DEF ConnInv, Phases
  <2>3. Registration' /\ StreamIntact' /\ Backlog'
    BY <1>1, <1>2 DEF ConnInv, Registration, StreamIntact, Backlog, Writing
  <2>4. NoShutdownYet' /\ Promises'
    BY <1>1, <1>2 DEF ConnInv, NoShutdownYet, Queued, Promises
  <2>5. Ending'
    BY <1>1, <1>2 DEF ConnInv, Ending, Closing, Orderly, Queued
  <2> QED
    BY <2>1, <2>2, <2>3, <2>4, <2>5 DEF ConnInv
<1>3. CASE /\ soError' = FALSE
           /\ UNCHANGED <<unread, pc, poller, pendingFunctors_, aborted, closed>>
  <2>1. soError' \in BOOLEAN
    BY <1>3, Zenon
  <2>2. TypeOK'
    BY <1>1, <1>3, <2>1 DEF ConnInv, Types, TypeOK
  <2>3. todo' \subseteq todo
    BY <1>1
  <2> QED
    BY <1>1, <1>3, <2>2, <2>3, Untouched
<1>4. CASE handleClose_ /\ UNCHANGED <<unread, pc, soError>>
  <2>1. /\ todo \cap {"close", "read"} # {} /\ todo' \cap {"close", "read"} = {}
        /\ todo' \subseteq todo
    BY <1>1
  <2> QED
    BY <1>1, <1>4, <2>1, CloseStep
<1> QED
  BY <1>2, <1>3, <1>4 DEF handleRead_, endOfFile

(* handleWrite_: the written part of outputBuffer_ moves to the kernel;    *)
(* POLLOUT is given up, and a waiting shutdown() carried out, only when    *)
(* nothing is left.                                                        *)
LEMMA WriteStep == ConnInv /\ handleWrite_ => ConnInv'
<1> SUFFICES ASSUME ConnInv, handleWrite_ PROVE ConnInv'
  OBVIOUS
<1>1. /\ pc = "handle" /\ todo' \subseteq todo
      /\ UNCHANGED <<state_, functors, pc, other, unread, chunks, peer, aborted,
                     accepted, said, closed, late, promised>>
  BY DEF handleWrite_, handleEvent, historyVars
<1>2. CASE ~Writing
  <2>1. UNCHANGED <<sent, space, soError, outputBuffer_, poller,
                    pendingFunctors_, finSent>>
    BY <1>2 DEF handleWrite_
  <2>2. TypeOK'
    BY <1>1, <2>1 DEF ConnInv, Types, TypeOK
  <2> QED
    BY <1>1, <2>1, <2>2, Untouched
<1>3. CASE Writing
  <2>1. PICK n : n = writeTakes(Len(outputBuffer_))
    OBVIOUS
  <2>2. PICK rest : rest = SubSeq(outputBuffer_, n + 1, Len(outputBuffer_))
    OBVIOUS
  <2>3. PICK first : first = SubSeq(outputBuffer_, 1, n)
    OBVIOUS
  <2> DEFINE done == n > 0 /\ rest = << >>
  <2>4. /\ sent' = sent \o first /\ space' = space - n
        /\ soError' = (soError /\ ~Broken) /\ outputBuffer_' = rest
        /\ done => poller' = disableWriting(poller, channel_)
        /\ ~done => poller' = poller
        /\ \/ pendingFunctors_' = pendingFunctors_
           \/ pendingFunctors_' = Append(pendingFunctors_, [call |-> "writeComplete"])
        /\ finSent' = (finSent \/ (done /\ state_ = "kDisconnecting"))
    BY <1>3, <2>1, <2>2, <2>3 DEF handleWrite_, write, stopWriting, finishShutdown
  <2>5. n \in 0..Len(outputBuffer_) /\ n \in Nat /\ space - n \in 0..SendSpace
    BY <2>1, ConnFacts, WriteTakes
  <2>6. outputBuffer_ \in Seq(Byte) /\ sent \in Seq(Byte)
    BY ConnFacts
  <2>7. /\ first \in Seq(Byte) /\ rest \in Seq(Byte)
        /\ first \o rest = outputBuffer_
        /\ rest = << >> <=> n = Len(outputBuffer_)
    BY <2>2, <2>3, <2>5, <2>6, SplitStream
  <2>8. Harmless
    BY <2>4, WriteCompleteHarmless
  <2>9. soError' \in BOOLEAN /\ finSent' \in BOOLEAN
    BY <2>4, Zenon
  <2>10. sent' \in Seq(Byte)
    BY <2>4, <2>6, <2>7
  <2>11. Types'
    BY <1>1, <2>4, <2>5, <2>7, <2>8, <2>9, <2>10
       DEF ConnInv, Types, TypeOK, Harmless
  <2>12. Phases'
    BY <1>1, <2>8 DEF ConnInv, Phases, Harmless
  <2>13. StreamIntact'
    <3>1. (sent \o first) \o rest = sent \o (first \o rest)
      <4>1. sent \in Seq(Byte) /\ first \in Seq(Byte) /\ rest \in Seq(Byte)
        BY <2>6, <2>7
      <4> QED
        BY ONLY <4>1, JoinStreams, Zenon
    <3> QED
      BY <1>1, <2>4, <2>7, <3>1, ConnFacts DEF StreamIntact
  <2>14. /\ Consistent(poller', {channel_})
         /\ poller'.index[channel_] # kNew
         /\ Writing' <=> ~done
    <3>1. CASE done
      <4>1. PICK mask \in SUBSET Events : mask = poller.events[channel_] \ {"out"}
        BY ConnFacts DEF Events
      <4>2. poller' = setEvents(poller, channel_, mask)
        BY <2>4, <3>1, <4>1 DEF disableWriting
      <4>3. /\ Consistent(poller', {channel_}) /\ poller'.index[channel_] # kNew
            /\ poller'.events[channel_] = mask
        BY <4>2, MaskSetFor
      <4>4. ~Writing'
        BY <4>1, <4>3 DEF Writing, isWriting
      <4> QED
        BY <3>1, <4>3, <4>4
    <3>2. CASE ~done
      <4>1. poller' = poller
        BY <2>4, <3>2
      <4>2. poller.index[channel_] # kNew
        BY <1>3, ConnFacts DEF Consistent, Watched, Writing, isWriting, kNew, kAdded
      <4>3. Writing'
        BY <1>3, <4>1 DEF Writing, isWriting
      <4> QED
        BY <3>2, <4>1, <4>2, <4>3, ConnFacts
    <3> QED
      BY <3>1, <3>2
  <2>15. Registration'
    BY <1>1, <2>14 DEF ConnInv, Registration
  <2>16. Backlog'
    <3>1. ASSUME ~closed PROVE ~done <=> rest # << >>
      <4>1. outputBuffer_ # << >>
        BY <1>3, <3>1 DEF ConnInv, Backlog
      <4>2. Len(outputBuffer_) # 0
        BY <2>6, <4>1, EmptySeq
      <4> QED
        BY <2>5, <2>7, <4>2
    <3> HIDE DEF done
    <3> QED
      BY <1>1, <2>4, <2>14, <3>1 DEF Backlog
  <2>17. \A c \in {"connectDestroyed", "shutdownInLoop"} : Queued(c)' <=> Queued(c)
    BY <1>1, <2>8 DEF Queued, Harmless
  <2>18. NoShutdownYet'
    BY <1>1, <2>4, <2>17 DEF ConnInv, NoShutdownYet
  <2>19. Promises'
    <3>1. \A w : Contains(sent, w) => Contains(sent', w)
      BY <2>4, <2>6, <2>7, ContainsPart
    <3>2. done => accepted = sent'
      BY <2>4, <2>6, <2>7, ConnFacts
    <3>3. finSent' => finSent \/ done
      BY <2>4
    <3> HIDE DEF done
    <3> QED
      BY <1>1, <3>1, <3>2, <3>3 DEF ConnInv, Promises
  <2>20. Ending'
    <3>1. Closing'
      BY <1>1, <2>17 DEF ConnInv, Ending, Closing
    <3>2. ASSUME ~late PROVE Orderly'
      <4>1. Orderly
        BY <3>2 DEF ConnInv, Ending
      <4>2. poller.index[channel_] # kNew
        BY <1>3, ConnFacts DEF Consistent, Watched, Writing, isWriting, kNew, kAdded
      <4>3. closed => Queued("connectDestroyed")
        BY <1>1, <4>1, <4>2 DEF Orderly
      <4>4. /\ AtMostOne(pendingFunctors_', "connectDestroyed")
            /\ AtMostOne(functors', "connectDestroyed")
        BY <1>1, <2>8, <4>1 DEF Orderly, Harmless
      <4> QED
        BY <1>1, <2>17, <4>1, <4>3, <4>4 DEF Orderly
    <3> QED
      BY <1>1, <3>1, <3>2 DEF Ending
  <2> QED
    BY <2>11, <2>12, <2>13, <2>15, <2>16, <2>18, <2>19, <2>20 DEF ConnInv
<1> QED
  BY <1>2, <1>3

-----------------------------------------------------------------------------
(* send() in the loop thread: the connection has not ended, whether or not *)
(* handleClose_ has run.                                                   *)
LEMMA SendStep ==
  ASSUME ConnInv, NEW m \in Messages, send(m)
  PROVE  ConnInv'
<1>1. /\ pc \in Callbacks /\ m \notin OtherMessages /\ state_ = "kConnected"
      /\ sendInLoop(m) /\ said' = said \cup {m}
      /\ UNCHANGED <<state_, functors, pc, todo, other, unread, chunks, peer,
                     finSent, aborted, closed, late, promised>>
  BY DEF send, loopVars
<1>2. /\ Harmless
      /\ sent' \in Seq(Byte) /\ outputBuffer_' \in Seq(Byte)
      /\ accepted' \in Seq(Byte) /\ accepted' = accepted \o Bytes(m)
      /\ accepted' = sent' \o outputBuffer_'
      /\ \E t \in Seq(Byte) : sent' = sent \o t
      /\ space' \in 0..SendSpace /\ soError' \in BOOLEAN
      /\ Consistent(poller', {channel_})
      /\ Backlog /\ closed' = closed => Backlog'
  BY <1>1, SendInLoop
<1>3. \A c \in {"connectDestroyed", "shutdownInLoop"} : Queued(c)' <=> Queued(c)
  BY <1>1, <1>2 DEF Queued, Harmless
<1>4. pc # "disconnected"
  BY <1>1 DEF ConnInv, Registration
<1>5. Types'
  BY <1>1, <1>2 DEF ConnInv, Types, TypeOK, Harmless
<1>6. Phases'
  BY <1>1, <1>2 DEF ConnInv, Phases, Harmless
<1>7. Registration' /\ StreamIntact' /\ Backlog'
  BY <1>1, <1>2, <1>4 DEF ConnInv, Registration, StreamIntact
<1>8. NoShutdownYet'
  BY <1>1, <1>3 DEF ConnInv, NoShutdownYet
<1>9. Promises'
  <2>1. Bytes(m) \in Seq(Byte) /\ accepted \in Seq(Byte) /\ sent \in Seq(Byte)
    BY BytesIsSeq, ConnFacts
  <2>2. \A w : Contains(accepted, w) => Contains(accepted', w)
    BY <1>2, <2>1, ContainsPart
  <2>3. \A w : Contains(sent, w) => Contains(sent', w)
    BY <1>2, <2>1, ContainsPart
  <2>4. Contains(Bytes(m), m)
    BY BytesIsSeq DEF Contains
  <2>5. Contains(accepted', m)
    BY <1>2, <2>1, <2>4, ContainsPart
  <2> QED
    BY <1>1, <2>2, <2>3, <2>5 DEF ConnInv, Promises
<1>10. Ending'
  <2>1. Closing'
    BY <1>1, <1>3 DEF ConnInv, Ending, Closing
  <2>2. ASSUME ~late PROVE Orderly'
    <3>1. Orderly
      BY <2>2 DEF ConnInv, Ending
    <3>2. closed => Queued("connectDestroyed")
      BY <1>1, <3>1 DEF Orderly
    <3>3. /\ AtMostOne(pendingFunctors_', "connectDestroyed")
          /\ AtMostOne(functors', "connectDestroyed")
      BY <1>1, <1>2, <3>1 DEF Orderly, Harmless
    <3> QED
      BY <1>1, <1>3, <3>1, <3>2, <3>3 DEF Orderly
  <2> QED
    BY <1>1, <2>1, <2>2 DEF Ending
<1> QED
  BY <1>5, <1>6, <1>7, <1>8, <1>9, <1>10 DEF ConnInv

(* shutdown() in the loop thread. *)
LEMMA ShutdownStep == ConnInv /\ shutdown => ConnInv'
<1> SUFFICES ASSUME ConnInv, shutdown PROVE ConnInv'
  OBVIOUS
<1>1. /\ state_ = "kConnected" /\ state_' = "kDisconnecting"
      /\ finSent' = (finSent \/ ~Writing)
      /\ promised' = said \ OtherMessages
      /\ UNCHANGED <<poller, outputBuffer_, pendingFunctors_, functors, pc, todo,
                     other, sent, space, unread, chunks, peer, soError, aborted,
                     accepted, said, closed, late>>
  BY DEF shutdown, shutdownInLoop, loopVars
<1>2. finSent' \in BOOLEAN
  BY <1>1, Zenon
<1>3. Types' /\ Phases'
  BY <1>1, <1>2 DEF ConnInv, Types, TypeOK, Phases
<1>4. Registration' /\ StreamIntact' /\ Backlog'
  BY <1>1 DEF ConnInv, Registration, StreamIntact, Backlog, Writing
<1>5. NoShutdownYet'
  BY <1>1 DEF NoShutdownYet
<1>6. Promises'
  <2>1. ~finSent
    BY <1>1 DEF ConnInv, NoShutdownYet
  <2>2. ASSUME finSent', ~closed PROVE accepted = sent
    <3>1. outputBuffer_ = << >>
      BY <1>1, <2>1, <2>2 DEF ConnInv, Backlog
    <3> QED
      BY <3>1, ConnFacts
  <2>3. \A m \in said \ OtherMessages : Contains(accepted, m)
    BY DEF ConnInv, Promises
  <2> QED
    BY <1>1, <2>2, <2>3 DEF Promises
<1>7. Ending'
  BY <1>1 DEF ConnInv, Ending, Closing, Orderly, Queued
<1> QED
  BY <1>3, <1>4, <1>5, <1>6, <1>7 DEF ConnInv

-----------------------------------------------------------------------------
(* The second thread between its test of state_ and runInLoop. *)
LEMMA OtherTestsStep == ConnInv /\ otherTests => ConnInv'
<1> SUFFICES ASSUME ConnInv, otherTests PROVE ConnInv'
  OBVIOUS
<1>1. /\ state_ = "kConnected"
      /\ \/ \E m \in Unsaid \cap OtherMessages : other' = [op |-> "send", message |-> m]
         \/ other' = [op |-> "shutdown"]
      /\ UNCHANGED <<state_, poller, outputBuffer_, pendingFunctors_, functors,
                     pc, todo, sent, space, unread, chunks, peer, soError,
                     finSent, aborted, accepted, said, closed, late, promised>>
  BY DEF otherTests, loopVars, kernelVars, historyVars
<1>2. other' \in Others /\ other'.op # "queueShutdown"
  BY <1>1 DEF Others
<1>3. Types' /\ Phases'
  BY <1>1, <1>2 DEF ConnInv, Types, TypeOK, Phases
<1>4. Registration' /\ StreamIntact' /\ Backlog'
  BY <1>1 DEF ConnInv, Registration, StreamIntact, Backlog, Writing
<1>5. NoShutdownYet' /\ Promises'
  BY <1>1, <1>2 DEF ConnInv, NoShutdownYet, Queued, Promises
<1>6. Ending'
  BY <1>1 DEF ConnInv, Ending, Closing, Orderly, Queued
<1> QED
  BY <1>3, <1>4, <1>5, <1>6 DEF ConnInv

LEMMA OtherSetsStep == ConnInv /\ otherSetState => ConnInv'
<1> SUFFICES ASSUME ConnInv, otherSetState PROVE ConnInv'
  OBVIOUS
<1>1. /\ other.op = "shutdown" /\ state_' = "kDisconnecting"
      /\ other' = [op |-> "queueShutdown"]
      /\ UNCHANGED <<poller, outputBuffer_, pendingFunctors_, functors,
                     pc, todo, sent, space, unread, chunks, peer, soError,
                     finSent, aborted, accepted, said, closed, late, promised>>
  BY DEF otherSetState, loopVars, kernelVars, historyVars
<1>2. other' \in Others
  BY <1>1 DEF Others
<1>3. pc # "start"
  BY <1>1 DEF ConnInv, Phases, Idle
<1>4. Types' /\ Phases'
  BY <1>1, <1>2, <1>3 DEF ConnInv, Types, TypeOK, Phases
<1>5. Registration' /\ StreamIntact' /\ Backlog'
  BY <1>1 DEF ConnInv, Registration, StreamIntact, Backlog, Writing
<1>6. NoShutdownYet' /\ Promises'
  BY <1>1 DEF ConnInv, NoShutdownYet, Promises
<1>7. Ending'
  BY <1>1 DEF ConnInv, Ending, Closing, Orderly, Queued
<1> QED
  BY <1>4, <1>5, <1>6, <1>7 DEF ConnInv

LEMMA OtherQueuesStep == ConnInv /\ otherQueues => ConnInv'
<1> SUFFICES ASSUME ConnInv, otherQueues PROVE ConnInv'
  OBVIOUS
<1>1. /\ other' = Idle
      /\ UNCHANGED <<state_, poller, outputBuffer_, functors, pc, todo, sent,
                     space, unread, chunks, peer, soError, finSent, aborted,
                     accepted, closed, late, promised>>
  BY DEF otherQueues, loopVars, kernelVars
<1>2. other \in Others
  BY DEF ConnInv, Types
<1>3. PICK f \in Functors :
        /\ pendingFunctors_' = Append(pendingFunctors_, f)
        /\ f.call = "sendInLoop" \/ (f.call = "shutdownInLoop"
                                     /\ other.op = "queueShutdown")
        /\ said' \subseteq Messages /\ said \subseteq said'
        /\ said' \ OtherMessages = said \ OtherMessages
  <2>1. said \subseteq Messages /\ OtherMessages \subseteq Messages
    BY LengthAssumption DEF ConnInv, Types
  <2>2. CASE /\ other.op = "send"
             /\ pendingFunctors_' = Append(pendingFunctors_,
                  [call |-> "sendInLoop", message |-> other.message])
             /\ said' = said \cup {other.message}
    <3>1. other.message \in OtherMessages
      BY <1>2, <2>2 DEF Others
    <3>2. PICK f : f = [call |-> "sendInLoop", message |-> other.message]
      OBVIOUS
    <3>3. f \in Functors /\ f.call = "sendInLoop"
      BY <2>1, <3>1, <3>2 DEF Functors
    <3>4. /\ said' \subseteq Messages /\ said \subseteq said'
          /\ said' \ OtherMessages = said \ OtherMessages
      BY <2>1, <2>2, <3>1
    <3> QED
      BY <2>2, <3>2, <3>3, <3>4
  <2>3. CASE /\ other.op = "queueShutdown"
             /\ pendingFunctors_' = Append(pendingFunctors_, [call |-> "shutdownInLoop"])
             /\ said' = said
    <3>1. PICK f : f = [call |-> "shutdownInLoop"]
      OBVIOUS
    <3>2. f \in Functors /\ f.call = "shutdownInLoop"
      BY <3>1 DEF Functors
    <3> QED
      BY <2>1, <2>3, <3>1, <3>2
  <2> QED
    BY <2>2, <2>3 DEF otherQueues
<1>4. pendingFunctors_ \in Seq(Functors)
  BY ConnFacts
<1>5. /\ pendingFunctors_' \in Seq(Functors)
      /\ \A call : /\ Has(pendingFunctors_', call)
                        <=> Has(pendingFunctors_, call) \/ f.call = call
                   /\ AtMostOne(pendingFunctors_, call) /\ f.call # call
                        => AtMostOne(pendingFunctors_', call)
  <2>1. ASSUME NEW call
        PROVE  /\ Append(pendingFunctors_, f) \in Seq(Functors)
               /\ Has(Append(pendingFunctors_, f), call)
                    <=> Has(pendingFunctors_, call) \/ f.call = call
               /\ AtMostOne(pendingFunctors_, call)
                    /\ (f.call = call => ~Has(pendingFunctors_, call))
                   => AtMostOne(Append(pendingFunctors_, f), call)
    BY <1>4, AppendQueue
  <2> QED
    BY <1>3, <2>1
<1>6. Queued("connectDestroyed")' <=> Queued("connectDestroyed")
  BY <1>1, <1>3, <1>5 DEF Queued
<1>7. Types'
  BY <1>1, <1>3, <1>5 DEF ConnInv, Types, TypeOK, Others, Idle
<1>8. Phases'
  BY <1>1, <1>3, <1>5 DEF ConnInv, Phases
<1>9. Registration' /\ StreamIntact' /\ Backlog'
  BY <1>1 DEF ConnInv, Registration, StreamIntact, Backlog, Writing
<1>10. NoShutdownYet'
  BY <1>1, <1>3, <1>5 DEF ConnInv, NoShutdownYet, Queued, Idle
<1>11. Promises'
  BY <1>1, <1>3 DEF ConnInv, Promises
<1>12. Ending'
  BY <1>1, <1>3, <1>5, <1>6 DEF ConnInv, Ending, Closing, Orderly
<1> QED
  BY <1>7, <1>8, <1>9, <1>10, <1>11, <1>12 DEF ConnInv

-----------------------------------------------------------------------------
LEMMA ConnNext == ConnInv /\ [Next]_vars => ConnInv'
<1> SUFFICES ASSUME ConnInv, [Next]_vars PROVE ConnInv'
  OBVIOUS
<1>1. CASE LoopStep
  BY <1>1, EstablishedStep, PollStep, CloseEventStep, KernelStep, ReadStep,
     WriteStep, SwapStep, EndStep, WriteCompleteStep, RunSendStep,
     ShutdownInLoopStep, DestroyedStep, CallbackStep DEF LoopStep
<1>2. CASE peerReads \/ peerSends \/ peerCloses \/ peerResets
  BY <1>2, KernelStep
<1>3. ASSUME NEW m \in Messages, send(m) PROVE ConnInv'
  BY <1>3, SendStep
<1>4. CASE shutdown \/ otherTests \/ otherSetState \/ otherQueues
  BY <1>4, ShutdownStep, OtherTestsStep, OtherSetsStep, OtherQueuesStep
<1>5. CASE UNCHANGED vars
  <2>1. /\ UNCHANGED <<state_, poller, outputBuffer_, pendingFunctors_, functors,
                       pc, other, sent, finSent, aborted, accepted, said, closed,
                       late, promised>>
        /\ todo' = todo
        /\ UNCHANGED <<space, unread, chunks, peer, soError>>
    BY <1>5 DEF vars, loopVars, kernelVars, historyVars
  <2>2. TypeOK'
    BY <2>1 DEF ConnInv, Types, TypeOK
  <2> QED
    BY <2>1, <2>2, Untouched
<1> QED
  BY <1>1, <1>2, <1>3, <1>4, <1>5 DEF Next, PeerReads

LEMMA ConnInvariant == Spec => []ConnInv
  BY ConnInit, ConnNext, PTL DEF Spec

(* Whatever the sizes of messages and send buffer, what the kernel got     *)
(* followed by outputBuffer_ is what was sent, in order                    *)
(* (TcpConnection::sendInLoop and handleWrite_).                           *)
THEOREM ConnectionStreamIntact == Spec => []StreamIntact
<1>1. ConnInv => StreamIntact
  BY DEF ConnInv
<1> QED
  BY <1>1, ConnInvariant, PTL

(* The channel waits for POLLOUT exactly while bytes are queued, until     *)
(* handleClose_ disables it.                                               *)
THEOREM ConnectionWritingIffBacklog == Spec => []WritingIffBacklog
<1>1. ConnInv => WritingIffBacklog
  BY DEF ConnInv, Types, Backlog, WritingIffBacklog
<1> QED
  BY <1>1, ConnInvariant, PTL

(* The asserts of connectEstablished, handleClose_, connectDestroyed and   *)
(* EPoller hold and no epoll_ctl fails, unless a message of the second     *)
(* thread comes after connectDestroyed.                                    *)
THEOREM ConnectionNeverFails == Spec => []NoFailure
<1>1. ConnInv => NoFailure
  BY DEF ConnInv, Registration, Consistent, Ending, Orderly, NoFailure
<1> QED
  BY <1>1, ConnInvariant, PTL

(* shutdown() after send() in the loop thread sends the FIN after every    *)
(* byte, by shutdownInLoop or by the handleWrite_ that writes the last.    *)
THEOREM ConnectionShutdownKeepsMessages == Spec => []ShutdownKeepsMessages
<1>1. ConnInv => ShutdownKeepsMessages
  BY DEF ConnInv, Promises, Contains, ShutdownKeepsMessages
<1> QED
  BY <1>1, ConnInvariant, PTL
=============================================================================
