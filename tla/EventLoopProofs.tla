-------------------------- MODULE EventLoopProofs --------------------------
(***************************************************************************)
(* EventLoop for any set of threads, functors and channels; ThreadPool,    *)
(* which starts loops, for any number of threads; and Poller, the other    *)
(* poller a loop can have, for any channels and descriptors.               *)
(***************************************************************************)
EXTENDS EventLoop, ThreadPool, Poller, SequenceTheorems, FiniteSetTheorems, TLAPS

(***************************************************************************)
(* A functor that is pending while the loop is past the swap of this       *)
(* iteration is announced; one pushed by a channel callback is not, but it *)
(* is picked up by the swap that follows.  NoSilentBlock alone is not      *)
(* inductive: it says nothing of the phases before poll().                 *)
(***************************************************************************)
PendingIsAnnounced ==
  pendingFunctors_ # << >>
    => wakeupWritten \/ waking # {} \/ early \/ pc = "handle"

LoopInv == TypeOK /\ QueuedIsRunInOrder /\ PendingIsAnnounced

-----------------------------------------------------------------------------
(* Where a sequence is split makes no difference to its concatenation: the *)
(* three facts used for the push, the swap and the run of a functor.       *)
LEMMA SplitPush ==
  \A a, b \in Seq(Functors), x \in Functors :
    Append(a \o b, x) = a \o Append(b, x)
  OBVIOUS

LEMMA SplitRun ==
  \A a, b, c \in Seq(Functors) : b # << >> =>
    /\ Append(a, Head(b)) \o Tail(b) = a \o b
    /\ Head(b) \in Functors /\ Tail(b) \in Seq(Functors)
    /\ b \o c # << >> /\ Head(b \o c) = Head(b)
    /\ Tail(b \o c) = Tail(b) \o c
<1> SUFFICES ASSUME NEW a \in Seq(Functors), NEW b \in Seq(Functors),
                    NEW c \in Seq(Functors), b # << >>
             PROVE  /\ Append(a, Head(b)) \o Tail(b) = a \o b
                    /\ Head(b) \in Functors /\ Tail(b) \in Seq(Functors)
                    /\ b \o c # << >> /\ Head(b \o c) = Head(b)
                    /\ Tail(b \o c) = Tail(b) \o c
  OBVIOUS
<1>1. Head(b) \in Functors /\ Tail(b) \in Seq(Functors)
  BY HeadTailProperties
<1>2. Append(a, Head(b)) \o Tail(b) = a \o b
  <2>1. Len(Append(a, Head(b)) \o Tail(b)) = Len(a \o b)
    BY <1>1
  <2>2. ASSUME NEW i \in 1 .. Len(a \o b)
        PROVE  (Append(a, Head(b)) \o Tail(b))[i] = (a \o b)[i]
    BY <1>1
  <2> QED
    BY <1>1, <2>1, <2>2, SeqEqual, ConcatProperties, AppendProperties
<1>3. b \o c # << >> /\ Head(b \o c) = Head(b)
  OBVIOUS
<1>4. Tail(b \o c) = Tail(b) \o c
  <2>1. Len(Tail(b \o c)) = Len(Tail(b) \o c)
    BY <1>1, <1>3
  <2>2. ASSUME NEW i \in 1 .. Len(Tail(b) \o c)
        PROVE  Tail(b \o c)[i] = (Tail(b) \o c)[i]
    BY <1>1, <1>3
  <2> QED
    BY <1>1, <1>3, <2>1, <2>2, SeqEqual, ConcatProperties, HeadTailProperties
<1> QED
  BY <1>1, <1>2, <1>3, <1>4

LEMMA SplitEmpty ==
  \A a \in Seq(Functors) : a \o << >> = a /\ << >> \o a = a
  OBVIOUS

-----------------------------------------------------------------------------
(* The constructor establishes the invariant. *)
LEMMA InitLoopInv == Init => LoopInv
<1> SUFFICES ASSUME Init PROVE LoopInv
  OBVIOUS
<1>1. TypeOK
  <2>1. << >> \in Seq(Functors)
    OBVIOUS
  <2> QED
    BY <2>1, Zenon DEF Init, TypeOK, Phases
<1>2. << >> \o << >> = << >>
  BY SplitEmpty, << >> \in Seq(Functors)
<1>3. QueuedIsRunInOrder /\ PendingIsAnnounced
  BY <1>2 DEF Init, QueuedIsRunInOrder, PendingIsAnnounced
<1> QED
  BY <1>1, <1>3 DEF LoopInv

(* Types are kept by every step. *)
LEMMA TypeStep == TypeOK /\ [Next]_vars => TypeOK'
<1> SUFFICES ASSUME TypeOK, [Next]_vars PROVE TypeOK'
  OBVIOUS
<1> USE DEF TypeOK, Phases, loopState, history
<1>1. CASE loop
  BY <1>1 DEF loop
<1>2. CASE resetQuit
  BY <1>2 DEF resetQuit
<1>3. CASE testQuit
  BY <1>3 DEF testQuit
<1>4. CASE pollEvents
  BY <1>4 DEF pollEvents
<1>5. CASE pollTimeout
  BY <1>5 DEF pollTimeout
<1>6. CASE callbackReturn
  BY <1>6 DEF callbackReturn
<1>7. CASE doPendingFunctors
  BY <1>7 DEF doPendingFunctors
<1>8. CASE runFunctor
  BY <1>8, SplitRun DEF runFunctor
<1>9. CASE endFunctors
  BY <1>9 DEF endFunctors
<1>10. ASSUME NEW ch \in Channels, handleEvent(ch) PROVE TypeOK'
  BY <1>10 DEF handleEvent
<1>11. ASSUME NEW f \in Functors, queueInLoopSelf(f) PROVE TypeOK'
  BY <1>11 DEF queueInLoopSelf, push, InLoopThreadCall
<1>12. ASSUME NEW f \in Functors, runInLoopSelf(f) PROVE TypeOK'
  BY <1>12 DEF runInLoopSelf
<1>13. ASSUME NEW f \in Functors, NEW t \in Threads, queueInLoop(t, f)
       PROVE  TypeOK'
  BY <1>13 DEF queueInLoop, push
<1>14. ASSUME NEW t \in Threads, wakeup(t) PROVE TypeOK'
  BY <1>14 DEF wakeup
<1>15. CASE quit
  BY <1>15 DEF quit
<1>16. ASSUME NEW ch \in Channels, ioEvent(ch) PROVE TypeOK'
  BY <1>16 DEF ioEvent
<1>17. CASE UNCHANGED vars
  BY <1>17 DEF vars
<1> QED
  BY <1>1, <1>2, <1>3, <1>4, <1>5, <1>6, <1>7, <1>8, <1>9, <1>10, <1>11,
     <1>12, <1>13, <1>14, <1>15, <1>16, <1>17 DEF Next, LoopStep

(* The concatenation run \o batch \o pending is kept up by every step:     *)
(* a push appends to it, the swap and the run of a functor only move the   *)
(* points where it is split.                                               *)
LEMMA OrderStep ==
  TypeOK /\ QueuedIsRunInOrder /\ [Next]_vars => QueuedIsRunInOrder'
<1> SUFFICES ASSUME TypeOK, QueuedIsRunInOrder, [Next]_vars
             PROVE  QueuedIsRunInOrder'
  OBVIOUS
<1>0. /\ pendingFunctors_ \in Seq(Functors) /\ functors \in Seq(Functors)
      /\ executed \in Seq(Functors)
  BY DEF TypeOK
<1>1. ASSUME NEW f \in Functors, push(f), UNCHANGED <<functors, executed>>
      PROVE  QueuedIsRunInOrder'
  <2>1. executed \o functors \in Seq(Functors)
    BY <1>0
  <2> QED
    BY <1>0, <1>1, <2>1, SplitPush, Zenon DEF push, QueuedIsRunInOrder
<1>2. CASE doPendingFunctors
  <2>1. functors = << >>
    BY <1>2 DEF doPendingFunctors, TypeOK
  <2>2. executed \o functors = executed
    BY <1>0, <2>1, SplitEmpty
  <2>3. executed \o pendingFunctors_ \in Seq(Functors)
    BY <1>0
  <2> QED
    BY <1>0, <1>2, <2>2, <2>3, SplitEmpty
       DEF doPendingFunctors, QueuedIsRunInOrder
<1>3. CASE runFunctor
  <2>1. functors # << >>
    BY <1>3 DEF runFunctor
  <2>2. Append(executed, Head(functors)) \o Tail(functors)
          = executed \o functors
    BY <1>0, <2>1, SplitRun, Zenon
  <2> QED
    BY <1>3, <2>2, Zenon DEF runFunctor, QueuedIsRunInOrder
<1>4. CASE UNCHANGED <<submitted, executed, functors, pendingFunctors_>>
  BY <1>4 DEF QueuedIsRunInOrder
<1>5. ASSUME NEW f \in Functors,
             \/ queueInLoopSelf(f)
             \/ \E t \in Threads : queueInLoop(t, f)
      PROVE  push(f) /\ UNCHANGED <<functors, executed>>
  BY <1>5 DEF queueInLoopSelf, queueInLoop, loopState
<1>6. ASSUME \/ loop \/ resetQuit \/ testQuit \/ pollEvents \/ pollTimeout
             \/ callbackReturn \/ endFunctors \/ quit \/ UNCHANGED vars
             \/ \E ch \in Channels : handleEvent(ch) \/ ioEvent(ch)
             \/ \E f \in Functors : runInLoopSelf(f)
             \/ \E t \in Threads : wakeup(t)
      PROVE  UNCHANGED <<submitted, executed, functors, pendingFunctors_>>
  BY <1>6 DEF loop, resetQuit, testQuit, pollEvents, pollTimeout,
     callbackReturn, endFunctors, quit, vars, handleEvent, ioEvent,
     runInLoopSelf, wakeup, loopState, history
<1> QED
  BY <1>1, <1>2, <1>3, <1>4, <1>5, <1>6 DEF Next, LoopStep

(* Every push is followed by a wakeup, is made outside loop(), or happens  *)
(* in the channel phase, which the swap ends.                              *)
LEMMA AnnouncedStep ==
  TypeOK /\ PendingIsAnnounced /\ [Next]_vars => PendingIsAnnounced'
<1> SUFFICES ASSUME TypeOK, PendingIsAnnounced, [Next]_vars
             PROVE  PendingIsAnnounced'
  OBVIOUS
<1> USE DEF PendingIsAnnounced
<1>1. ASSUME NEW f \in Functors, queueInLoopSelf(f)
      PROVE  PendingIsAnnounced'
  <2>1. pc \in {"out", "handle", "functors"}
    BY <1>1 DEF queueInLoopSelf, InLoopThreadCall, TypeOK
  <2>2. CASE pc = "functors"
    <3>1. callingPendingFunctors_
      BY <2>2 DEF TypeOK
    <3> QED
      BY <1>1, <3>1 DEF queueInLoopSelf
  <2> QED
    BY <1>1, <2>1, <2>2 DEF queueInLoopSelf, loopState
<1>2. ASSUME NEW f \in Functors, NEW t \in Threads, queueInLoop(t, f)
      PROVE  PendingIsAnnounced'
  BY <1>2 DEF queueInLoop
<1>3. ASSUME NEW t \in Threads, wakeup(t) PROVE PendingIsAnnounced'
  BY <1>3 DEF wakeup
<1>4. CASE doPendingFunctors
  BY <1>4 DEF doPendingFunctors
<1>5. ASSUME \/ runFunctor \/ callbackReturn \/ quit \/ UNCHANGED vars
             \/ \E ch \in Channels : handleEvent(ch) \/ ioEvent(ch)
             \/ \E f \in Functors : runInLoopSelf(f)
      PROVE  UNCHANGED <<pendingFunctors_, waking, wakeupWritten, early, pc>>
  BY <1>5 DEF runFunctor, callbackReturn, quit, vars, handleEvent, ioEvent,
     runInLoopSelf, loopState, history
<1>6. ASSUME \/ loop \/ resetQuit \/ testQuit \/ endFunctors
             \/ pollEvents \/ pollTimeout
      PROVE  /\ UNCHANGED <<pendingFunctors_, waking, wakeupWritten, early>>
             /\ pc # "handle"
  BY <1>6 DEF loop, resetQuit, testQuit, endFunctors, pollEvents, pollTimeout,
     history
<1> QED
  BY <1>1, <1>2, <1>3, <1>4, <1>5, <1>6 DEF Next, LoopStep

-----------------------------------------------------------------------------
LEMMA LoopInvHolds == Spec => []LoopInv
<1>1. LoopInv /\ [Next]_vars => LoopInv'
  BY TypeStep, OrderStep, AnnouncedStep DEF LoopInv
<1> QED
  BY InitLoopInv, <1>1, PTL DEF Spec

(* The types, and with them the flags of loop() and doPendingFunctors(),   *)
(* for any number of threads, functors and channels.                       *)
THEOREM TypeCorrect == Spec => []TypeOK
  BY LoopInvHolds, PTL DEF LoopInv

(* doPendingFunctors() runs what was queued, once and in order. *)
THEOREM RunInOrder == Spec => []QueuedIsRunInOrder
  BY LoopInvHolds, PTL DEF LoopInv

(* The wakeup condition of queueInLoop covers every thread and every       *)
(* moment at which a functor can be queued while loop() runs.              *)
THEOREM NeverSilentlyBlocked == Spec => []NoSilentBlock
<1>1. LoopInv => NoSilentBlock
  BY DEF LoopInv, PendingIsAnnounced, NoSilentBlock
<1> QED
  BY LoopInvHolds, <1>1, PTL

-----------------------------------------------------------------------------
(* Every step of the loop and of its callers is a step of the task queue   *)
(* or changes nothing the queue shows.                                     *)
LEMMA TaskStep ==
  TypeOK /\ TypeOK' /\ [Next]_vars => [Tasks!Next]_(Tasks!taskVars)
<1> SUFFICES ASSUME TypeOK, TypeOK', [Next]_vars
             PROVE  [Tasks!Next]_(Tasks!taskVars)
  OBVIOUS
<1> USE DEF Tasks!taskVars
<1>0. /\ pendingFunctors_ \in Seq(Functors) /\ functors \in Seq(Functors)
      /\ executed \in Seq(Functors)
  BY DEF TypeOK
<1>1. ASSUME NEW f \in Functors, push(f), UNCHANGED <<functors, executed>>
      PROVE  Tasks!Next
  <2>1. Tasks!Post(f)
    BY <1>0, <1>1, SplitPush DEF push, Tasks!Post
  <2> QED
    BY <2>1 DEF Tasks!Next
<1>2. CASE doPendingFunctors
  <2>1. functors = << >>
    BY <1>2 DEF doPendingFunctors, TypeOK
  <2> QED
    BY <1>0, <1>2, <2>1, SplitEmpty DEF doPendingFunctors
<1>3. CASE runFunctor
  <2>1. functors # << >>
    BY <1>3 DEF runFunctor
  <2>2. /\ functors \o pendingFunctors_ # << >>
        /\ Head(functors \o pendingFunctors_) = Head(functors)
        /\ Tail(functors \o pendingFunctors_) = Tail(functors) \o pendingFunctors_
    BY <1>0, <2>1, SplitRun, Zenon
  <2>3. Tasks!Run
    BY <1>3, <2>2, Zenon DEF runFunctor, Tasks!Run
  <2> QED
    BY <2>3 DEF Tasks!Next
<1>4. CASE UNCHANGED <<executed, functors, pendingFunctors_>>
  BY <1>4
<1>5. ASSUME NEW f \in Functors,
             \/ queueInLoopSelf(f)
             \/ \E t \in Threads : queueInLoop(t, f)
      PROVE  push(f) /\ UNCHANGED <<functors, executed>>
  BY <1>5 DEF queueInLoopSelf, queueInLoop, loopState
<1>6. ASSUME \/ loop \/ resetQuit \/ testQuit \/ pollEvents \/ pollTimeout
             \/ callbackReturn \/ endFunctors \/ quit \/ UNCHANGED vars
             \/ \E ch \in Channels : handleEvent(ch) \/ ioEvent(ch)
             \/ \E f \in Functors : runInLoopSelf(f)
             \/ \E t \in Threads : wakeup(t)
      PROVE  UNCHANGED <<executed, functors, pendingFunctors_>>
  BY <1>6 DEF loop, resetQuit, testQuit, pollEvents, pollTimeout,
     callbackReturn, endFunctors, quit, vars, handleEvent, ioEvent,
     runInLoopSelf, wakeup, loopState, history
<1> QED
  BY <1>1, <1>2, <1>3, <1>4, <1>5, <1>6 DEF Next, LoopStep

(* EventLoop implements TaskQueue: to the callers of queueInLoop, push,    *)
(* swap and run are an atomic FIFO queue of tasks, each run once.          *)
THEOREM EventLoopImplementsTaskQueue == Spec => ImplementsTaskQueue
<1>1. Init => Tasks!Init
  BY SplitEmpty, EmptySeq DEF Init, Tasks!Init
<1> QED
  BY <1>1, TaskStep, TypeCorrect, PTL DEF Spec, ImplementsTaskQueue, Tasks!Spec

-----------------------------------------------------------------------------
(***************************************************************************)
(* ThreadPool, for any number of threads.                                  *)
(***************************************************************************)
PoolTypes ==
  /\ PoolTypeOK
  /\ loops_ \in Seq(Int) /\ dealt \in Seq(Int) /\ loop_ \in [PoolThreads -> Int]

(* A thread publishes its own loop, and with it that it is running. *)
Published ==
  \A t \in PoolThreads :
    loop_[t] = IF thread[t] = "loops" THEN t ELSE NULL

(* loops_ has the loops of the threads in order, up to the one that        *)
(* start() waits for, and all of them once it has returned.                *)
Collected ==
  /\ Len(loops_) <= numThreads_
  /\ \A i \in 1..Len(loops_) : loops_[i] = i /\ thread[i] = "loops"
  /\ ~started_ => loops_ = << >> /\ poolPc = "out"
  /\ poolPc = "out" /\ started_ => Len(loops_) = numThreads_
  /\ poolPc \in {"lock", "test", "wait"} => Len(loops_) < numThreads_
  /\ \A t \in PoolThreads : thread[t] # "none" =>
       \/ t <= Len(loops_)
       \/ poolPc \in {"lock", "test", "wait"} /\ t = Len(loops_) + 1

DealtReady ==
  \A i \in 1..Len(dealt) :
    dealt[i] # BaseLoop => dealt[i] \in PoolThreads /\ thread[dealt[i]] = "loops"

(* Whoever is in front of next_ has had one turn more. *)
InTurn ==
  \E rounds \in Nat : \A t \in PoolThreads :
    Cardinality(Deals(t)) = IF t <= next_ THEN rounds + 1 ELSE rounds

PoolInv == PoolTypes /\ Published /\ Collected /\ DealtReady /\ InTurn

LEMMA PoolInvInit == PoolInit => PoolInv
<1> SUFFICES ASSUME PoolInit PROVE PoolInv
  OBVIOUS
<1> USE PoolAssumption DEF PoolInit, PoolThreads, NULL
<1>1. PoolTypes
  <2>1. PoolTypeOK
    BY DEF PoolTypeOK
  <2>2. loops_ \in Seq(Int) /\ dealt \in Seq(Int)
    BY EmptySeq
  <2> QED
    BY <2>1, <2>2 DEF PoolTypes
<1>2. Published /\ Collected /\ DealtReady
  BY DEF Published, Collected, DealtReady
<1>3. InTurn
  <2>1. ASSUME NEW t \in PoolThreads PROVE Cardinality(Deals(t)) = 0 /\ ~(t <= next_)
    <3>1. Deals(t) = {}
      BY DEF Deals
    <3> QED
      BY <3>1, FS_EmptySet
  <2> QED
    BY <2>1 DEF InTurn
<1> QED
  BY <1>1, <1>2, <1>3 DEF PoolInv

(* Dealing loop t adds one to its share and nothing to the others. *)
LEMMA Deal ==
  ASSUME dealt \in Seq(Int), NEW u \in Int, dealt' = Append(dealt, u), NEW t \in Int
  PROVE  /\ Cardinality(Deals(t)) \in Nat
         /\ Cardinality(Deals(t)') = IF t = u THEN Cardinality(Deals(t)) + 1
                                              ELSE Cardinality(Deals(t))
<1>1. IsFiniteSet(Deals(t)) /\ Cardinality(Deals(t)) \in Nat
  <2>1. Len(dealt) \in Nat
    BY LenProperties
  <2>2. IsFiniteSet(1..Len(dealt))
    BY <2>1, FS_Interval
  <2>3. Deals(t) \in SUBSET (1..Len(dealt))
    BY DEF Deals
  <2>4. IsFiniteSet(Deals(t))
    BY <2>2, <2>3, FS_Subset
  <2> QED
    BY <2>4, FS_CardinalityType
<1>2. Deals(t)' = IF t = u THEN Deals(t) \cup {Len(dealt) + 1} ELSE Deals(t)
  <2>1. /\ Len(dealt) \in Nat /\ Len(dealt') = Len(dealt) + 1
        /\ \A i \in 1..Len(dealt) : dealt'[i] = dealt[i]
        /\ dealt'[Len(dealt) + 1] = u
    BY AppendProperties, LenProperties
  <2> QED
    BY <2>1 DEF Deals
<1>3. Len(dealt) + 1 \notin Deals(t)
  BY LenProperties DEF Deals
<1> QED
  BY <1>1, <1>2, <1>3, FS_AddElement

LEMMA PoolInvNext == PoolInv /\ [PoolNext]_poolVars => PoolInv'
<1> SUFFICES ASSUME PoolInv, [PoolNext]_poolVars PROVE PoolInv'
  OBVIOUS
<1> USE PoolAssumption DEF PoolThreads, Current, NULL
<1>1. /\ PoolTypeOK /\ loops_ \in Seq(Int) /\ dealt \in Seq(Int)
      /\ loop_ \in [PoolThreads -> Int]
      /\ Len(loops_) \in Nat /\ Len(dealt) \in Nat
      /\ Published /\ Collected /\ DealtReady
  BY LenProperties DEF PoolInv, PoolTypes
<1>2. ASSUME UNCHANGED <<next_, dealt>>
      PROVE  InTurn'
  BY <1>2 DEF PoolInv, InTurn, Deals
(* The base thread, but for test and getNextLoop. *)
<1>3. CASE \/ start \/ createThread \/ lock \/ wake
           \/ wakeSpuriously \/ startReturns \/ UNCHANGED poolVars
  <2> USE DEF start, createThread, lock, wake,
              wakeSpuriously, startReturns, poolVars
  <2>1. UNCHANGED <<loops_, next_, loop_, dealt>>
    BY <1>3
  <2>2. PoolTypeOK'
    BY <1>1, <1>3 DEF PoolTypeOK
  <2>3. \A t \in PoolThreads : thread'[t] = "loops" <=> thread[t] = "loops"
    <3>1. CASE createThread
      <4>1. thread' = [thread EXCEPT ![Len(loops_) + 1] = "constructs"]
        BY <3>1
      <4>2. thread[Len(loops_) + 1] # "loops"
        <5>1. poolPc = "for" /\ Len(loops_) + 1 \in PoolThreads
          BY <3>1
        <5>2. thread[Len(loops_) + 1] = "none"
          BY ONLY <1>1, <5>1 DEF Collected
        <5> QED
          BY <5>2
      <4> QED
        BY ONLY <1>1, <4>1, <4>2 DEF PoolTypeOK
    <3>2. CASE ~createThread
      BY <1>3, <3>2
    <3> QED
      BY <3>1, <3>2
  <2>4. Published' /\ DealtReady'
    BY <1>1, <2>1, <2>3 DEF Published, DealtReady
  <2>5. Collected'
    BY <1>1, <1>3, <2>1, <2>3 DEF Collected, PoolTypeOK
  <2> QED
    BY <1>1, <1>2, <2>1, <2>2, <2>4, <2>5 DEF PoolInv, PoolTypes
<1>4. CASE test
  <2>1. CASE mustWait
    <3>1. UNCHANGED <<started_, loops_, next_, thread, loop_, dealt>>
      BY <1>4, <2>1 DEF test
    <3>2. poolPc = "test" /\ poolPc' = "wait" /\ notified' = FALSE
          /\ mutex_' = [mutex_ EXCEPT ![Current] = "free"]
      BY <1>4, <2>1 DEF test
    <3>3. PoolTypeOK'
      BY <1>1, <3>1, <3>2 DEF PoolTypeOK
    <3>4. Collected'
      BY <1>1, <3>1, <3>2 DEF Collected
    <3> QED
      BY <1>1, <1>2, <3>1, <3>3, <3>4 DEF PoolInv, PoolTypes, Published, DealtReady
  <2>2. CASE ~mustWait
    <3>1. /\ UNCHANGED <<started_, next_, thread, loop_, dealt>>
          /\ poolPc = "test" /\ poolPc' = "for"
          /\ loops_' = Append(loops_, loop_[Len(loops_) + 1])
      BY <1>4, <2>2 DEF test
    <3>2. Len(loops_) + 1 \in PoolThreads
      BY <1>1, <3>1 DEF Collected
    <3>3. loop_[Len(loops_) + 1] = Len(loops_) + 1 /\ thread[Len(loops_) + 1] = "loops"
      BY <1>1, <2>2, <3>2 DEF Published, mustWait
    <3>4. /\ loops_' \in Seq(Int) /\ Len(loops_') = Len(loops_) + 1
          /\ \A i \in 1..Len(loops_) : loops_'[i] = loops_[i]
          /\ loops_'[Len(loops_) + 1] = Len(loops_) + 1
      BY <1>1, <3>1, <3>3, AppendProperties
    <3>5. PoolTypeOK'
      <4>1. notified' = FALSE /\ mutex_' = [mutex_ EXCEPT ![Current] = "free"]
        BY <1>4 DEF test
      <4>2. mutex_' \in [PoolThreads -> {"free", "base", "thread"}]
        BY <1>1, <4>1 DEF PoolTypeOK
      <4>3. next_' = 0 \/ next_' \in 1..(Len(loops_') - 1)
        BY <1>1, <3>1, <3>4 DEF PoolTypeOK
      <4> QED
        BY <1>1, <3>1, <4>1, <4>2, <4>3 DEF PoolTypeOK
    <3>6. Collected'
      <4>1. ASSUME NEW i \in 1..Len(loops_')
            PROVE  i \in 1..Len(loops_) \/ i = Len(loops_) + 1
        BY <1>1, <3>4
      <4>2. \A i \in 1..Len(loops_') : loops_'[i] = i /\ thread'[i] = "loops"
        BY <1>1, <3>1, <3>3, <3>4, <4>1 DEF Collected
      <4>3. started_ /\ Len(loops_') <= numThreads_
        BY <1>1, <3>1, <3>2, <3>4 DEF Collected
      <4>4. ASSUME NEW t \in PoolThreads, thread'[t] # "none"
            PROVE  t <= Len(loops_')
        <5>1. thread[t] # "none"
          BY <3>1, <4>4
        <5>2. t <= Len(loops_) \/ t = Len(loops_) + 1
          BY ONLY <1>1, <5>1, t \in PoolThreads DEF Collected
        <5> QED
          BY <1>1, <3>4, <5>2
      <4> QED
        BY <3>1, <4>2, <4>3, <4>4 DEF Collected
    <3> QED
      BY <1>1, <1>2, <3>1, <3>4, <3>5, <3>6 DEF PoolInv, PoolTypes, Published, DealtReady
  <2> QED
    BY <2>1, <2>2
<1>5. CASE getNextLoop
  <2>1. /\ UNCHANGED <<started_, loops_, poolPc, thread, loop_, mutex_, notified>>
        /\ poolPc = "out"
    BY <1>5 DEF getNextLoop
  <2>2. CASE loops_ = << >>
    <3>1. dealt' = Append(dealt, 0) /\ next_' = next_
      BY <1>5, <2>2 DEF getNextLoop, BaseLoop
    <3>2. /\ dealt' \in Seq(Int) /\ Len(dealt') = Len(dealt) + 1
          /\ \A i \in 1..Len(dealt) : dealt'[i] = dealt[i]
          /\ dealt'[Len(dealt) + 1] = 0
      BY <1>1, <3>1, AppendProperties
    <3>3. DealtReady'
      <4>1. ASSUME NEW i \in 1..Len(dealt')
            PROVE  i \in 1..Len(dealt) \/ i = Len(dealt) + 1
        BY <1>1, <3>2
      <4> QED
        BY <1>1, <2>1, <3>2, <4>1 DEF DealtReady, BaseLoop
    <3>4. InTurn'
      <4>1. ASSUME NEW t \in PoolThreads
            PROVE  Cardinality(Deals(t)') = Cardinality(Deals(t))
        <5> DEFINE u == 0
        <5>1. t \in Int /\ u \in Int /\ t # u /\ dealt' = Append(dealt, u)
          BY <3>1
        <5> HIDE DEF u
        <5> QED
          BY <1>1, <5>1, Deal
      <4> QED
        BY <3>1, <4>1 DEF PoolInv, InTurn
    <3> QED
      BY <1>1, <2>1, <3>1, <3>2, <3>3, <3>4
         DEF PoolInv, PoolTypes, PoolTypeOK, Published, Collected
  <2>3. CASE loops_ # << >>
    <3>1. dealt' = Append(dealt, loops_[next_ + 1]) /\ next_' = advance
      BY <1>5, <2>3 DEF getNextLoop
    <3>2. Len(loops_) = numThreads_ /\ numThreads_ > 0
      BY <1>1, <2>1, <2>3, EmptySeq DEF Collected
    <3>3. next_ \in 0..(numThreads_ - 1)
      BY <1>1, <3>2 DEF PoolTypeOK
    <3> DEFINE u == next_ + 1
    <3>4. u \in PoolThreads /\ loops_[u] = u /\ thread[u] = "loops"
      BY <1>1, <3>2, <3>3 DEF Collected
    <3>5. /\ dealt' \in Seq(Int) /\ Len(dealt') = Len(dealt) + 1
          /\ \A i \in 1..Len(dealt) : dealt'[i] = dealt[i]
          /\ dealt'[Len(dealt) + 1] = u
      BY <1>1, <3>1, <3>4, AppendProperties
    <3>6. DealtReady'
      <4>1. ASSUME NEW i \in 1..Len(dealt')
            PROVE  i \in 1..Len(dealt) \/ i = Len(dealt) + 1
        BY <1>1, <3>5
      <4> QED
        BY <1>1, <2>1, <3>4, <3>5, <4>1 DEF DealtReady, BaseLoop
    <3>7. next_' = IF u = numThreads_ THEN 0 ELSE u
      BY <3>1, <3>2, <3>3 DEF advance
    <3>8. PoolTypeOK'
      BY <1>1, <2>1, <3>2, <3>3, <3>7 DEF PoolTypeOK
    <3>9. InTurn'
      <4>1. PICK rounds \in Nat : \A t \in PoolThreads :
              Cardinality(Deals(t)) = IF t <= next_ THEN rounds + 1 ELSE rounds
        BY DEF PoolInv, InTurn
      <4>2. ASSUME NEW t \in PoolThreads
            PROVE  Cardinality(Deals(t)') = IF t = u THEN Cardinality(Deals(t)) + 1
                                                     ELSE Cardinality(Deals(t))
        <5>1. t \in Int /\ u \in Int /\ dealt' = Append(dealt, u)
          BY <3>1, <3>4
        <5> QED
          BY <1>1, <5>1, Deal
      <4>3. \A t \in PoolThreads :
              Cardinality(Deals(t)') = IF t <= u THEN rounds + 1 ELSE rounds
        BY <3>3, <4>1, <4>2
      <4>4. CASE u = numThreads_
        <5>1. \A t \in PoolThreads :
                Cardinality(Deals(t)') = IF t <= next_' THEN rounds + 2 ELSE rounds + 1
          BY <3>7, <4>3, <4>4
        <5> QED
          BY <5>1 DEF InTurn
      <4>5. CASE u # numThreads_
        BY <3>7, <4>3, <4>5 DEF InTurn
      <4> QED
        BY <4>4, <4>5
    <3> QED
      BY <1>1, <2>1, <3>5, <3>6, <3>8, <3>9
         DEF PoolInv, PoolTypes, Published, Collected
  <2> QED
    BY <2>2, <2>3
<1>6. ASSUME NEW t \in PoolThreads, ThreadStep(t)
      PROVE  PoolInv'
  <2> USE DEF ThreadStep, constructLoop, lockMutex, publish
  <2>1. UNCHANGED <<started_, loops_, next_, poolPc, dealt>>
    BY <1>6
  <2>2. PoolTypeOK' /\ loop_' \in [PoolThreads -> Int]
    <3>1. notified' \in BOOLEAN
      BY <1>1, <1>6, Zenon DEF PoolTypeOK
    <3>2. CASE constructLoop(t)
      BY <1>1, <2>1, <3>1, <3>2 DEF PoolTypeOK
    <3>3. CASE lockMutex(t)
      BY <1>1, <2>1, <3>1, <3>3 DEF PoolTypeOK
    <3>4. CASE publish(t)
      <4>1. t \in Int
        OBVIOUS
      <4> QED
        BY <1>1, <2>1, <3>1, <3>4, <4>1 DEF PoolTypeOK
    <3> QED
      BY <1>6, <3>2, <3>3, <3>4
  <2>3. /\ thread[t] \notin {"none", "loops"}
        /\ \A u \in PoolThreads \ {t} : thread'[u] = thread[u] /\ loop_'[u] = loop_[u]
    BY <1>1, <1>6 DEF PoolTypeOK
  <2>4. Published'
    BY <1>1, <1>6, <2>3 DEF Published, PoolTypeOK
  <2>5. Collected'
    <3>1. \A u \in PoolThreads : /\ thread[u] = "loops" => thread'[u] = "loops"
                                 /\ thread[u] = "none" => thread'[u] = "none"
      BY <2>3
    <3>2. /\ Len(loops_) \in Nat /\ Len(loops_) <= numThreads_
          /\ \A i \in 1..Len(loops_) : loops_[i] = i /\ thread[i] = "loops"
      BY <1>1 DEF Collected
    <3>3. \A i \in 1..Len(loops_) : i \in PoolThreads
      BY ONLY <3>2, PoolAssumption DEF PoolThreads
    <3>4. \A i \in 1..Len(loops_) : loops_[i] = i /\ thread'[i] = "loops"
      BY ONLY <3>1, <3>2, <3>3
    <3>5. \A u \in PoolThreads : thread'[u] # "none" =>
            \/ u <= Len(loops_)
            \/ poolPc \in {"lock", "test", "wait"} /\ u = Len(loops_) + 1
      BY ONLY <1>1, <3>1 DEF Collected
    <3> QED
      BY ONLY <1>1, <2>1, <3>4, <3>5 DEF Collected
  <2>6. DealtReady'
    BY <1>1, <2>1, <2>3 DEF DealtReady
  <2> QED
    BY <1>1, <1>2, <2>1, <2>2, <2>4, <2>5, <2>6 DEF PoolInv, PoolTypes
<1> QED
  BY <1>3, <1>4, <1>5, <1>6 DEF PoolNext, BaseStep

LEMMA PoolAlways == PoolSpec => []PoolInv
<1>1. PoolInit => PoolInv
  BY PoolInvInit
<1>2. PoolInv /\ [PoolNext]_poolVars => PoolInv'
  BY PoolInvNext
<1> QED
  BY <1>1, <1>2, PTL DEF PoolSpec

(* A loop that start() collects or getNextLoop() hands out is one that its *)
(* thread has constructed, published under mutex_ and is running, for any  *)
(* number of threads and however they are scheduled and woken.             *)
THEOREM PoolLoopsAreReady == PoolSpec => []LoopsAreReady
<1>1. PoolInv => LoopsAreReady
  BY DEF PoolInv, PoolTypes, Collected, DealtReady, LoopsAreReady
<1>2. PoolSpec => []PoolInv
  BY PoolAlways
<1> QED
  BY <1>1, <1>2, PTL

(* getNextLoop() deals the loops evenly, however often it is called. *)
THEOREM PoolDealtEvenly == PoolSpec => []DealtEvenly
<1>1. PoolInv => DealtEvenly
  <2>1. ASSUME PoolInv, NEW t \in PoolThreads, NEW u \in PoolThreads
        PROVE  Cardinality(Deals(t)) <= Cardinality(Deals(u)) + 1
    BY <2>1 DEF PoolInv, InTurn
  <2> QED
    BY <2>1 DEF DealtEvenly
<1>2. PoolSpec => []PoolInv
  BY PoolAlways
<1> QED
  BY <1>1, <1>2, PTL

-----------------------------------------------------------------------------
(***************************************************************************)
(* Poller: after every sequence of calls the array, the map and the        *)
(* channels' index_ agree.                                                 *)
(***************************************************************************)
Entries == [fd : Int, events : SUBSET Events]

Types ==
  /\ pollfds_ \in Seq(Entries)
  /\ index_ \in [PollChannels -> Int] /\ events_ \in [PollChannels -> SUBSET Events]
  /\ removed \in SUBSET PollChannels /\ active \in SUBSET PollChannels
  /\ aborted = FALSE
  /\ Fd \in [PollChannels -> Nat]

(* The entry at a registered channel's index_ is its own; it is ignored    *)
(* when the channel wants no events.                                       *)
Placed ==
  \A ch \in Registered :
    /\ index_[ch] \in 0..(Len(pollfds_) - 1)
    /\ pollfds_[index_[ch] + 1].fd \in {Fd[ch], Ignored(Fd[ch])}
    /\ pollfds_[index_[ch] + 1].events = events_[ch]
    /\ events_[ch] = {} => pollfds_[index_[ch] + 1].fd = Ignored(Fd[ch])

Full == \A i \in 1..Len(pollfds_) : \E ch \in Registered : index_[ch] = i - 1

(* PollChannels that live together have different descriptors. *)
Distinct ==
  \A ch, other \in PollChannels :
    index_[ch] >= 0 /\ index_[other] >= 0 /\ Fd[ch] = Fd[other] => ch = other

(* The map holds the registered channels, each under its descriptor. *)
Mapped ==
  /\ \A ch \in Registered : Fd[ch] \in DOMAIN channels_ /\ channels_[Fd[ch]] = ch
  /\ \A fd \in DOMAIN channels_ : \E ch \in Registered : fd = Fd[ch]

PollerInv == Types /\ Placed /\ Full /\ Distinct /\ Mapped

-----------------------------------------------------------------------------
(* No two registered channels have the same place: their descriptors, or   *)
(* the codes for "ignored", would be the same.                             *)
LEMMA OnePlaceEach ==
  ASSUME Types, Placed, Distinct, NEW ch \in Registered, NEW other \in Registered,
         index_[ch] = index_[other]
  PROVE  ch = other
<1>1. /\ ch \in PollChannels /\ other \in PollChannels
      /\ index_[ch] >= 0 /\ index_[other] >= 0
      /\ Fd[ch] \in Nat /\ Fd[other] \in Nat
  BY DEF Types, Registered
<1>2. PICK fd : fd = pollfds_[index_[ch] + 1].fd
  OBVIOUS
<1>3. fd \in {Fd[ch], -Fd[ch] - 1} /\ fd \in {Fd[other], -Fd[other] - 1}
  BY <1>2 DEF Placed, Ignored
<1>4. Fd[ch] = Fd[other]
  BY <1>1, <1>3
<1> QED
  BY <1>1, <1>4 DEF Distinct

LEMMA InvConsistent ==
  PollerInv => NoFailure /\ IndexConsistent
<1> SUFFICES ASSUME PollerInv
             PROVE  NoFailure /\ IndexConsistent
  OBVIOUS
<1>1. /\ pollfds_ \in Seq(Entries) /\ index_ \in [PollChannels -> Int]
      /\ events_ \in [PollChannels -> SUBSET Events]
      /\ removed \in SUBSET PollChannels /\ active \in SUBSET PollChannels /\ aborted = FALSE
  BY DEF PollerInv, Types
<1>2. ASSUME NEW i \in 1..Len(pollfds_)
      PROVE  /\ \E ch \in PollChannels : pollfds_[i].fd \in {Fd[ch], -Fd[ch] - 1}
             /\ pollfds_[i].events \in SUBSET Events
  <2>1. PICK ch \in Registered : index_[ch] = i - 1
    BY DEF PollerInv, Full
  <2>2. ch \in PollChannels /\ index_[ch] + 1 = i
    BY <2>1, LenProperties, <1>1 DEF Registered
  <2>3. pollfds_[i].fd \in {Fd[ch], -Fd[ch] - 1} /\ pollfds_[i].events = events_[ch]
    BY <2>2 DEF PollerInv, Placed, Ignored
  <2> QED
    BY <1>1, <2>2, <2>3
<1>3. PollerTypeOK
  BY <1>1, <1>2 DEF PollerTypeOK
<1>4. NoFailure
  BY <1>1 DEF NoFailure
<1> QED
  BY <1>3, <1>4 DEF PollerInv, Placed, Full, IndexConsistent, IndexIsRight

LEMMA InitInv == PollerInit => PollerInv
<1> SUFFICES ASSUME PollerInit PROVE PollerInv
  OBVIOUS
<1>1. Registered = {}
  BY DEF PollerInit, Registered
<1>2. pollfds_ \in Seq(Entries) /\ Len(pollfds_) = 0
  BY EmptySeq DEF PollerInit
<1>3. Types
  BY <1>2, FdAssumption DEF PollerInit, Types
<1>4. Placed /\ Distinct /\ Full
  BY <1>1, <1>2 DEF PollerInit, Placed, Distinct, Full
<1>5. Mapped
  BY <1>1 DEF PollerInit, Mapped
<1> QED
  BY <1>3, <1>4, <1>5 DEF PollerInv

LEMMA RenewInv ==
  ASSUME PollerInv, NEW ch \in PollChannels, renew(ch)
  PROVE  PollerInv'
<1>1. /\ index_ \in [PollChannels -> Int] /\ events_ \in [PollChannels -> SUBSET Events]
      /\ ch \in removed
  BY DEF PollerInv, Types, renew
<1>2. Registered' = Registered /\ ch \notin Registered
  BY <1>1 DEF renew, Registered
<1>3. \A other \in Registered : index_'[other] = index_[other] /\ events_'[other] = events_[other]
  BY <1>1, <1>2 DEF renew, Registered
<1>4. Types'
  BY DEF PollerInv, Types, renew
<1>5. Placed' /\ Full'
  <2>1. pollfds_' = pollfds_
    BY DEF renew
  <2>2. Placed'
    BY <1>2, <1>3, <2>1 DEF PollerInv, Placed
  <2>3. Full'
    BY <1>2, <1>3, <2>1 DEF PollerInv, Full
  <2> QED
    BY <2>2, <2>3
<1>6. Distinct'
  BY <1>1 DEF PollerInv, Distinct, renew
<1>7. Mapped'
  BY <1>2 DEF PollerInv, Mapped, renew
<1> QED
  BY <1>4, <1>5, <1>6, <1>7 DEF PollerInv

LEMMA HandledInv ==
  ASSUME PollerInv, NEW ch \in PollChannels, handled(ch)
  PROVE  PollerInv'
  BY DEF PollerInv, Types, Placed, Full, Distinct, Mapped, Registered, handled

(* Every descriptor that poll(2) looks at leads to a registered channel    *)
(* that wants events.                                                      *)
LEMMA PolledIsWanted ==
  ASSUME PollerInv, NEW i \in Polled
  PROVE  \E ch \in Registered : /\ events_[ch] # {}
                                /\ pollfds_[i].fd = Fd[ch]
                                  /\ Fd[ch] \in DOMAIN channels_
                                  /\ channels_[Fd[ch]] = ch
<1>1. i \in 1..Len(pollfds_) /\ pollfds_[i].fd >= 0
  BY DEF Polled
<1>2. PICK ch \in Registered : index_[ch] = i - 1
  BY <1>1 DEF PollerInv, Full
<1>3. index_[ch] + 1 = i /\ Fd[ch] \in Nat
  BY <1>1, <1>2, LenProperties DEF PollerInv, Types, Registered
<1>4. pollfds_[i].fd \in {Fd[ch], -Fd[ch] - 1}
  BY <1>3 DEF PollerInv, Placed, Ignored
<1>5. pollfds_[i].fd = Fd[ch] /\ pollfds_[i].fd # Ignored(Fd[ch])
  BY <1>1, <1>3, <1>4 DEF Ignored
<1>6. events_[ch] # {}
  BY <1>3, <1>5 DEF PollerInv, Placed
<1> QED
  BY <1>5, <1>6 DEF PollerInv, Mapped

LEMMA PollCorrect ==
  ASSUME PollerInv, poll
  PROVE  /\ PollerInv'
         /\ \A ch \in active' : ch \in Registered /\ events_[ch] # {}
<1>1. PICK hits \in SUBSET Polled :
        LET fds == {pollfds_[i].fd : i \in hits}
            found == fds \cap DOMAIN channels_
        IN  /\ active' = {channels_[fd] : fd \in found}
            /\ aborted' = (aborted \/ found # fds
                           \/ \E fd \in found : Fd[channels_[fd]] # fd)
  BY DEF poll
<1> DEFINE fds == {pollfds_[i].fd : i \in hits}
           found == fds \cap DOMAIN channels_
<1>2. ASSUME NEW fd \in fds
      PROVE  \E ch \in Registered : /\ events_[ch] # {} /\ fd = Fd[ch]
                                    /\ Fd[ch] \in DOMAIN channels_ /\ channels_[fd] = ch
  BY PolledIsWanted
<1> HIDE DEF fds
<1>3. found = fds
  BY <1>2
<1>4. \A fd \in found : Fd[channels_[fd]] = fd
  BY <1>2
<1>5. aborted' = FALSE
  <2>1. aborted = FALSE
    BY DEF PollerInv, Types
  <2>2. aborted' = (aborted \/ found # fds \/ \E fd \in found : Fd[channels_[fd]] # fd)
    BY <1>1 DEF fds
  <2> QED
    BY <1>3, <1>4, <2>1, <2>2
<1>6. active' = {channels_[fd] : fd \in found}
  BY <1>1 DEF fds
<1>7. \A ch \in active' : ch \in Registered /\ events_[ch] # {}
  BY <1>2, <1>3, <1>6
<1>8. active' \in SUBSET PollChannels
  BY <1>7 DEF Registered
<1>9. PollerInv'
  BY <1>5, <1>8 DEF PollerInv, Types, Placed, Full, Distinct, Mapped, Registered, poll
<1> QED
  BY <1>7, <1>9

-----------------------------------------------------------------------------
(* enableReading or enableWriting of a channel that is not in the array. *)
LEMMA UpdateNewInv ==
  ASSUME PollerInv, NEW ch \in PollChannels, NEW event \in Events, enable(ch, event),
         updateNew(ch, events_'[ch])
  PROVE  PollerInv'
<1> DEFINE mask == events_[ch] \cup {event}
           entry == [fd |-> Fd[ch], events |-> mask]
<1>1. /\ pollfds_ \in Seq(Entries) /\ Len(pollfds_) \in Nat
      /\ index_ \in [PollChannels -> Int] /\ events_ \in [PollChannels -> SUBSET Events]
      /\ removed \in SUBSET PollChannels /\ active \in SUBSET PollChannels /\ aborted = FALSE
      /\ Fd \in [PollChannels -> Nat]
  BY LenProperties DEF PollerInv, Types
<1>2. /\ ch \notin removed /\ index_[ch] < 0
      /\ \A other \in PollChannels \ {ch} : Fd[other] = Fd[ch] => index_[other] < 0
      /\ events_' = [events_ EXCEPT ![ch] = mask]
      /\ UNCHANGED <<removed, active>>
      /\ index_' = [index_ EXCEPT ![ch] = Len(pollfds_)]
      /\ channels_' = Put(channels_, Fd[ch], ch)
  BY DEF enable, updateNew
<1>3. /\ mask \in SUBSET Events /\ mask # {} /\ events_'[ch] = mask
      /\ entry \in Entries
  BY <1>1, <1>2 DEF Entries
<1>4. /\ pollfds_' \in Seq(Entries) /\ Len(pollfds_') = Len(pollfds_) + 1
      /\ \A i \in 1..Len(pollfds_) : pollfds_'[i] = pollfds_[i]
      /\ pollfds_'[Len(pollfds_) + 1] = entry
  <2>1. pollfds_' = Append(pollfds_, entry)
    BY <1>3 DEF updateNew
  <2> QED
    BY <1>1, <1>3, <2>1, AppendProperties
<1> HIDE DEF entry, mask
<1>5. /\ index_' \in [PollChannels -> Int] /\ index_'[ch] = Len(pollfds_)
      /\ \A other \in PollChannels \ {ch} :
           index_'[other] = index_[other] /\ events_'[other] = events_[other]
      /\ events_' \in [PollChannels -> SUBSET Events]
  BY <1>1, <1>2, <1>3
<1>6. Registered' = Registered \cup {ch} /\ ch \notin Registered
  BY <1>1, <1>2, <1>5 DEF Registered
<1>7. Fd[ch] \notin DOMAIN channels_
  <2> SUFFICES ASSUME Fd[ch] \in DOMAIN channels_
               PROVE  FALSE
    OBVIOUS
  <2>1. PICK other \in Registered : Fd[ch] = Fd[other]
    BY DEF PollerInv, Mapped
  <2>2. other \in PollChannels \ {ch} /\ index_[other] >= 0 /\ index_[other] \in Int
    BY <1>1, <1>6 DEF Registered
  <2> QED
    BY <1>2, <2>1, <2>2
<1>8. Types'
  <2>1. aborted' = FALSE
    BY <1>1, <1>7 DEF updateNew
  <2> QED
    BY <1>1, <1>2, <1>4, <1>5, <2>1 DEF Types
<1>9. Placed'
  <2> SUFFICES ASSUME NEW other \in Registered'
               PROVE  /\ index_'[other] \in 0..(Len(pollfds_') - 1)
                      /\ pollfds_'[index_'[other] + 1].fd \in {Fd[other], Ignored(Fd[other])}
                      /\ pollfds_'[index_'[other] + 1].events = events_'[other]
                      /\ events_'[other] = {}
                           => pollfds_'[index_'[other] + 1].fd = Ignored(Fd[other])
    BY DEF Placed
  <2>1. CASE other = ch
    <3>1. pollfds_'[index_'[ch] + 1].fd = Fd[ch] /\ pollfds_'[index_'[ch] + 1].events = mask
      BY <1>4, <1>5 DEF entry
    <3> QED
      BY <1>1, <1>3, <1>4, <1>5, <2>1, <3>1
  <2>2. CASE other # ch
    <3>1. other \in Registered /\ other \in PollChannels
      BY <1>6, <2>2 DEF Registered
    <3>2. /\ index_'[other] = index_[other] /\ events_'[other] = events_[other]
          /\ index_[other] \in 0..(Len(pollfds_) - 1)
      BY <1>5, <2>2, <3>1 DEF PollerInv, Placed
    <3>3. /\ pollfds_'[index_'[other] + 1] = pollfds_[index_[other] + 1]
          /\ index_'[other] \in 0..(Len(pollfds_') - 1)
      <4>1. index_[other] + 1 \in 1..Len(pollfds_)
        BY <1>1, <3>2
      <4> QED
        BY <1>1, <1>4, <3>2, <4>1
    <3> QED
      BY <3>1, <3>2, <3>3 DEF PollerInv, Placed
  <2> QED
    BY <2>1, <2>2
<1>10. Full'
  <2> SUFFICES ASSUME NEW i \in 1..Len(pollfds_')
               PROVE  \E other \in Registered' : index_'[other] = i - 1
    BY DEF Full
  <2>1. CASE i = Len(pollfds_) + 1
    BY <1>1, <1>5, <1>6, <2>1
  <2>2. CASE i \in 1..Len(pollfds_)
    <3>1. PICK other \in Registered : index_[other] = i - 1
      BY <2>2 DEF PollerInv, Full
    <3>2. index_'[other] = index_[other] /\ other \in Registered'
      BY <1>5, <1>6, <3>1 DEF Registered
    <3> QED
      BY <3>1, <3>2
  <2> QED
    BY <1>1, <1>4, <2>1, <2>2
<1>11. Distinct'
  <2> SUFFICES ASSUME NEW one \in PollChannels, NEW other \in PollChannels,
                      index_'[one] >= 0, index_'[other] >= 0, Fd[one] = Fd[other]
               PROVE  one = other
    BY DEF Distinct
  <2> QED
    BY <1>1, <1>2, <1>5 DEF PollerInv, Distinct
<1>12. Mapped'
  <2>1. /\ DOMAIN channels_' = DOMAIN channels_ \cup {Fd[ch]}
        /\ channels_'[Fd[ch]] = ch
        /\ \A fd \in DOMAIN channels_ : fd # Fd[ch] => channels_'[fd] = channels_[fd]
    BY <1>2 DEF Put
  <2>2. \A other \in Registered : Fd[other] \in DOMAIN channels_ /\ channels_[Fd[other]] = other
    BY DEF PollerInv, Mapped
  <2>3. \A fd \in DOMAIN channels_ : \E other \in Registered : fd = Fd[other]
    BY DEF PollerInv, Mapped
  <2> QED
    BY <1>6, <1>7, <2>1, <2>2, <2>3 DEF Mapped
<1> QED
  BY <1>8, <1>9, <1>10, <1>11, <1>12 DEF PollerInv

(* A call on a channel that has its entry, with its new events. *)
LEMMA UpdateOldInv ==
  ASSUME PollerInv, NEW ch \in PollChannels, ch \notin removed, NEW mask \in SUBSET Events,
         events_' = [events_ EXCEPT ![ch] = mask], updateOld(ch, mask),
         UNCHANGED <<removed, active>>
  PROVE  PollerInv'
<1>1. /\ pollfds_ \in Seq(Entries) /\ Len(pollfds_) \in Nat
      /\ index_ \in [PollChannels -> Int] /\ events_ \in [PollChannels -> SUBSET Events]
      /\ removed \in SUBSET PollChannels /\ active \in SUBSET PollChannels /\ aborted = FALSE
      /\ Fd \in [PollChannels -> Nat]
  BY LenProperties DEF PollerInv, Types
<1>2. ch \in Registered /\ UNCHANGED <<index_, channels_, removed>>
  BY DEF Registered, updateOld
<1>3. PICK i \in 1..Len(pollfds_) : i = index_[ch] + 1
  BY <1>1, <1>2 DEF PollerInv, Placed
<1>4. pollfds_[i] \in Entries /\ pollfds_[i].fd \in {Fd[ch], Ignored(Fd[ch])}
  BY <1>1, <1>2, <1>3, ElementOfSeq DEF PollerInv, Placed
<1>5. PICK entry : entry = [fd |-> ignoredFor(mask, Fd[ch], pollfds_[i].fd), events |-> mask]
  OBVIOUS
<1>6. /\ entry \in Entries /\ entry.fd \in {Fd[ch], Ignored(Fd[ch])}
      /\ entry.events = mask /\ (mask = {} => entry.fd = Ignored(Fd[ch]))
  <2>1. Fd[ch] \in Int /\ Ignored(Fd[ch]) \in Int
    BY <1>1 DEF Ignored
  <2> QED
    BY <1>4, <1>5, <2>1 DEF ignoredFor, Entries
<1>7. pollfds_' = [pollfds_ EXCEPT ![i] = entry]
  <2>1. pollfds_' = [pollfds_ EXCEPT ![i].events = mask,
                                     ![i].fd = ignoredFor(mask, Fd[ch], pollfds_[i].fd)]
    BY <1>3 DEF updateOld
  <2>2. pollfds_ \in [1..Len(pollfds_) -> Entries]
    BY <1>1, LenProperties
  <2>3. PICK r : r = [pollfds_[i] EXCEPT !.events = mask]
    OBVIOUS
  <2>4. [r EXCEPT !.fd = ignoredFor(mask, Fd[ch], pollfds_[i].fd)] = entry
    <3>1. r = [fd |-> pollfds_[i].fd, events |-> mask]
      BY <1>4, <2>3 DEF Entries
    <3> QED
      BY <1>5, <3>1
  <2>5. pollfds_' = [[pollfds_ EXCEPT ![i] = r] EXCEPT
                        ![i] = [@ EXCEPT !.fd = ignoredFor(mask, Fd[ch], pollfds_[i].fd)]]
    BY <2>1, <2>3
  <2>6. [pollfds_ EXCEPT ![i] = r][i] = r
    BY <2>2
  <2>7. pollfds_' = [[pollfds_ EXCEPT ![i] = r] EXCEPT ![i] = entry]
    BY <2>4, <2>5, <2>6, Zenon
  <2> QED
    BY <2>2, <2>7
<1>8. /\ pollfds_' \in Seq(Entries) /\ Len(pollfds_') = Len(pollfds_)
      /\ \A j \in 1..Len(pollfds_) :
           pollfds_'[j] = IF j = i THEN entry ELSE pollfds_[j]
  BY <1>1, <1>3, <1>6, <1>7, ExceptSeq
<1>9. Registered' = Registered
  BY <1>2 DEF Registered
<1>10. Types'
  <2>1. Points(channels_, Fd[ch], ch) /\ IndexIsRight(ch)
    BY <1>2 DEF PollerInv, Mapped, Placed, Points, IndexIsRight
  <2>2. aborted' = FALSE
    BY <1>1, <2>1 DEF updateOld
  <2> QED
    BY <1>1, <1>2, <1>8, <2>2 DEF Types
<1>11. Placed'
  <2> SUFFICES ASSUME NEW other \in Registered
               PROVE  /\ index_[other] \in 0..(Len(pollfds_) - 1)
                      /\ pollfds_'[index_[other] + 1].fd \in {Fd[other], Ignored(Fd[other])}
                      /\ pollfds_'[index_[other] + 1].events = events_'[other]
                      /\ events_'[other] = {}
                           => pollfds_'[index_[other] + 1].fd = Ignored(Fd[other])
    BY <1>2, <1>8, <1>9 DEF Placed
  <2>1. CASE other = ch
    <3>1. pollfds_'[index_[ch] + 1] = entry /\ events_'[ch] = mask
      BY <1>1, <1>3, <1>8
    <3> QED
      BY <1>2, <1>6, <2>1, <3>1 DEF PollerInv, Placed
  <2>2. CASE other # ch
    <3>1. index_[other] # index_[ch]
      BY <1>2, <2>2, OnePlaceEach DEF PollerInv
    <3>2. index_[other] \in 0..(Len(pollfds_) - 1) /\ events_'[other] = events_[other]
      BY <1>1, <2>2 DEF PollerInv, Placed, Registered
    <3>3. index_[ch] \in 0..(Len(pollfds_) - 1)
      BY <1>2 DEF PollerInv, Placed
    <3>4. index_[other] + 1 \in 1..Len(pollfds_) /\ index_[other] + 1 # i
      BY <1>1, <1>3, <3>1, <3>2, <3>3
    <3>5. pollfds_'[index_[other] + 1] = pollfds_[index_[other] + 1]
      BY <1>8, <3>4
    <3> QED
      BY <3>2, <3>5 DEF PollerInv, Placed
  <2> QED
    BY <2>1, <2>2
<1>12. Full' /\ Distinct' /\ Mapped'
  BY <1>2, <1>8, <1>9 DEF PollerInv, Full, Distinct, Mapped
<1> QED
  BY <1>10, <1>11, <1>12 DEF PollerInv

(* removeChannel moves the last entry, if it is another one, into the gap. *)
LEMMA RemoveInv ==
  ASSUME PollerInv, NEW ch \in PollChannels, removeChannel(ch)
  PROVE  PollerInv'
<1> DEFINE idx == index_[ch]
           n == Len(pollfds_)
<1>1. /\ pollfds_ \in Seq(Entries) /\ n \in Nat
      /\ index_ \in [PollChannels -> Int] /\ events_ \in [PollChannels -> SUBSET Events]
      /\ removed \in SUBSET PollChannels /\ active \in SUBSET PollChannels /\ aborted = FALSE
      /\ Fd \in [PollChannels -> Nat]
  BY LenProperties DEF PollerInv, Types
<1>2. /\ ch \in Registered /\ ch \notin removed /\ events_[ch] = {}
      /\ removed' = removed \cup {ch} /\ UNCHANGED <<events_, active>>
      /\ channels_' = Erase(channels_, Fd[ch])
  BY DEF removeChannel, Registered
<1>3. idx \in 0..(n - 1) /\ idx + 1 \in 1..n /\ n \in 1..n /\ idx \in Int
  BY <1>1, <1>2 DEF PollerInv, Placed
<1>4. PICK last \in Registered : index_[last] = n - 1
  BY <1>3 DEF PollerInv, Full
<1>5. last \in PollChannels /\ Fd[last] \in Nat /\ (last = ch <=> idx = n - 1)
  BY <1>1, <1>2, <1>4, OnePlaceEach DEF PollerInv, Registered
<1>6. aborted' = FALSE
  <2>1. Points(channels_, Fd[ch], ch) /\ IndexIsRight(ch)
    BY <1>2 DEF PollerInv, Mapped, Placed, Points, IndexIsRight
  <2>2. pollfds_[idx + 1] = [fd |-> Ignored(Fd[ch]), events |-> {}]
    <3>1. pollfds_[idx + 1] \in Entries
      BY <1>1, <1>3, ElementOfSeq
    <3>2. pollfds_[idx + 1].fd = Ignored(Fd[ch]) /\ pollfds_[idx + 1].events = {}
      BY <1>2 DEF PollerInv, Placed
    <3> QED
      BY <3>1, <3>2 DEF Entries
  <2> QED
    BY <1>1, <2>1, <2>2 DEF removeChannel
(* The entry that fills the gap, and what its channel learns. *)
<1>7. /\ index_' \in [PollChannels -> Int]
      /\ \A other \in PollChannels : other # last => index_'[other] = index_[other]
      /\ index_'[last] = idx
  <2>1. CASE idx = n - 1
    <3>1. index_' = index_
      BY <2>1, Zenon DEF removeChannel
    <3> QED
      BY <1>1, <1>4, <1>5, <2>1, <3>1
  <2>2. CASE idx # n - 1
    <3>1. moved(idx)
      BY <2>2, Zenon DEF removeChannel
    <3>2. index_[last] + 1 = n
      BY <1>1, <1>4
    <3>3. pollfds_[n].fd \in {Fd[last], -Fd[last] - 1}
      BY <1>4, <3>2 DEF PollerInv, Placed, Ignored
    <3>4. (IF pollfds_[n].fd < 0 THEN -pollfds_[n].fd - 1 ELSE pollfds_[n].fd) = Fd[last]
      BY <1>5, <3>3
    <3>5. channels_[Fd[last]] = last
      BY <1>4 DEF PollerInv, Mapped
    <3>6. index_' = [index_ EXCEPT ![last] = idx]
      BY <3>1, <3>4, <3>5, Zenon DEF moved
    <3> QED
      BY <1>1, <1>3, <1>5, <3>6
  <2> QED
    BY <2>1, <2>2
<1>8. /\ pollfds_' \in Seq(Entries) /\ Len(pollfds_') = n - 1
      /\ \A i \in 1..(n - 1) :
           pollfds_'[i] = IF i = idx + 1 THEN pollfds_[n] ELSE pollfds_[i]
  <2>1. PICK filled : filled = IF idx = n - 1 THEN pollfds_
                               ELSE [pollfds_ EXCEPT ![idx + 1] = pollfds_[n]]
    OBVIOUS
  <2>2. pollfds_' = SubSeq(filled, 1, n - 1)
    BY <2>1, Zenon DEF removeChannel
  <2>3. pollfds_[n] \in Entries
    BY <1>1, <1>3, ElementOfSeq
  <2>4. /\ filled \in Seq(Entries) /\ Len(filled) = n
        /\ \A i \in 1..(n - 1) :
             filled[i] = IF i = idx + 1 THEN pollfds_[n] ELSE pollfds_[i]
    <3>1. CASE idx = n - 1
      BY <1>1, <1>3, <2>1, <3>1
    <3>2. CASE idx # n - 1
      <4>1. filled = [pollfds_ EXCEPT ![idx + 1] = pollfds_[n]]
        BY <2>1, <3>2
      <4>2. /\ filled \in Seq(Entries) /\ Len(filled) = n
            /\ \A i \in 1..n : filled[i] = IF i = idx + 1 THEN pollfds_[n] ELSE pollfds_[i]
        BY <1>1, <1>3, <2>3, <4>1, ExceptSeq
      <4>3. 1..(n - 1) \subseteq 1..n
        BY <1>1
      <4> QED
        BY <4>2, <4>3
    <3> QED
      BY <3>1, <3>2
  <2>5. \A i \in 1..(n - 1) : filled[i] \in Entries
    <3>1. \A i \in 1..(n - 1) : i \in 1..Len(filled)
      BY <1>1, <2>4
    <3> QED
      BY <2>4, <3>1, ElementOfSeq
  <2>6. /\ SubSeq(filled, 1, n - 1) \in Seq(Entries)
        /\ Len(SubSeq(filled, 1, n - 1)) = IF 1 <= n - 1 THEN (n - 1) - 1 + 1 ELSE 0
        /\ \A i \in 1..((n - 1) - 1 + 1) : SubSeq(filled, 1, n - 1)[i] = filled[1 + i - 1]
    BY <1>1, <1>3, <2>5, SubSeqProperties
  <2>7. /\ (IF 1 <= n - 1 THEN (n - 1) - 1 + 1 ELSE 0) = n - 1
        /\ (n - 1) - 1 + 1 = n - 1
        /\ \A i \in 1..(n - 1) : 1 + i - 1 = i
    <3>1. n \in Int /\ n >= 1
      BY <1>1, <1>3
    <3> HIDE DEF n
    <3>2. CASE n = 1
      BY <3>2
    <3>3. CASE n > 1
      BY <3>1, <3>3
    <3> QED
      BY <3>1, <3>2, <3>3
  <2> QED
    BY <2>2, <2>4, <2>6, <2>7
<1> HIDE DEF idx, n
<1>9. Registered' = Registered \ {ch}
  BY <1>2, <1>3, <1>4, <1>5, <1>7 DEF Registered, idx
<1>10. Types'
  BY <1>1, <1>2, <1>6, <1>7, <1>8 DEF Types
<1>11. Placed'
  <2> SUFFICES ASSUME NEW other \in Registered, other # ch
               PROVE  /\ index_'[other] \in 0..((n - 1) - 1)
                      /\ pollfds_'[index_'[other] + 1].fd \in {Fd[other], Ignored(Fd[other])}
                      /\ pollfds_'[index_'[other] + 1].events = events_[other]
                      /\ events_[other] = {}
                           => pollfds_'[index_'[other] + 1].fd = Ignored(Fd[other])
    BY <1>2, <1>8, <1>9 DEF Placed
  <2>1. index_'[other] \in 0..((n - 1) - 1)
        /\ pollfds_'[index_'[other] + 1] = pollfds_[index_[other] + 1]
    <3>1. CASE other = last
      <4>1. /\ idx # n - 1 /\ index_'[other] = idx /\ index_[other] + 1 = n
            /\ idx \in 0..((n - 1) - 1) /\ idx + 1 \in 1..(n - 1)
        BY <1>1, <1>3, <1>4, <1>5, <1>7, <3>1
      <4> QED
        BY <1>8, <4>1
    <3>2. CASE other # last
      <4>1. /\ other \in PollChannels /\ index_'[other] = index_[other]
            /\ index_[other] \in 0..(n - 1)
        BY <1>7, <3>2 DEF PollerInv, Placed, Registered, n
      <4>2. index_[other] # n - 1 /\ index_[other] # idx
        BY <1>2, <1>4, <3>2, OnePlaceEach DEF PollerInv, idx
      <4>3. /\ index_[other] \in 0..((n - 1) - 1)
            /\ index_[other] + 1 \in 1..(n - 1) /\ index_[other] + 1 # idx + 1
        BY <1>1, <1>3, <4>1, <4>2
      <4> QED
        BY <1>8, <4>1, <4>3
    <3> QED
      BY <3>1, <3>2
  <2> QED
    BY <2>1 DEF PollerInv, Placed
<1>12. Full'
  <2> SUFFICES ASSUME NEW i \in 1..(n - 1)
               PROVE  \E other \in Registered \ {ch} : index_'[other] = i - 1
    BY <1>8, <1>9 DEF Full
  <2>1. CASE i = idx + 1
    <3>1. last # ch /\ index_'[last] = i - 1
      BY <1>1, <1>3, <1>5, <1>7, <2>1
    <3> QED
      BY <1>4, <3>1
  <2>2. CASE i # idx + 1
    <3>1. i \in 1..n
      BY <1>1
    <3>2. PICK other \in Registered : index_[other] = i - 1
      BY <3>1 DEF PollerInv, Full, n
    <3>3. other # ch /\ other # last
      BY <1>1, <1>3, <1>4, <2>2, <3>2 DEF idx
    <3> QED
      BY <1>7, <3>2, <3>3 DEF Registered
  <2> QED
    BY <2>1, <2>2
<1>13. Distinct'
  <2>1. \A other \in PollChannels : index_'[other] >= 0 => index_[other] >= 0
    BY <1>4, <1>7 DEF Registered
  <2> QED
    BY <2>1 DEF PollerInv, Distinct
<1>14. Mapped'
  <2>1. /\ DOMAIN channels_' = DOMAIN channels_ \ {Fd[ch]}
        /\ \A fd \in DOMAIN channels_ : fd # Fd[ch] => channels_'[fd] = channels_[fd]
    BY <1>2 DEF Erase
  <2>2. \A other \in Registered : other # ch => Fd[other] # Fd[ch]
    BY <1>2 DEF PollerInv, Distinct, Registered
  <2> QED
    BY <1>9, <2>1, <2>2 DEF PollerInv, Mapped
<1> QED
  BY <1>10, <1>11, <1>12, <1>13, <1>14 DEF PollerInv

-----------------------------------------------------------------------------
LEMMA EnableInv ==
  ASSUME PollerInv, NEW ch \in PollChannels, NEW event \in Events, enable(ch, event)
  PROVE  PollerInv'
<1>1. CASE updateNew(ch, events_'[ch])
  BY <1>1, UpdateNewInv
<1>2. CASE updateOld(ch, events_'[ch])
  <2> DEFINE mask == events_[ch] \cup {event}
  <2>1. events_ \in [PollChannels -> SUBSET Events]
    BY DEF PollerInv, Types
  <2>2. events_' = [events_ EXCEPT ![ch] = mask]
    BY DEF enable
  <2>3. mask \in SUBSET Events /\ events_'[ch] = mask
    BY <2>1, <2>2
  <2> HIDE DEF mask
  <2>4. updateOld(ch, mask)
    BY <1>2, <2>3
  <2>5. ch \notin removed /\ UNCHANGED <<removed, active>>
    BY DEF enable
  <2> QED
    BY <2>2, <2>3, <2>4, <2>5, UpdateOldInv
<1> QED
  BY <1>1, <1>2 DEF enable

LEMMA DisableInv ==
  ASSUME PollerInv, NEW ch \in PollChannels, NEW which \in SUBSET Events, disable(ch, which)
  PROVE  PollerInv'
<1> DEFINE mask == events_[ch] \ which
<1>1. events_ \in [PollChannels -> SUBSET Events]
  BY DEF PollerInv, Types
<1>2. events_' = [events_ EXCEPT ![ch] = mask]
  BY DEF disable
<1>3. mask \in SUBSET Events /\ events_'[ch] = mask
  BY <1>1, <1>2
<1> HIDE DEF mask
<1>4. updateOld(ch, mask)
  BY <1>3 DEF disable
<1>5. ch \notin removed /\ UNCHANGED <<removed, active>>
  BY DEF disable
<1> QED
  BY <1>2, <1>3, <1>4, <1>5, UpdateOldInv

LEMMA NextInv == PollerInv /\ [PollerNext]_pollerVars => PollerInv'
<1> SUFFICES ASSUME PollerInv, [PollerNext]_pollerVars PROVE PollerInv'
  OBVIOUS
<1>1. CASE UNCHANGED pollerVars
  BY <1>1 DEF pollerVars, PollerInv, Types, Placed, Full, Distinct, Mapped, Registered
<1>2. CASE poll
  BY <1>2, PollCorrect
<1>3. ASSUME NEW ch \in PollChannels, NEW event \in Events, enable(ch, event)
      PROVE  PollerInv'
  BY <1>3, EnableInv
<1>4. ASSUME NEW ch \in PollChannels, NEW which \in {{"out"}, Events}, disable(ch, which)
      PROVE  PollerInv'
  <2>1. which \in SUBSET Events
    BY DEF Events
  <2> QED
    BY <1>4, <2>1, DisableInv
<1>5. ASSUME NEW ch \in PollChannels, removeChannel(ch)
      PROVE  PollerInv'
  BY <1>5, RemoveInv
<1>6. ASSUME NEW ch \in PollChannels, renew(ch)
      PROVE  PollerInv'
  BY <1>6, RenewInv
<1>7. ASSUME NEW ch \in PollChannels, handled(ch)
      PROVE  PollerInv'
  BY <1>7, HandledInv
<1> QED
  BY <1>1, <1>2, <1>3, <1>4, <1>5, <1>6, <1>7, Zenon DEF PollerNext

LEMMA PollerInvHolds == PollerSpec => []PollerInv
  BY InitInv, NextInv, PTL DEF PollerSpec

(* No assert of updateChannel, removeChannel and fillActiveChannels fails. *)
THEOREM PollerAssertsHold == PollerSpec => []NoFailure
  BY PollerInvHolds, InvConsistent, PTL

(* After any number of removals that move entries, every channel's index_  *)
(* is the place of its own entry and the array has no other entries.       *)
THEOREM PollerIndexConsistent == PollerSpec => []IndexConsistent
  BY PollerInvHolds, InvConsistent, PTL

(* poll() adds only channels that are registered and want some event.      *)
THEOREM PollerReportsOnlyWanted == PollerSpec => OnlyWantedIsReported
<1> DEFINE Wanted == \A ch \in active' \ active : ch \in Registered /\ events_[ch] # {}
<1>1. PollerInv /\ [PollerNext]_pollerVars => [Wanted]_pollerVars
  <2> SUFFICES ASSUME PollerInv, PollerNext PROVE Wanted
    OBVIOUS
  <2>1. CASE poll
    BY <2>1, PollCorrect
  <2>2. ASSUME NEW ch \in PollChannels,
               \/ \E event \in Events : enable(ch, event)
               \/ \E which \in {{"out"}, Events} : disable(ch, which)
               \/ removeChannel(ch) \/ renew(ch) \/ handled(ch)
        PROVE  Wanted
    <3>1. active' \subseteq active
      BY <2>2 DEF enable, disable, removeChannel, renew, handled
    <3> QED
      BY <3>1
  <2> QED
    BY <2>1, <2>2, Zenon DEF PollerNext
<1> QED
  BY <1>1, PollerInvHolds, PTL DEF PollerSpec, OnlyWantedIsReported
=============================================================================
