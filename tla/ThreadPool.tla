----------------------------- MODULE ThreadPool -----------------------------
(***************************************************************************)
(* tractor::ThreadPool and tractor::Thread (src/ThreadPool.cpp): the base  *)
(* loop's thread starts the threads one after the other, waits for each to *)
(* publish its EventLoop, and then deals loops to connections in turn.     *)
(* Each Thread has its own mutex_ and condition variable.                  *)
(***************************************************************************)
EXTENDS Integers, Sequences, FiniteSets

CONSTANTS
  numThreads_,
  MaxDeals       \* bound on the calls of getNextLoop

ASSUME PoolAssumption == numThreads_ \in Nat /\ MaxDeals \in Nat

VARIABLES
  started_,
  loops_,
  next_,
  poolPc,     \* where the base thread is in start() and startLoop()
  thread,     \* where each thread is in threadFunc_
  loop_,      \* Thread::loop_, NULL or the thread's own loop
  mutex_,     \* the holder of each Thread's mutex_
  notified,   \* the base thread has been notified while it waited
  dealt       \* history: what the calls of getNextLoop returned

poolVars == <<started_, loops_, next_, poolPc, thread, loop_, mutex_, notified, dealt>>

PoolThreads == 1..numThreads_
BaseLoop == 0
NULL == -1

PoolInit ==
  /\ started_ = FALSE
  /\ loops_ = << >> /\ next_ = 0
  /\ poolPc = "out"
  /\ thread = [t \in PoolThreads |-> "none"]
  /\ loop_ = [t \in PoolThreads |-> NULL]
  /\ mutex_ = [t \in PoolThreads |-> "free"]
  /\ notified = FALSE
  /\ dealt = << >>

-----------------------------------------------------------------------------
(***************************************************************************)
(* The base thread.  The thread being started is the next one of loops_.   *)
(***************************************************************************)
Current == Len(loops_) + 1

start ==
  /\ poolPc = "out" /\ ~started_
  /\ started_' = TRUE
  /\ poolPc' = "for"
  /\ UNCHANGED <<loops_, next_, thread, loop_, mutex_, notified, dealt>>

(* startLoop: the std::thread is created ... *)
createThread ==
  /\ poolPc = "for" /\ Current \in PoolThreads
  /\ thread' = [thread EXCEPT ![Current] = "constructs"]
  /\ poolPc' = "lock"
  /\ UNCHANGED <<started_, loops_, next_, loop_, mutex_, notified, dealt>>

(* ... mutex_ is taken, at first and after every wait ... *)
lock ==
  /\ poolPc = "lock" /\ mutex_[Current] = "free"
  /\ mutex_' = [mutex_ EXCEPT ![Current] = "base"]
  /\ poolPc' = "test"
  /\ UNCHANGED <<started_, loops_, next_, thread, loop_, notified, dealt>>

mustWait_Unconditionally == TRUE

mustWait_Never == FALSE

(* while (loop_ == NULL) *)
mustWait == loop_[Current] = NULL

(* ... and given up, to wait or to return loop_. *)
test ==
  /\ poolPc = "test"
  /\ mutex_' = [mutex_ EXCEPT ![Current] = "free"]
  /\ IF mustWait
     THEN poolPc' = "wait" /\ UNCHANGED loops_
     ELSE poolPc' = "for" /\ loops_' = Append(loops_, loop_[Current])
  /\ notified' = FALSE
  /\ UNCHANGED <<started_, next_, thread, loop_, dealt>>

(* condition_variable_.wait returns: notified, or for no reason. *)
wake ==
  /\ poolPc = "wait" /\ notified
  /\ poolPc' = "lock"
  /\ UNCHANGED <<started_, loops_, next_, thread, loop_, mutex_, notified, dealt>>

wakeSpuriously ==
  /\ poolPc = "wait" /\ ~notified
  /\ poolPc' = "lock"
  /\ UNCHANGED <<started_, loops_, next_, thread, loop_, mutex_, notified, dealt>>

startReturns ==
  /\ poolPc = "for" /\ Current \notin PoolThreads
  /\ poolPc' = "out"
  /\ UNCHANGED <<started_, loops_, next_, thread, loop_, mutex_, notified, dealt>>

advance_Stays == IF next_ + 1 >= Len(loops_) THEN next_ ELSE next_ + 1

(* ++next_, back to 0 at the end *)
advance == IF next_ + 1 >= Len(loops_) THEN 0 ELSE next_ + 1

(* getNextLoop, by the base thread; the base loop if there is no other. *)
getNextLoop ==
  /\ poolPc = "out" /\ Len(dealt) < MaxDeals
  /\ IF loops_ # << >>
     THEN /\ dealt' = Append(dealt, loops_[next_ + 1])
          /\ next_' = advance
     ELSE /\ dealt' = Append(dealt, BaseLoop)
          /\ UNCHANGED next_
  /\ UNCHANGED <<started_, loops_, poolPc, thread, loop_, mutex_, notified>>

-----------------------------------------------------------------------------
(***************************************************************************)
(* Thread t, in threadFunc_: the EventLoop is constructed on its stack,    *)
(* published under mutex_, and run.                                        *)
(***************************************************************************)
constructLoop(t) ==
  /\ thread[t] = "constructs"
  /\ thread' = [thread EXCEPT ![t] = "locks"]
  /\ UNCHANGED <<started_, loops_, next_, poolPc, loop_, mutex_, notified, dealt>>

lockMutex(t) ==
  /\ thread[t] = "locks" /\ mutex_[t] = "free"
  /\ mutex_' = [mutex_ EXCEPT ![t] = "thread"]
  /\ thread' = [thread EXCEPT ![t] = "publishes"]
  /\ UNCHANGED <<started_, loops_, next_, poolPc, loop_, notified, dealt>>

(* loop_ = &loop, notify_all and the unlock. *)
publish(t) ==
  /\ thread[t] = "publishes"
  /\ loop_' = [loop_ EXCEPT ![t] = t]
  /\ notified' = (notified \/ (poolPc = "wait" /\ Current = t))
  /\ mutex_' = [mutex_ EXCEPT ![t] = "free"]
  /\ thread' = [thread EXCEPT ![t] = "loops"]
  /\ UNCHANGED <<started_, loops_, next_, poolPc, dealt>>

-----------------------------------------------------------------------------
BaseStep ==
  createThread \/ lock \/ test \/ wake \/ startReturns

ThreadStep(t) == constructLoop(t) \/ lockMutex(t) \/ publish(t)

PoolNext ==
  \/ start \/ BaseStep \/ wakeSpuriously \/ getNextLoop
  \/ \E t \in PoolThreads : ThreadStep(t)

PoolSpec == PoolInit /\ [][PoolNext]_poolVars

(* Threads are scheduled; nobody has to call start or getNextLoop, and a   *)
(* wait need not return without a notification.  Strong fairness of        *)
(* lockMutex: the base thread may wake up spuriously and take mutex_ over  *)
(* and over, but blocks without it in between, so the scheduler lets the   *)
(* new thread have it in the end.                                          *)
PoolFairSpec == /\ PoolSpec
                /\ WF_poolVars(BaseStep)
                /\ \A t \in PoolThreads : WF_poolVars(ThreadStep(t)) /\ SF_poolVars(lockMutex(t))

-----------------------------------------------------------------------------
(* Types; next_ always is an index of loops_, or 0. *)
PoolTypeOK ==
  /\ started_ \in BOOLEAN /\ notified \in BOOLEAN
  /\ poolPc \in {"out", "for", "lock", "test", "wait"}
  /\ thread \in [PoolThreads -> {"none", "constructs", "locks", "publishes", "loops"}]
  /\ mutex_ \in [PoolThreads -> {"free", "base", "thread"}]
  /\ next_ = 0 \/ next_ \in 1..(Len(loops_) - 1)

(* A loop handed out, to the pool or to a connection, is one its thread    *)
(* has constructed and published, and the threads are in order.            *)
LoopsAreReady ==
  /\ PoolTypeOK
  /\ \A i \in 1..Len(loops_) : loops_[i] = i /\ thread[i] = "loops"
  /\ \A i \in 1..Len(dealt) : dealt[i] # BaseLoop => thread[dealt[i]] = "loops"

(* start() returns: no notification is lost between the test of loop_ and  *)
(* the wait, however the threads are scheduled.                            *)
StartReturns == started_ ~> (poolPc = "out" /\ Len(loops_) = numThreads_)

(* The calls of getNextLoop that returned the loop of thread t. *)
Deals(t) == {i \in 1..Len(dealt) : dealt[i] = t}

(* The calls of getNextLoop() since start() are dealt evenly: at any time  *)
(* the loops' shares differ by one at most.                                *)
DealtEvenly ==
  \A t, u \in PoolThreads : Cardinality(Deals(t)) <= Cardinality(Deals(u)) + 1
=============================================================================
