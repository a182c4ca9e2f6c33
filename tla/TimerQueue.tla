----------------------------- MODULE TimerQueue -----------------------------
(***************************************************************************)
(* tractor::TimerQueue and tractor::Timer (src/TimerQueue.cpp, Timer.cpp): *)
(* timers ordered by expiration, one timerfd armed for the earliest.       *)
(*                                                                         *)
(* Time is counted in units of 100 microseconds, the least delay           *)
(* howMuchTimeFromNow gives.  Two clocks matter: expirations are read from *)
(* gettimeofday (wall), which may be set while the program runs; the       *)
(* timerfd counts CLOCK_MONOTONIC, which only passes.                      *)
(*                                                                         *)
(* A timer is a number, its address.  The set timers_ holds addresses,     *)
(* which own nothing; the objects belong to the shared_ptrs of addTimer's  *)
(* caller and of the functor it queues, and reset() deletes them as well.  *)
(* When a destroyed timer is used, or one that a shared_ptr owns deleted,  *)
(* behaviour is undefined and the model stops.                             *)
(***************************************************************************)
EXTENDS Integers, Sequences, FiniteSets

CONSTANTS
  Timers,      \* addresses of the timers, each added once
  Repeating,   \* those with interval > 0.0
  Interval,    \* of those, in units of time; 0 for an interval of less
  Droppable,   \* those whose pointer the caller may let go of
  Whens,       \* the expirations that callers ask for
  MaxTime,     \* bound on the wall clock
  MaxSets      \* bound on how often the wall clock is set

ASSUME TimersAssumption ==
  /\ Timers \subseteq Nat /\ Repeating \subseteq Timers
  /\ Droppable \subseteq Timers
  /\ Interval \in [Repeating -> Nat]
  /\ MaxTime \in Nat /\ MaxSets \in Nat
  /\ Whens \subseteq 1..MaxTime

VARIABLES
  timers_,       \* pairs <<expiration, timer>>
  expiration_,   \* of every timer
  pending,       \* addTimerInLoop functors in the loop's queue
  pc,            \* where the loop thread is
  now,           \* local of handleRead
  expired,       \* local of handleRead: what getExpired returned
  left,          \* the part of expired still to be run
  live,          \* timers whose object exists
  held,          \* timers whose pointer the caller still has
  alarm,         \* kernel: time until the timerfd expires, 0 if not armed
  readable,      \* kernel: the timerfd has expired and was not read
  wall,          \* gettimeofday
  sets,          \* how often the wall clock was set
  jumped,        \* history: by how much it was set forward in all
  due            \* history: when each timer was promised to run, or Never

queueVars == <<timers_, expiration_, pending, pc, now, expired, left>>
objectVars == <<live, held>>
timerfdVars == <<alarm, readable>>
clockVars == <<wall, sets, jumped>>
vars == <<queueVars, objectVars, timerfdVars, clockVars, due>>

Never == -1
Stopped == pc \in {"undefined", "destroyed"}

Init ==
  /\ timers_ = {} /\ expiration_ = [t \in Timers |-> Never]
  /\ pending = << >>
  /\ pc = "loop" /\ now = 0 /\ expired = {} /\ left = {}
  /\ live = {} /\ held = {}
  /\ alarm = 0 /\ readable = FALSE
  /\ wall = 0 /\ sets = 0 /\ jumped = 0
  /\ due = [t \in Timers |-> Never]

-----------------------------------------------------------------------------
Greater(a, b) == IF a > b THEN a ELSE b

(* The order of std::set<Entry>: by expiration, then by address. *)
Precedes(d, e) == d[1] < e[1] \/ (d[1] = e[1] /\ d[2] <= e[2])

(* *begin() *)
First(entries) == CHOOSE d \in entries : \A e \in entries : Precedes(d, e)

howMuchTimeFromNow_MayBeZero(when) == Greater(when - wall, 0)

howMuchTimeFromNow(when) == Greater(when - wall, 1)

(* timerfd_settime also forgets an expiration that was not read. *)
resetTimerfd(when) ==
  /\ alarm' = howMuchTimeFromNow(when)
  /\ readable' = FALSE

earliestChanged_FirstOnly(when) == timers_ = {}

(* What insert returns.  Its assert, that the entry was not there, follows *)
(* from EachTimerIsFiledOnce and has no flag of its own.                   *)
earliestChanged(when) == timers_ = {} \/ when < First(timers_)[1]

addTimerInLoop(t, when) ==
  /\ timers_' = timers_ \cup {<<when, t>>}
  /\ IF earliestChanged(when) THEN resetTimerfd(when) ELSE UNCHANGED timerfdVars

-----------------------------------------------------------------------------
(* The loop thread is in user code: a callback of some other channel, a    *)
(* functor, or the callback of a timer.                                    *)
InUserCode == pc \in {"loop", "reported"} \/ (pc = "run" /\ left # expired)

(* make_shared<Timer>(cb, when, interval) *)
newTimer(t, when) ==
  /\ ~Stopped /\ expiration_[t] = Never
  /\ expiration_' = [expiration_ EXCEPT ![t] = when]
  /\ due' = [due EXCEPT ![t] = when]
  /\ live' = live \cup {t}
  /\ held' = held \cup {t}

(* addTimer by the loop thread: runInLoop calls addTimerInLoop at once. *)
addTimerSelf(t, when) ==
  /\ InUserCode
  /\ newTimer(t, when)
  /\ addTimerInLoop(t, when)
  /\ UNCHANGED <<pending, pc, now, expired, left, clockVars>>

(* addTimer by another thread: addTimerInLoop is queued. *)
addTimer(t, when) ==
  /\ newTimer(t, when)
  /\ pending' = Append(pending, t)
  /\ UNCHANGED <<timers_, pc, now, expired, left, timerfdVars, clockVars>>

Functor(t) == \E i \in 1..Len(pending) : pending[i] = t

(* The loop runs a queued addTimerInLoop and then destroys the functor,    *)
(* with it the last pointer if the caller has dropped his.                 *)
runFunctor ==
  /\ pc = "loop" /\ pending # << >>
  /\ LET t == Head(pending)
     IN  /\ addTimerInLoop(t, expiration_[t])
         /\ live' = IF t \in held THEN live ELSE live \ {t}
  /\ pending' = Tail(pending)
  /\ UNCHANGED <<expiration_, pc, now, expired, left, held, clockVars, due>>

(* The caller lets go of the pointer that addTimer returned, as            *)
(* EventLoop::runAt does at once; it destroys a timer that reset() has     *)
(* deleted for the second time.                                            *)
userDrops(t) ==
  /\ ~Stopped /\ t \in held \cap Droppable
  /\ held' = held \ {t}
  /\ live' = IF Functor(t) THEN live ELSE live \ {t}
  /\ pc' = IF t \in live THEN pc ELSE "undefined"
  /\ UNCHANGED <<timers_, expiration_, pending, now, expired, left, timerfdVars,
                 clockVars, due>>

-----------------------------------------------------------------------------
(* poll() puts timerfdChannel_ among the active channels; callbacks of     *)
(* others may come first.                                                  *)
poll ==
  /\ pc = "loop" /\ readable
  /\ pc' = "reported"
  /\ UNCHANGED <<timers_, expiration_, pending, now, expired, left, objectVars,
                 timerfdVars, clockVars, due>>

getExpired_Ahead == {e \in timers_ : e[1] <= wall + 1}

(* The entries below (now, UINTPTR_MAX); the assert, that those from there *)
(* on are later than now, is what the sentry means.                        *)
getExpired == {e \in timers_ : e[1] <= wall}

(* handleRead: the time, readTimerfd (which may find nothing to read, if   *)
(* the timerfd was armed again since poll()) and getExpired.               *)
handleRead ==
  /\ pc = "reported"
  /\ now' = wall
  /\ readable' = FALSE
  /\ expired' = getExpired /\ left' = getExpired
  /\ timers_' = timers_ \ getExpired
  /\ pc' = "run"
  /\ UNCHANGED <<expiration_, pending, objectVars, alarm, clockVars, due>>

(* it->second->run(), in the order of the set. *)
runTimer ==
  /\ pc = "run" /\ left # {} /\ First(left)[2] \in live
  /\ LET t == First(left)[2]
     IN  due' = [due EXCEPT ![t] = IF t \in Repeating THEN now + Interval[t] ELSE Never]
  /\ left' = left \ {First(left)}
  /\ UNCHANGED <<timers_, expiration_, pending, pc, now, expired, objectVars,
                 timerfdVars, clockVars>>

(* Timer::restart of a repeating timer. *)
restart(t) == now + Interval[t]

kept_None(ran) == {}

(* The timers of a batch that reset() inserts again. *)
kept(ran) == ran \cap Repeating

deleted_All(ran) == ran

deleted(ran) == ran \ Repeating

(* nextExpire is not initialised when timers_ is empty: whatever it holds  *)
(* arms the timerfd for some time or leaves it.                            *)
nextExpire(entries) ==
  \/ entries # {} /\ resetTimerfd(First(entries)[1])
  \/ entries = {} /\ UNCHANGED timerfdVars
  \/ entries = {} /\ \E when \in 1..MaxTime : resetTimerfd(when)

(* timers_ when reset() has inserted those that repeat. *)
inserted(ran) == timers_ \cup {<<restart(t), t>> : t \in kept(ran)}

(* What is dereferenced next: the timer to run, or all that reset() looks  *)
(* at, the first of timers_ included.                                      *)
Touched(ran) ==
  IF left # {} THEN {First(left)[2]}
  ELSE ran \cup {First(entries)[2] : entries \in {inserted(ran)} \ {{}}}

(* reset(): timers that repeat are restarted and inserted, the others are  *)
(* deleted.  They are objects of a shared_ptr, so that the delete may stop *)
(* the program.                                                            *)
reset ==
  LET ran == {e[2] : e \in expired}
  IN  /\ pc = "run" /\ left = {} /\ Touched(ran) \subseteq live
      /\ expiration_' = [t \in Timers |-> IF t \in kept(ran) THEN restart(t) ELSE expiration_[t]]
      /\ timers_' = inserted(ran)
      /\ live' = live \ deleted(ran)
      /\ nextExpire(timers_')
      /\ expired' = {}
      /\ \/ pc' = "loop"
         \/ deleted(ran) # {} /\ pc' = "undefined"
      /\ UNCHANGED <<pending, now, left, held, clockVars, due>>

(* A timer is used whose last owner has dropped it. *)
useAfterFree ==
  /\ pc = "run" /\ ~(Touched({e[2] : e \in expired}) \subseteq live)
  /\ pc' = "undefined"
  /\ UNCHANGED <<timers_, expiration_, pending, now, expired, left, objectVars,
                 timerfdVars, clockVars, due>>

(* ~TimerQueue, with the loop's own destructor ("we're in                  *)
(* EventLoop::dtor()"), so that no functor is run any more: the timerfd is *)
(* closed and what timers_ holds is deleted.                               *)
destruct ==
  /\ pc = "loop"
  /\ live' = live \ {e[2] : e \in timers_}
  /\ timers_' = {}
  /\ alarm' = 0 /\ readable' = FALSE
  /\ pc' = "destroyed"
  /\ UNCHANGED <<expiration_, pending, now, expired, left, held, clockVars, due>>

-----------------------------------------------------------------------------
(* Time passes; the wall clock stops at its bound, the other goes on. *)
tick ==
  /\ ~Stopped
  /\ wall < MaxTime \/ alarm > 0
  /\ wall' = IF wall < MaxTime THEN wall + 1 ELSE wall
  /\ alarm' = IF alarm > 0 THEN alarm - 1 ELSE 0
  /\ readable' = (readable \/ alarm = 1)
  /\ UNCHANGED <<queueVars, objectVars, sets, jumped, due>>

(* The wall clock is set, forward or back. *)
setClock(time) ==
  /\ ~Stopped
  /\ sets < MaxSets /\ time # wall
  /\ wall' = time
  /\ sets' = sets + 1
  /\ jumped' = jumped + Greater(time - wall, 0)
  /\ UNCHANGED <<queueVars, objectVars, timerfdVars, due>>

LoopStep ==
  runFunctor \/ poll \/ handleRead \/ runTimer \/ reset \/ useAfterFree

Next ==
  \/ LoopStep
  \/ \E t \in Timers :
       \/ userDrops(t)
       \/ \E when \in Whens : addTimerSelf(t, when) \/ addTimer(t, when)
  \/ destruct
  \/ tick
  \/ \E time \in 0..MaxTime : setClock(time)

Spec == Init /\ [][Next]_vars

(* The loop thread runs and time passes.  Callbacks return; nobody has to  *)
(* add a timer, set the clock or destroy the queue.  Strong fairness of    *)
(* runFunctor: every iteration of loop() ends with the pending functors,   *)
(* also when the timerfd is always ready.                                  *)
FairSpec == Spec /\ WF_vars(LoopStep) /\ SF_vars(runFunctor) /\ WF_vars(tick)

-----------------------------------------------------------------------------
(* Types; between two calls of handleRead there is no batch, and the       *)
(* timerfd is not armed while it waits to be read.                         *)
TypeOK ==
  /\ timers_ \cup expired \subseteq Nat \X Timers
  /\ expiration_ \in [Timers -> Int] /\ due \in [Timers -> Int]
  /\ pending \in Seq(Timers)
  /\ pc \in {"loop", "reported", "run", "undefined", "destroyed"}
  /\ left \subseteq expired
  /\ pc \in {"loop", "reported"} => expired = {}
  /\ live \subseteq Timers /\ held \subseteq Timers
  /\ wall \in 0..MaxTime /\ alarm \in Nat /\ readable \in BOOLEAN
  /\ ~(readable /\ alarm > 0)

(* Where a timer can be: in the functor queue, in timers_, in the batch    *)
(* and still to be run, or in the batch to be inserted again.              *)
Places(t) ==
  {place \in {"functor", "timers", "left", "again"} :
     \/ place = "functor" /\ Functor(t)
     \/ place = "timers" /\ <<due[t], t>> \in timers_
     \/ place = "left" /\ <<due[t], t>> \in left
     \/ place = "again" /\ t \in Repeating /\ \E e \in expired \ left : e[2] = t}

(* A timer that has still to run, be it repeating or new, is in exactly    *)
(* one of these places, under the time it was promised for, and one that   *)
(* has run for good in none: none is lost or filed twice when callbacks    *)
(* and other threads add timers while a batch is out of the set.           *)
EachTimerIsFiledOnce ==
  /\ TypeOK
  /\ ~Stopped =>
       /\ \A e \in timers_ \cup left : e[1] = due[e[2]]
       /\ \A t \in Timers :
            Cardinality(Places(t)) = IF due[t] = Never THEN 0 ELSE 1

(* No timer is forgotten by the kernel: whenever the loop may block in     *)
(* poll() with timers waiting, the timerfd is readable or armed, and for   *)
(* no later than the earliest of them (or the least delay), except by as   *)
(* much as the wall clock was set forward.                                 *)
ArmedForEarliest ==
  pc = "loop" /\ timers_ # {} =>
    \/ readable
    \/ alarm > 0 /\ alarm <= howMuchTimeFromNow(First(timers_)[1]) + jumped

(* The queue uses no timer that it has deleted itself: an address in       *)
(* timers_ or in the batch may dangle only if the caller has dropped the   *)
(* pointer that addTimer returned.                                         *)
DanglesOnlyIfDropped ==
  ~Stopped => \A e \in timers_ \cup left : e[2] \in held => e[2] \in live

(* No callback is run before the time it was promised for, by the clock    *)
(* handleRead has read: the one given to addTimer, and after every run of  *)
(* a repeating timer a whole interval later.                               *)
NeverEarly ==
  [][\A t \in Timers : due[t] # Never /\ due'[t] # due[t] => now >= due[t]]_vars

(* A timer is run once its time has come, however its addition races with  *)
(* the expiry of others, and although the wall clock is set: the timerfd   *)
(* that then expires too early is armed again.                             *)
EveryTimerRuns ==
  \A t \in Timers : \A time \in 1..(MaxTime - 1) :
    due[t] = time ~> (due[t] # time \/ Stopped)
=============================================================================
