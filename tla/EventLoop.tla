----------------------------- MODULE EventLoop -----------------------------
(***************************************************************************)
(* tractor::EventLoop (src/EventLoop.cpp): one loop thread that polls,     *)
(* handles the active channels and then runs the functors that any thread  *)
(* queued with queueInLoop/runInLoop.                                      *)
(*                                                                         *)
(* The loop thread is modelled at the points where another thread can see  *)
(* or change something: between the statements of loop(), between two      *)
(* callbacks, and between two calls a callback makes.  The other threads   *)
(* are modelled at the two halves of queueInLoop: the push under mutex_,   *)
(* and the wakeup() that follows the unlock.                               *)
(***************************************************************************)
EXTENDS Naturals, Sequences

CONSTANTS
  Threads,    \* threads other than the one that owns the loop
  Functors,   \* the functors handed to the loop, each at most once
  Channels    \* channels registered with the poller

VARIABLES
  looping_,
  quit_,
  callingPendingFunctors_,
  pendingFunctors_,
  activeChannels_,  \* the active channels that loop() has still to visit
  functors,         \* local of doPendingFunctors(): swapped out, not yet run
  pc,               \* where the loop thread is inside loop()
  inCallback,       \* TRUE while the loop thread is inside a user callback
  waking,           \* threads between the push and the wakeup() of queueInLoop
  ready,            \* kernel: channels epoll_wait would report now
  posted,           \* history: functors handed to the loop by any call
  submitted,        \* history: functors pushed on pendingFunctors_, in order
  executed,         \* history: functors run by doPendingFunctors, in order
  wakeupWritten,    \* history: wakeup() has run since the last swap
  early             \* history: the loop thread queued while not in loop(),
                    \* after the last swap

loopState == <<looping_, callingPendingFunctors_, activeChannels_, functors, pc>>
history == <<posted, submitted, executed, wakeupWritten, early>>
vars == <<looping_, quit_, callingPendingFunctors_, pendingFunctors_,
          activeChannels_, functors, pc, inCallback, waking, ready,
          posted, submitted, executed, wakeupWritten, early>>

Phases == {"out", "entry", "while", "poll", "handle", "functors"}

(***************************************************************************)
(* EventLoop::EventLoop().  wakeupFd_ is never initialised (the call of    *)
(* createEventfd is commented out) and wakeupChannel_ is never enabled.    *)
(***************************************************************************)
Init ==
  /\ looping_ = FALSE
  /\ quit_ = FALSE
  /\ callingPendingFunctors_ = FALSE
  /\ pendingFunctors_ = << >>
  /\ activeChannels_ = {}
  /\ functors = << >>
  /\ pc = "out"
  /\ inCallback = FALSE
  /\ waking = {}
  /\ ready = {}
  /\ posted = {}
  /\ submitted = << >>
  /\ executed = << >>
  /\ wakeupWritten = FALSE
  /\ early = FALSE

-----------------------------------------------------------------------------
(***************************************************************************)
(* The loop thread.                                                        *)
(***************************************************************************)

(* loop(): entry. *)
loop ==
  /\ pc = "out"
  /\ looping_' = TRUE
  /\ pc' = "entry"
  /\ UNCHANGED <<quit_, callingPendingFunctors_, pendingFunctors_,
                 activeChannels_, functors, inCallback, waking, ready, history>>

(* quit_ = false: a quit() that came before this point is forgotten. *)
resetQuit ==
  /\ pc = "entry"
  /\ quit_' = FALSE
  /\ pc' = "while"
  /\ UNCHANGED <<looping_, callingPendingFunctors_, pendingFunctors_,
                 activeChannels_, functors, inCallback, waking, ready, history>>

testQuit_Ignored ==
  /\ pc = "while"
  /\ activeChannels_' = {} /\ pc' = "poll" /\ UNCHANGED looping_
  /\ UNCHANGED <<quit_, callingPendingFunctors_, pendingFunctors_,
                 functors, inCallback, waking, ready, history>>

(* while (!quit_), activeChannels_.clear() and the return of loop(). *)
testQuit ==
  /\ pc = "while"
  /\ \/ quit_ /\ looping_' = FALSE /\ pc' = "out" /\ UNCHANGED activeChannels_
     \/ ~quit_ /\ activeChannels_' = {} /\ pc' = "poll" /\ UNCHANGED looping_
  /\ UNCHANGED <<quit_, callingPendingFunctors_, pendingFunctors_,
                 functors, inCallback, waking, ready, history>>

(* poller_->poll() reports some of the ready channels. *)
pollEvents ==
  /\ pc = "poll"
  /\ \E active \in SUBSET ready :
       active # {} /\ activeChannels_' = active
  /\ pc' = "handle"
  /\ UNCHANGED <<looping_, quit_, callingPendingFunctors_, pendingFunctors_,
                 functors, inCallback, waking, ready, history>>

pollTimeout_Forever == FALSE

(* poller_->poll() reports nothing: kPollTimeMs has passed, or EINTR. *)
pollTimeout ==
  /\ pc = "poll"
  /\ activeChannels_' = {}
  /\ pc' = "handle"
  /\ UNCHANGED <<looping_, quit_, callingPendingFunctors_, pendingFunctors_,
                 functors, inCallback, waking, ready, history>>

(* channel->handleEvent(pollReturnTime_): the channel's callback begins.   *)
(* It consumes what made the channel ready.                                *)
handleEvent(ch) ==
  /\ pc = "handle"
  /\ ~inCallback
  /\ ch \in activeChannels_
  /\ activeChannels_' = activeChannels_ \ {ch}
  /\ ready' = ready \ {ch}
  /\ inCallback' = TRUE
  /\ UNCHANGED <<looping_, quit_, callingPendingFunctors_, pendingFunctors_,
                 functors, pc, waking, history>>

(* A channel callback or a functor returns to the loop. *)
callbackReturn ==
  /\ inCallback
  /\ inCallback' = FALSE
  /\ UNCHANGED <<loopState, quit_, pendingFunctors_, waking, ready, history>>

doPendingFunctors_NoClear ==
  /\ pc = "handle" /\ ~inCallback /\ activeChannels_ = {}
  /\ callingPendingFunctors_' = TRUE
  /\ functors' = pendingFunctors_
  /\ wakeupWritten' = FALSE
  /\ early' = FALSE
  /\ pc' = "functors"
  /\ UNCHANGED <<looping_, quit_, pendingFunctors_, activeChannels_, inCallback,
                 waking, ready, posted, submitted, executed>>

(* doPendingFunctors(): the flag, then the swap under mutex_. *)
doPendingFunctors ==
  /\ pc = "handle" /\ ~inCallback /\ activeChannels_ = {}
  /\ callingPendingFunctors_' = TRUE
  /\ functors' = pendingFunctors_
  /\ pendingFunctors_' = << >>
  /\ wakeupWritten' = FALSE
  /\ early' = FALSE
  /\ pc' = "functors"
  /\ UNCHANGED <<looping_, quit_, activeChannels_, inCallback, waking, ready,
                 posted, submitted, executed>>

(* functors[i]() begins, outside the critical section. *)
runFunctor ==
  /\ pc = "functors" /\ ~inCallback
  /\ functors # << >>
  /\ executed' = Append(executed, Head(functors))
  /\ functors' = Tail(functors)
  /\ inCallback' = TRUE
  /\ UNCHANGED <<looping_, quit_, callingPendingFunctors_, pendingFunctors_,
                 activeChannels_, pc, waking, ready, posted, submitted,
                 wakeupWritten, early>>

endFunctors_FlagLeftSet ==
  /\ pc = "functors" /\ ~inCallback /\ functors = << >>
  /\ pc' = "while"
  /\ UNCHANGED <<looping_, quit_, callingPendingFunctors_, pendingFunctors_,
                 activeChannels_, functors, inCallback, waking, ready, history>>

(* The end of doPendingFunctors(). *)
endFunctors ==
  /\ pc = "functors" /\ ~inCallback /\ functors = << >>
  /\ callingPendingFunctors_' = FALSE
  /\ pc' = "while"
  /\ UNCHANGED <<looping_, quit_, pendingFunctors_, activeChannels_, functors,
                 inCallback, waking, ready, history>>

-----------------------------------------------------------------------------
(***************************************************************************)
(* The interface, called by the loop thread (from a callback, or before    *)
(* and after loop()) and by the other threads.                             *)
(***************************************************************************)

InLoopThreadCall == inCallback \/ pc = "out"

(* The push of queueInLoop under mutex_. *)
push(f) ==
  /\ f \notin posted
  /\ posted' = posted \cup {f}
  /\ submitted' = Append(submitted, f)
  /\ pendingFunctors_' = Append(pendingFunctors_, f)

queueInLoopSelf_NoWakeup(f) ==
  /\ InLoopThreadCall
  /\ push(f)
  /\ UNCHANGED wakeupWritten
  /\ early' = (early \/ pc = "out")
  /\ UNCHANGED <<loopState, quit_, inCallback, waking, ready, executed>>

(* queueInLoop() by the loop thread: it wakes itself up only when the      *)
(* functors of this iteration are already being run.                       *)
queueInLoopSelf(f) ==
  /\ InLoopThreadCall
  /\ push(f)
  /\ wakeupWritten' = (wakeupWritten \/ callingPendingFunctors_)
  /\ early' = (early \/ pc = "out")
  /\ UNCHANGED <<loopState, quit_, inCallback, waking, ready, executed>>

(* runInLoop() by the loop thread: the functor is called at once; the      *)
(* calls it makes are calls of the callback it runs in.                    *)
runInLoopSelf(f) ==
  /\ InLoopThreadCall
  /\ f \notin posted
  /\ posted' = posted \cup {f}
  /\ UNCHANGED <<loopState, quit_, pendingFunctors_, inCallback, waking, ready,
                 submitted, executed, wakeupWritten, early>>

(* queueInLoop(), or runInLoop(), by another thread: the push. *)
queueInLoop(t, f) ==
  /\ t \notin waking
  /\ push(f)
  /\ waking' = waking \cup {t}
  /\ UNCHANGED <<loopState, quit_, inCallback, ready, executed, wakeupWritten,
                 early>>

(* wakeup() by another thread, after the unlock.  The eight bytes go to    *)
(* whatever descriptor number wakeupFd_ happens to hold; no channel of     *)
(* this loop becomes ready, since wakeupChannel_ is not registered.        *)
wakeup(t) ==
  /\ t \in waking
  /\ waking' = waking \ {t}
  /\ wakeupWritten' = TRUE
  /\ UNCHANGED <<loopState, quit_, pendingFunctors_, inCallback, ready, posted,
                 submitted, executed, early>>

(* quit() by the loop thread or by another thread; it does not wake up. *)
quit ==
  /\ InLoopThreadCall \/ Threads \ waking # {}
  /\ quit_' = TRUE
  /\ UNCHANGED <<loopState, pendingFunctors_, inCallback, waking, ready, history>>

(* The kernel finds an I/O event on a registered channel. *)
ioEvent(ch) ==
  /\ ch \notin ready
  /\ ready' = ready \cup {ch}
  /\ UNCHANGED <<loopState, quit_, pendingFunctors_, inCallback, waking, history>>

-----------------------------------------------------------------------------
LoopStep ==
  \/ resetQuit \/ testQuit \/ pollEvents \/ pollTimeout \/ callbackReturn
  \/ doPendingFunctors \/ runFunctor \/ endFunctors
  \/ \E ch \in Channels : handleEvent(ch)

Next ==
  \/ loop
  \/ LoopStep
  \/ \E f \in Functors :
       \/ queueInLoopSelf(f)
       \/ runInLoopSelf(f)
       \/ \E t \in Threads : queueInLoop(t, f)
  \/ \E t \in Threads : wakeup(t)
  \/ quit
  \/ \E ch \in Channels : ioEvent(ch)

Spec == Init /\ [][Next]_vars

(***************************************************************************)
(* A thread inside loop() keeps running: epoll_wait returns after          *)
(* kPollTimeMs at the latest, and callbacks return.  Nothing is assumed of *)
(* the callers: nobody has to enter loop(), queue, or finish a wakeup().   *)
(***************************************************************************)
FairSpec == Spec /\ WF_vars(LoopStep)

-----------------------------------------------------------------------------
(* Types, and the flags that loop() and doPendingFunctors() keep: they are *)
(* set exactly while the loop thread is between their two assignments.     *)
TypeOK ==
  /\ looping_ \in BOOLEAN /\ quit_ \in BOOLEAN
  /\ callingPendingFunctors_ \in BOOLEAN
  /\ pendingFunctors_ \in Seq(Functors) /\ functors \in Seq(Functors)
  /\ activeChannels_ \in SUBSET Channels /\ ready \in SUBSET Channels
  /\ pc \in Phases /\ inCallback \in BOOLEAN
  /\ waking \in SUBSET Threads
  /\ posted \in SUBSET Functors
  /\ submitted \in Seq(Functors) /\ executed \in Seq(Functors)
  /\ wakeupWritten \in BOOLEAN /\ early \in BOOLEAN
  /\ looping_ <=> pc # "out"
  /\ callingPendingFunctors_ <=> pc = "functors"
  /\ inCallback => pc \in {"handle", "functors"}
  /\ functors # << >> => pc = "functors"

(* The swap loses, duplicates and reorders nothing, whatever the other     *)
(* threads push meanwhile: what was queued is what was run, followed by    *)
(* what the current batch holds, followed by pendingFunctors_.             *)
QueuedIsRunInOrder ==
  submitted = executed \o functors \o pendingFunctors_

(* The condition of queueInLoop (another thread, or the loop thread while  *)
(* callingPendingFunctors_) is enough: when the loop is about to block in  *)
(* poll() with functors pending, wakeup() has been called since they were  *)
(* queued or a thread is about to call it.  The exception is a functor the *)
(* loop thread queued outside loop().                                      *)
NoSilentBlock ==
  pc = "poll" /\ pendingFunctors_ # << >>
    => wakeupWritten \/ waking # {} \/ early

(* The tasks waiting are those of the batch being run, then the pending    *)
(* ones; the swap is invisible.                                            *)
Tasks == INSTANCE TaskQueue WITH Tasks <- Functors,
                                 waiting <- functors \o pendingFunctors_,
                                 done <- executed

(* EventLoop implements the abstract task queue: every step of every       *)
(* thread is a Post, a Run or invisible to the callers of queueInLoop.     *)
ImplementsTaskQueue == Tasks!Spec

(* A queued functor is run, unless the loop is left first.  Since wakeup() *)
(* reaches no registered descriptor this rests on the poll timeout.        *)
QueuedIsEventuallyRun ==
  \A f \in Functors :
    (\E i \in 1..Len(pendingFunctors_) : pendingFunctors_[i] = f)
      ~> (pc = "out" \/ \E i \in 1..Len(executed) : executed[i] = f)

(* A quit() that arrives once loop() has reset quit_ ends the loop, with   *)
(* no event and whatever the functors queue: it is never overwritten.      *)
QuitEndsLoop == (pc \notin {"out", "entry"} /\ quit_) ~> ~looping_

(* include/tractor/EventLoop.h:49 says of handleRead "waked up": a poll()  *)
(* that blocks after wakeup() wrote should have an event to return.        *)
WakeupWakesPoll == (pc = "poll" /\ wakeupWritten) => ready # {}
=============================================================================
