# A TLA+ verification of tractor

tractor is a reactor-style network library in C++: an event loop per thread,
pollers on epoll or poll, buffered TCP connections, a server that accepts them,
a thread pool and a small HTTP layer. This directory holds TLA+ modules that
model its core, TLC configurations that check them on small instances, and
TLAPS proofs of all safety properties the runs check, for every instance.

Contents: [inventory](#inventory), [modules](#modules),
[runs](#runs-and-what-they-show), [fairness](#fairness), [proofs](#proofs),
[findings](#findings), [limits](#what-is-not-modelled), [plan](#plan).

## Inventory

| component | state | operations | hard parts |
|---|---|---|---|
| `EventLoop` | `looping_`, `quit_`, `callingPendingFunctors_`, `pendingFunctors_` (under `mutex_`), `activeChannels_` | `loop`, `quit`, `runInLoop`, `queueInLoop`, `doPendingFunctors`, `wakeup`, `runAt`/`runAfter`/`runEvery` | other threads push, wake up and quit between any two steps of the loop |
| `EPoller`, `Channel` | `index_`, `events_` of each channel; `channels_`; the kernel's epoll set; `events_` list | `updateChannel`, `removeChannel`, `poll`, `enable*`/`disable*` | three records of the same fact; raw pointers in the kernel; descriptor numbers used again |
| `TcpConnection` | `state_`, `outputBuffer_`, its channel and socket | `connectEstablished`, `handleRead_/Write_/Close_/Error_`, `send`, `shutdown`, `connectDestroyed` | short writes, half-close, a peer that resets, calls from other threads, user code run in callbacks |
| `TcpServer`, `Acceptor` | `connections_`, `listening_`, `nextConnId_` | `start`, `newConnection`, `removeConnection` | an object that must not be destroyed while its own callback runs |
| `ThreadPool`, `Thread` | `loops_`, `next_`, `started_`, `loop_` under `mutex_` | `start`, `startLoop`, `threadFunc_`, `getNextLoop` | condition variable, publication of an object on another stack |
| `Buffer` | `buffer_`, `readerIndex_`, `writerIndex_` | `append`, `readFd`, `retrieve*`, `prepend`, `makeSpace`, `shrink` | index arithmetic on unsigned sizes |
| `Poller` | `pollfds_`, `channels_`, `index_` | `updateChannel`, `removeChannel`, `poll` | swap-with-last removal, entries disabled by a negative descriptor |
| `TimerQueue`, `Timer` | `timers_`, `expiration_` of each timer, the timerfd | `addTimer`, `addTimerInLoop`, `handleRead`, `getExpired`, `reset`, `restart` | timers added while a batch is out of the set, two clocks one of which may be set, one timerfd for all, two owners of each timer |
| `HttpParser`, `HttpRequest`, `HttpServer`, `HttpResponse` | parser state, request fields | `parseRuquest`, `onMessage`, `onRequest` | input cut anywhere, pipelining, errors half-way |
| `SockAddr`, `Timestamp`, spdlog, apps | | | formatting, vendored code, examples |

How they interact. `EventLoop::loop` calls `EPoller::poll`, then
`Channel::handleEvent` of each active channel, then the functors other code
queued. A channel calls back into its owner (`Acceptor`, `TcpConnection`), the
owner into user code, and user code into `send`, `shutdown`, `queueInLoop` and
`addTimer`.
Channels change their registration through `EventLoop::updateChannel` to
`EPoller::updateChannel`. `Acceptor` hands descriptors to
`TcpServer::newConnection`; a connection that ends calls
`TcpServer::removeConnection`, which queues `connectDestroyed` with the last
`shared_ptr`. The only state threads share is what `EventLoop` guards with
`mutex_`, plus `quit_` and `TcpConnection::state_`, which nothing guards.

## Modules

| module | models | state and actions |
|---|---|---|
| `TaskQueue` | abstract: what `queueInLoop` promises | tasks wait in order and are run once |
| `EventLoop` | `src/EventLoop.cpp` | variables named after the fields; `pc` is the statement of `loop()`; `functors` the local of `doPendingFunctors`; one action for each statement another thread can get between, and one for each half of `queueInLoop` |
| `Epoll` | `EPoller`, `Channel` as operators on a record (fields, `channels_`, the kernel's set) | so that a handler that makes several calls is still one action; used by the next three modules |
| `EPoller` | the poller under any caller that keeps its contract | channels are constructed, enabled, disabled, removed, destroyed, reported |
| `TcpConnection` | `src/TcpConnection.cpp` on one loop with its peer | `pc` says which callback or phase the loop thread is in; user code acts while `pc` is a callback; `other` is a second thread in the middle of `send` or `shutdown` |
| `TcpServer` | `src/TcpServer.cpp`, `src/Acceptor.cpp` | lifetimes: `exist` are the constructed connections, held up by `connections_`, by queued functors, by the batch being run, by the callback on the stack and by user code (`held`) |
| `ByteQueue`, `Buffer` | abstract queue of bytes; `Buffer.h`, `Buffer.cpp` | the vector itself, byte by byte; `call` is the last call with its argument, which the abstract queue shares, so that what is added must be what was given; `stale` says that a `shrink()` has left wrong indices |
| `Poller` | `src/Poller.cpp` | the array `pollfds_` with real descriptor numbers; `poll` reports some of the entries that are not ignored, `handled` is the return of a channel's `handleEvent` |
| `TimerQueue` | `src/TimerQueue.cpp`, `src/Timer.cpp`, and what `EventLoop::runAt` and its siblings do with a timer | `timers_` as a set of pairs; `pc`, `now`, `expired` and `left` follow `handleRead` from `poll()` to the end of `reset`; `alarm` and `readable` are the timerfd, `wall` the clock of `gettimeofday`; `live` and `held` say which timers exist and which their callers still point to |
| `HttpServer` | `src/HttpParser.cpp`, `src/HttpServer.cpp`, `HttpRequest.h`, `HttpResponse.cpp` | the parser's state and request fields, `inputBuffer_` as parts of lines; `onMessage` is the read, an action for each iteration of the loop of `parseRuquest`, and what follows it; `FirstOf`, `LastOf`, `Request` read the same requests off the stream without the parser |
| `ThreadPool` | `src/ThreadPool.cpp` | the base thread and the new threads at each lock, wait and notification |
| `MC*` | instances for TLC | |
| `EventLoopProofs` | theorems on `EventLoop`, `ThreadPool` and `Poller` | extends all three; this is why the last two have specifications of their own names, `PoolSpec` and `PollerSpec` |
| `EPollerProofs`, `TcpConnectionProofs`, `TcpServerProofs`, `BufferProofs`, `TimerQueueProofs`, `HttpServerProofs` | theorems | each extends the module it is about |
| `EpollProofs` | lemmas on the operators of `Epoll` | used by the proofs of `EPoller`, `TcpServer` and `TcpConnection`; no variables of its own |

Abstractions. Messages are model values with a length and their bytes are
`<<message, k>>`, so that order, loss and repetition show. Printing is left out,
and so are time stamps, which no decision depends on. An `assert` that fails
sets a flag (`aborted`, `failed`) instead of stopping, so that "no assert fails"
is an invariant. Behaviour that C++ leaves undefined and that destroys the
program (the use or a second delete of a timer, `TimerQueue`) stops the model.
Functors, callbacks and `shared_ptr`s are represented by what
they hold. Environment actions (the kernel, the peer, clients, user code) may
happen at any point where the code allows them.

`wakeupFd_` is read uninitialised (`EventLoop.cpp:40-41`). The write in
`wakeup()` therefore goes to an arbitrary descriptor. The model lets any
channel become ready at any time (`ioEvent`), which includes one that happens
to be hit, and does not make any ready because of the write.

`EPoller` assumes of its callers: one live channel per descriptor; a channel is
removed when its events are disabled, and destroyed when it is not registered
and not between `poll()` and its `handleEvent()`. `TcpServer` contains the same
operators with the real callers, and `NoFailure` and `NoDanglingChannel` there
say that they meet the contract.

## Runs and what they show

| run | checks | bounds |
|---|---|---|
| `loop` | The queue is run in order, once (also as refinement of `TaskQueue`); the loop never blocks on a functor without a `wakeup()` made or about to be made; a queued functor is run unless the loop is left; `quit()` ends the loop | 2 threads, 3 functors, 2 channels: a push before, during and after a batch |
| `loop_wakeup` | violated: `wakeup()` gives a blocking `poll()` something to return for | 1 thread, 2 functors, 1 channel |
| `epoller` | No assert or `epoll_ctl` fails; the kernel watches what is enabled; no pointer to a destroyed channel; the event list stays bounded | 3 channels on 2 descriptors, first list size 1, so that numbers are used again and the list fills |
| `connection` | With two threads that send and shut down: byte stream intact under short writes; POLLOUT exactly while bytes wait; shutdown after `send` loses nothing the loop thread sent, and happens; the end of the peer is noticed; all asserts hold until a message of the second thread comes after the channel is gone (`late`). On a socket whose writes may be cut short and on a blocking one, as `accept(2)` makes it | messages of 1, 1 and 2 bytes, one of them for the second thread, send buffer of 2, one chunk received: a message is cut, and another comes while the rest waits |
| `connection_race` | violated: the assert on `state_` in `handleClose_` | 1 message |
| `server` | No assert of server, connection or poller fails; no channel is destroyed that the loop, `channels_` or the kernel still points to; a connection whose peer is gone is freed; clients are accepted | 3 connections on 2 descriptor numbers |
| `buffer` | Refines `ByteQueue`; indices in order and in the vector; both unless `shrink()` was called with the reader elsewhere than at `kCheapPrepend`; asserts of `makeSpace` and `ensureWritableBytes` hold | `kCheapPrepend` 2, `kInitialSize` 2, `extrabuf` of 2, chunks up to 3, vector up to 7 cells: every branch of `makeSpace` and `readFd`, and a `shrink()` that leaves `writerIndex_` outside the vector |
| `poller` | Every `index_` is the place of the channel's own entry; no channel is reported that is disabled or gone; asserts hold, those of `fillActiveChannels` included | 4 channels, descriptors 0, 3, 5, one number used twice |
| `http` | The requests given to `httpCallback_` are those of the stream however it is cut, and all begin with a well-formed request line; a 400 comes only where one does not; only the last response lacks a length or answers a request to close; a client that waits for its answers gets them; the parser returns | 5 lines of 6 kinds in any order, each cut once: two requests, one of them with a header |
| `http_assert` | violated: the assert of `HttpRequest::setMethod` | 3 lines |
| `pool` | `start()` returns; loops handed out are running; they are dealt evenly | 3 threads, 7 deals, spurious wakeups |
| `timers` | A timer that has still to run is in exactly one place; the timerfd is armed for the earliest whenever the loop may block; the queue never uses a timer that it has deleted itself; no callback is early, and every one is run | 3 timers, one of them repeating and one whose caller drops the pointer, two expirations, time up to 3 units of 100 µs, the clock set once: two timers expire together, one is added in the callback of another, one is late |

The bounds keep each mechanism at the smallest size at which all its branches
and one repetition occur. Data larger than that repeats them: the code compares
sizes and positions only with each other. Time in `timers` is only compared and
added; after the bound the wall clock stands still while the timerfd counts on,
which is a clock that is set back again and again. In `pool` the run may end
when all is dealt, in `http` when the client has written its lines, and in
`timers` when the queue is destroyed or the program is stopped by undefined
behaviour, hence `CHECK_DEADLOCK FALSE`.

The types of a module's variables are an invariant of their own in `loop`,
`epoller`, `server` and `buffer`, where they include relations worth stating; in
the other modules `TypeOK` is the first conjunct of an invariant.

For every property a mutated definition that looks like a plausible slip in the
code (a forgotten reset, a dropped guard, an off-by-one) is kept next to the
original, named after it (`endFunctors_FlagLeftSet`), and listed in
`PROJECT.json`; TLC finds the property violated with it.

## Fairness

* `EventLoop`, `TcpServer`: weak fairness of the loop thread's steps. Once in
  `loop()` it never waits for anything without a limit: `epoll_wait` has a
  timeout of `kPollTimeMs`, `mutex_` is held for a push or a swap only, and user
  callbacks are taken to return. Nobody has to call anything.
* `TcpConnection`: the same, and the peer keeps reading until it resets. With a
  peer that stops reading, bytes stay queued for ever, and so does a shutdown
  that waits for them; that is TCP and not this code. The second thread need not
  call anything, but once it has set `state_` in `shutdown()` it goes on to
  queue the rest (`OtherQueues`).
* `TimerQueue`: the loop thread runs and time passes (`tick`). Strong fairness
  of `runFunctor`, because every iteration of `loop()` ends with
  `doPendingFunctors`, also when the timerfd is ready each time. Nobody has to
  add a timer, set the clock or destroy the queue.
* `HttpServer`: weak fairness of the server's steps; the client owes nothing.
* `ThreadPool`: weak fairness of each thread; strong fairness of a new thread's
  `lock`, since the base thread may wake spuriously and take `mutex_` again any
  number of times, but blocks in between. A wait need not return without being
  notified.

## Proofs

`EventLoopProofs` proves, for any sets of threads, functors and channels and
with no assumption on them, the invariants of `loop` and the refinement
of `TaskQueue`. `QueuedIsRunInOrder` and `TypeOK` are inductive together.
`NoSilentBlock` is not: a functor queued by the loop thread in the middle of a
channel callback is announced by nobody, and is all right only because the batch
of the same iteration takes it. The strengthening `PendingIsAnnounced` says in
which phases an unannounced functor may be pending.

`EpollProofs` says what the calls of a channel do to the poller, for any
channels and descriptors (`FdOfAssumption`) and any set `L` of live channels.
`Consistent(p, L)` says that the three records agree: `Filed`, a live channel is
in `channels_` exactly when its `index_` is not `kNew`; `Watched`, it is in the
kernel's set with its own events exactly when its `index_` is `kAdded`, and has
events only then; no assert and no `epoll_ctl` has failed. There is a lemma for
each call (`SetEventsConsistent`, `RemoveConsistent`, `ConstructConsistent`,
`DestroyAllConsistent`, `FillConsistent`), resting on what a single assignment
does to the record. Three proofs use them.

`EPollerProofs` proves, for a finite set of descriptors (`FdsAssumption`,
`SizeAssumption`), all five invariants of `epoller` from `Consistent` and
`OneChannelPerFd`. None of them is inductive alone: an `assert` speaks of
`channels_`, an `epoll_ctl` of the kernel's set, and the code decides by
`index_`.

`TcpServerProofs` proves the three invariants of `server`, for any number of
connections on any descriptors; `ServerAssumption` says that the listening
socket has a descriptor and a channel to itself. `NoFailure` and
`NoDanglingChannel` together say that the real callers keep the contract that
`EPoller` only assumes. The strengthening `ServerInv` follows a connection
through its owners (`Lives`): it is in the state `kConnected` exactly while it
is in `connections_` or its `connectDestroyed` waits in a queue, never both,
and afterwards its channel is unregistered; a channel still to be handled
(`Phases`) belongs to a connection that is in `connections_`, because only its
own `handleEvent` takes it out. This is what makes it safe to destroy a
connection with whichever pointer goes last.

`TcpConnectionProofs` proves the four invariants of `connection`, for any
messages and lengths, any send buffer, and sockets that cut writes short or
block (`LengthAssumption`: on a blocking socket the model writes a message in
one step, which needs room for it). `StreamIntact` is inductive with the
types; the others
need `ConnInv`. `ShutdownKeepsMessages` rests on `Promises` (what was sent is
in `accepted`) with `StreamIntact` and `Backlog`: the FIN goes out only when
nothing waits for POLLOUT. `NoFailure` rests on `Ending`, the order
`handleClose_`, `connectDestroyed` queued once, `state_` down, channel out of
the poller, which a late message of the second thread breaks
(`connection_race`); hence `late` in the property and in the invariant.

`BufferProofs` proves the refinement of `ByteQueue` and the index invariants,
for any sizes and chunks (`BufferAssumption`). `TypeOK` has the order of the
indices that the copies of `makeSpace` and the unsigned differences rely on, and
is inductive with `NoAssertFails`; the refinement is shown call by call, by
what each does to `Content`. `ByteQueue` takes the call and its argument from
the variable `call`, so that a `readFd` which dropped or exchanged bytes of
`extrabuf` would not be a `Write` of what was read. `shrink` is modelled without
a guard, as it is written. With the reader elsewhere than at `kCheapPrepend` it
sets `stale`, and until the next `retrieveAll()` only the part `Ordered` of
`TypeOK` holds and the queue promises nothing; a call that would then touch
cells outside the vector is undefined and not made (`Inside`).

`EventLoopProofs` also proves all three properties of `poller`, for any channels
and descriptors (`FdAssumption`: these are natural numbers). `IndexConsistent` is not inductive: a removal moves the last
entry and finds the channel whose `index_` must change through the descriptor
in that entry. `PollerInv` adds that every entry belongs to a registered channel
(`Full`), that `channels_` finds it (`Mapped`), and that registered channels have
different descriptors (`Distinct`).

`TimerQueueProofs` proves the four safety properties of `timers`, for any
timers, intervals and expirations and a wall clock set any number of times.
`TimerInv` adds to the place of each timer what `expiration_` holds there
(`Added`, `Batch`), since `addTimerInLoop` and `restart` file a timer under
`expiration_` and not under the promised time, and that `reset()` deletes only
timers that are done (`Owned`). `NeverEarly`, an action property, follows from
`Timely` and `Batch`.

`HttpServerProofs` proves the three invariants of `http`, for any number of lines
(`MaxLinesAssumption`) cut anywhere. The properties compare the parser, which
keeps a state and the fields of one request, with the requests that `FirstOf`
and `LastOf` read off the whole stream. The invariant connects them by the
number `k` of lines that have been retrieved. `Delivered(k)`: what lies in the
buffer and the kernel are the lines behind the `k`-th, the last perhaps without
its end. `Position(k)`: by `state_`, the current request starts at line `k + 1`,
or lines `Current` to `k` are its request line and headers, or line `k` ended
it; the version in every call is a known one (`Types`), so that no call stems
from a request line that should have been refused. `Refused(k)`: after a 400 the parser stands before the same bad line for
ever. `Responses` adds that a connected connection has answered every call, and
`Prompt` that a client which does not write ahead leaves no whole line behind
(for `NoRequestWaits`). When another line comes, requests that are complete must
stay what they were (`CompleteStays`). `FirstOf` is recursive, and two facts
about it need an induction: that the recursion has a solution (`StartsExist`)
and that a new line does not move the starts of complete requests
(`FirstInAppend`). Both are proved by taking a least counterexample
(`LeastNatural`), which the library's well-founded order on the naturals gives
without an induction theorem that takes an operator.

`EventLoopProofs` proves, last, the two invariants of `pool`, for any number of
threads. `LoopsAreReady` is inductive with `Published` (a thread's `loop_` is
set exactly when it runs its loop) and `Collected` (`loops_` has the threads up
to the one `start()` waits for). `DealtEvenly` is not inductive: `InTurn` says
who may have had one turn more, the loops in front of `next_`.

The bounds of the runs (`MaxDeals`, `MaxLines`, `MaxChunk`, `MaxSize`, `MaxTime`
and so on) are arbitrary numbers in the theorems.

Only model-checked are the liveness properties: `QueuedIsEventuallyRun`,
`QuitEndsLoop`, `PeerGoneIsNoticed`, `ShutdownIsCarriedOut`,
`PeerGoneFreesConnection`, `ClientsAreAccepted`, `OnMessageReturns`,
`StartReturns` and `EveryTimerRuns`. Fairness and `ENABLED` are beyond the
prover.

## Findings

* `loop_wakeup`: `wakeup()` wakes nobody, because the eventfd is never created
  nor watched. Functors from other threads wait up to ten seconds for the poll
  timeout, as `loop` shows they are at least run then.
* `connection_race`: `send()` from another thread may be carried out after
  `connectDestroyed`; the channel is then registered again, and `handleClose_`
  is called on a disconnected connection.
* `http_assert`: a request line refused for its version leaves its method behind
  and is parsed again when more input comes; the assert in `setMethod` then
  fails.

Seen on the way and not the subject of a run: `TcpServer::start` does not start
the pool, so that `setThreadNum` has no effect; `Poller::updateChannel` does not
restore the descriptor of a channel that is enabled again; a second request in
one read waits for more input (`HttpServer.cpp:46`); a timer whose pointer the
caller drops, as `EventLoop::runAt` does at once (`EventLoop.cpp:147`), is
destroyed while `timers_` still holds its address, and `reset()` deletes objects
that a `shared_ptr` owns (`TimerQueue.cpp:159`), so that `DanglesOnlyIfDropped`
is the most that holds; `shutdown()` of another thread may set `state_` back
from `kDisconnected` to `kDisconnecting` (`TcpConnection.cpp:150`);
`Buffer::shrink`, which nothing calls, leaves both indices where they were
(`Buffer.h:126-131`).

`PROJECT.json` has them with the lines they contradict, and the list of hazards
with the properties that guard each.

## What is not modelled

* The vendored logging library in `include/spdlog`, which makes up some 25,600
  of the repository's 28,600 lines of code. tractor's own code is the other
  3,000, and the modules stand for about half of those; the rest are
  declarations, includes, formatting and printing.
* Bodies of requests, which the parser leaves to be read as the next request;
  paths, queries and the content of responses. `HttpServer` is checked on a
  connection that takes every response at once; that a response cut by the
  socket arrives whole is `StreamIntact` and `ShutdownKeepsMessages` of
  `TcpConnection`. A callback that keeps a connection open although the client
  asked to close it (`setCloseConnection(false)`, `HttpResponse.h:33`): that is
  the user's decision, and `OnlyTheLastCloses` is for callbacks that do not.
* Two asserts of `TimerQueue` have no flag of their own: that an inserted entry
  is new (`TimerQueue.cpp:185`) is part of `EachTimerIsFiledOnce`, and the one
  in `getExpired` (`TimerQueue.cpp:137`) says what the sentry means.
* That `timerQueue_` is null at this commit (`EventLoop.cpp:39`), so that `runAt`
  and its siblings crash: `TimerQueue` is the queue a program builds itself.
* Destructors of `EventLoop`, `TcpServer` and `Acceptor`, which leave their
  channels registered with a loop that must not run any more; `~Thread`, which
  no program can run on a thread of the pool; `Buffer::swap`; a second
  `EventLoop` in one thread.
* `send`'s raw `this` in queued functors as a memory error: `TcpConnection`
  keeps its one connection for ever. `connection_race` shows the part of the
  problem that a live object has too.
* `Channel::eventHandleing_` is not initialised, so that the assert in the
  destructor of a channel that never had an event may fail; it guards nothing
  else.
* Addresses, time stamps and log texts.

## Plan

Written so far, in this order: `EventLoop` with `TaskQueue`, `Epoll` and
`EPoller`, `TcpConnection`, `TcpServer`, `Buffer` with `ByteQueue`, `Poller`,
`ThreadPool`, `HttpServer`, `TimerQueue`; proofs about all of them. That the
real callers keep the contract of `EPoller` is stated by `NoFailure` and
`NoDanglingChannel` of `TcpServer` and not as a refinement: `newConnection`
constructs a channel and enables it in one step, which is two of `EPoller`.
What is left:

1. A composition of `TcpConnection` and `TcpServer` in which another thread
   drops its pointer, once queued functors own the connection.
