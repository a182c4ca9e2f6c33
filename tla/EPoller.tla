------------------------------ MODULE EPoller ------------------------------
(***************************************************************************)
(* tractor::EPoller and the Channel objects of one EventLoop, used by      *)
(* callers that keep to what its asserts and its raw pointers ask of them: *)
(* one live channel per descriptor, a channel is removed once its events   *)
(* are disabled, it is destroyed (and its descriptor closed) when it is    *)
(* not registered, and not between poll() and its handleEvent().  That     *)
(* TcpServer and TcpConnection are such callers is checked in TcpServer.   *)
(***************************************************************************)
EXTENDS Epoll, Naturals, FiniteSets

CONSTANT
  kInitEventListSize   \* the first size of events_

ASSUME SizeAssumption == kInitEventListSize \in Nat \ {0}
ASSUME FdsAssumption == IsFiniteSet(Fds)

VARIABLES
  poller,     \* see Epoll
  live,       \* channels that are constructed
  occurring,  \* kernel: what is there to report on each descriptor
  active,     \* activeChannels_ that have still to be handled
  listSize    \* events_.size()

vars == <<poller, live, occurring, active, listSize>>

(* EPoller::EPoller, before any channel exists. *)
Init ==
  /\ poller = EmptyPoller
  /\ live = {}
  /\ occurring = [fd \in Fds |-> {}]
  /\ active = {}
  /\ listSize = kInitEventListSize

-----------------------------------------------------------------------------
newChannel(ch) ==
  /\ \A other \in live : FdOf[other] # FdOf[ch]
  /\ poller' = construct(poller, ch)
  /\ live' = live \cup {ch}
  /\ UNCHANGED <<occurring, active, listSize>>

(* The owner of the channel goes away; its Socket closes the descriptor. *)
destroyChannel(ch) ==
  /\ ch \in live \ active
  /\ poller.index[ch] = kNew
  /\ poller' = closeFd(poller, FdOf[ch])
  /\ live' = live \ {ch}
  /\ occurring' = [occurring EXCEPT ![FdOf[ch]] = {}]
  /\ UNCHANGED <<active, listSize>>

changeEvents(ch) ==
  /\ ch \in live
  /\ \/ poller' = enableReading(poller, ch)
     \/ poller' = enableWriting(poller, ch)
     \/ poller' = disableWriting(poller, ch)
     \/ poller' = disableAll(poller, ch)
  /\ UNCHANGED <<live, occurring, active, listSize>>

remove(ch) ==
  /\ ch \in live
  /\ poller.events[ch] = {} /\ poller.index[ch] # kNew
  /\ poller' = removeChannel(poller, ch)
  /\ UNCHANGED <<live, occurring, active, listSize>>

(* Kernel: something happens on an open descriptor, or is over. *)
io(ch) ==
  /\ ch \in live
  /\ \E now \in SUBSET (Events \cup Unmasked) :
       occurring' = [occurring EXCEPT ![FdOf[ch]] = now]
  /\ UNCHANGED <<poller, live, active, listSize>>

Reportable == {fd \in Fds : revents(poller, fd, occurring[fd]) # {}}

resize_Always(n) == listSize' = 2 * listSize

(* A list that was filled is doubled. *)
resize(n) == listSize' = IF n = listSize THEN 2 * listSize ELSE listSize

(* EPoller::poll: at most events_.size() events are reported, all there    *)
(* are if fewer.                                                           *)
poll ==
  /\ active = {}
  /\ \E reported \in SUBSET Reportable :
       /\ Cardinality(reported) <= listSize
       /\ Cardinality(reported) < listSize => reported = Reportable
       /\ reported # {}
       /\ active' = {poller.interest[fd].ptr : fd \in reported}
       /\ poller' = [poller EXCEPT !.aborted =
                       \E fd \in reported : fillActive(poller, fd).aborted]
       /\ resize(Cardinality(reported))
  /\ UNCHANGED <<live, occurring>>

(* The loop calls handleEvent of the next active channel. *)
handled(ch) ==
  /\ ch \in active
  /\ active' = active \ {ch}
  /\ UNCHANGED <<poller, live, occurring, listSize>>

Next ==
  \/ poll
  \/ \E ch \in Channels :
       newChannel(ch) \/ destroyChannel(ch) \/ changeEvents(ch) \/ remove(ch)
         \/ io(ch) \/ handled(ch)

Spec == Init /\ [][Next]_vars

-----------------------------------------------------------------------------
(* Types of the poller, the channels and the kernel's set. *)
TypeOK ==
  /\ poller \in PollerStates
  /\ live \in SUBSET Channels /\ active \in SUBSET Channels
  /\ occurring \in [Fds -> SUBSET (Events \cup Unmasked)]
  /\ listSize \in Nat \ {0}

(* No sequence of calls, with descriptors closed and their numbers used    *)
(* again in between, makes an assert of updateChannel, removeChannel or    *)
(* fillActiveChannels fail, nor an epoll_ctl.                              *)
NoFailure == ~poller.aborted /\ ~poller.ctlFailed

(* The kernel watches a channel that has enabled events for exactly those, *)
(* and reports them with a pointer to that channel.                        *)
DeclaredIsWatched ==
  \A ch \in live : poller.events[ch] # {} =>
    Points(poller.interest, FdOf[ch],
           [events |-> poller.events[ch], ptr |-> ch])

(* Neither channels_ nor the kernel keeps a pointer to a channel that has  *)
(* been destroyed, or files a channel under another channel's descriptor.  *)
NoDanglingPointer ==
  /\ \A fd \in DOMAIN poller.channels :
       poller.channels[fd] \in live /\ FdOf[poller.channels[fd]] = fd
  /\ \A fd \in DOMAIN poller.interest :
       poller.interest[fd].ptr \in live /\ FdOf[poller.interest[fd].ptr] = fd

(* events_ is doubled only when it was filled, so it stays below twice the *)
(* number of descriptors however many polls there are.                     *)
ListIsBounded ==
  listSize <= kInitEventListSize \/ listSize <= 2 * Cardinality(Fds)
=============================================================================
