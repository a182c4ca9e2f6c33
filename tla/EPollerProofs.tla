--------------------------- MODULE EPollerProofs ---------------------------
(***************************************************************************)
(* EPoller, for any set of channels and any finite set of descriptors.     *)
(* The inductive invariant is Consistent, which EpollProofs shows every    *)
(* call to keep.                                                           *)
(***************************************************************************)
EXTENDS EPoller, EpollProofs, FiniteSetTheorems, TLAPS

Inv ==
  /\ TypeOK
  /\ OneChannelPerFd(live)
  /\ Consistent(poller, live)

-----------------------------------------------------------------------------
LEMMA InvInit == Init => Inv
<1> SUFFICES ASSUME Init PROVE Inv
  OBVIOUS
<1>1. poller = EmptyPoller /\ live = {} /\ active = {}
  BY DEF Init
<1>2. Consistent(poller, live)
  BY <1>1, EmptyConsistent
<1>3. TypeOK
  BY <1>2, SizeAssumption DEF Init, TypeOK, Consistent
<1> QED
  BY <1>1, <1>2, <1>3 DEF Inv, OneChannelPerFd

LEMMA InvNext == Inv /\ [Next]_vars => Inv'
<1> SUFFICES ASSUME Inv, [Next]_vars PROVE Inv'
  OBVIOUS
<1> USE DEF Inv
<1>1. /\ live \in SUBSET Channels /\ active \in SUBSET Channels
      /\ occurring \in [Fds -> SUBSET (Events \cup Unmasked)]
      /\ listSize \in Nat \ {0}
      /\ Consistent(poller, live) /\ OneChannelPerFd(live)
  BY DEF TypeOK
<1>2. ASSUME NEW ch \in Channels, newChannel(ch) PROVE Inv'
  <2>1. Consistent(poller', live') /\ OneChannelPerFd(live')
    BY <1>1, <1>2, ConstructConsistent DEF newChannel
  <2>2. TypeOK'
    BY <1>1, <1>2, <2>1 DEF newChannel, TypeOK, Consistent
  <2> QED
    BY <2>1, <2>2
<1>3. ASSUME NEW ch \in Channels, destroyChannel(ch) PROVE Inv'
  <2>1. Consistent(poller', live') /\ OneChannelPerFd(live')
    BY <1>1, <1>3, DestroyConsistent DEF destroyChannel
  <2>2. TypeOK'
    BY <1>1, <1>3, <2>1 DEF destroyChannel, TypeOK, Consistent
  <2> QED
    BY <2>1, <2>2
<1>4. ASSUME NEW ch \in Channels, changeEvents(ch) PROVE Inv'
  <2>1. PICK mask \in SUBSET Events : poller' = setEvents(poller, ch, mask)
    <3>1. poller.events[ch] \in SUBSET Events
      BY <1>1, PollerFields DEF Consistent
    <3>2. /\ poller.events[ch] \cup {"in"} \in SUBSET Events
          /\ poller.events[ch] \cup {"out"} \in SUBSET Events
          /\ poller.events[ch] \ {"out"} \in SUBSET Events
          /\ {} \in SUBSET Events
      BY <3>1 DEF Events
    <3> QED
      BY <1>4, <3>2 DEF changeEvents, enableReading, enableWriting,
                        disableWriting, disableAll
  <2>2. Consistent(poller', live')
    BY <1>1, <1>4, <2>1, SetEventsConsistent DEF changeEvents
  <2>3. TypeOK'
    BY <1>1, <1>4, <2>2 DEF changeEvents, TypeOK, Consistent
  <2> QED
    BY <1>1, <1>4, <2>2, <2>3 DEF changeEvents
<1>5. ASSUME NEW ch \in Channels, remove(ch) PROVE Inv'
  <2>1. Consistent(poller', live')
    BY <1>1, <1>5, RemoveConsistent DEF remove
  <2>2. TypeOK'
    BY <1>1, <1>5, <2>1 DEF remove, TypeOK, Consistent
  <2> QED
    BY <1>1, <1>5, <2>1, <2>2 DEF remove
<1>6. ASSUME NEW ch \in Channels, io(ch) PROVE Inv'
  <2>1. TypeOK'
    BY <1>1, <1>6, FdOfAssumption DEF io, TypeOK
  <2> QED
    BY <1>1, <1>6, <2>1 DEF io
<1>7. CASE poll
  <2>1. PICK reported \in SUBSET Reportable :
          /\ reported # {}
          /\ active' = {poller.interest[fd].ptr : fd \in reported}
          /\ poller' = [poller EXCEPT !.aborted =
                          \E fd \in reported : fillActive(poller, fd).aborted]
          /\ resize(Cardinality(reported))
    BY <1>7 DEF poll
  <2>2. \A fd \in reported : /\ fd \in DOMAIN poller.interest
                             /\ fillActive(poller, fd) = poller
                             /\ poller.interest[fd].ptr \in live
    <3>1. \A fd \in reported : fd \in DOMAIN poller.interest
      BY DEF Reportable, revents
    <3> QED
      BY <1>1, <3>1, FillConsistent
  <2>3. poller' = poller
    <3>1. (\E fd \in reported : fillActive(poller, fd).aborted) = FALSE
      BY <1>1, <2>2 DEF Consistent
    <3>2. poller.aborted = FALSE
      BY <1>1, PollerFields DEF Consistent
    <3>3. [poller EXCEPT !.aborted = poller.aborted] = poller
      BY <1>1 DEF Consistent, PollerStates
    <3> QED
      BY <2>1, <3>1, <3>2, <3>3
  <2>4. active' \in SUBSET Channels
    BY <1>1, <2>1, <2>2
  <2>5. listSize' \in Nat \ {0}
    BY <1>1, <2>1 DEF resize
  <2>6. live' = live /\ occurring' = occurring
    BY <1>7 DEF poll
  <2>7. TypeOK'
    BY <1>1, <2>3, <2>4, <2>5, <2>6 DEF TypeOK
  <2> QED
    BY <1>1, <2>3, <2>6, <2>7
<1>8. ASSUME NEW ch \in Channels, handled(ch) PROVE Inv'
  <2>1. TypeOK'
    BY <1>1, <1>8 DEF handled, TypeOK
  <2> QED
    BY <1>1, <1>8, <2>1 DEF handled
<1>9. CASE UNCHANGED vars
  BY <1>9 DEF vars, TypeOK
<1> QED
  BY <1>2, <1>3, <1>4, <1>5, <1>6, <1>7, <1>8, <1>9 DEF Next

LEMMA EPollerInvariant == Spec => []Inv
  BY InvInit, InvNext, PTL DEF Spec

(* Types, for every set of channels and descriptors (EPoller.cpp,          *)
(* Channel.h).                                                             *)
THEOREM EPollerTypeCorrect == Spec => []TypeOK
<1>1. Inv => TypeOK
  BY DEF Inv
<1> QED
  BY <1>1, EPollerInvariant, PTL

(* No assert of updateChannel, removeChannel or fillActiveChannels and no  *)
(* epoll_ctl of EPoller::update ever fails (EPoller.cpp:62-144).           *)
THEOREM EPollerNeverFails == Spec => []NoFailure
<1>1. Inv => NoFailure
  BY DEF Inv, Consistent, NoFailure
<1> QED
  BY <1>1, EPollerInvariant, PTL

(* What a channel has enabled is what the kernel watches                   *)
(* (EPoller::updateChannel, EPoller.cpp:77-114).                           *)
THEOREM EPollerWatchesDeclared == Spec => []DeclaredIsWatched
<1>1. Inv => DeclaredIsWatched
  BY DEF Inv, Consistent, Watched, DeclaredIsWatched
<1> QED
  BY <1>1, EPollerInvariant, PTL

(* Neither channels_ nor the kernel's data.ptr points to a channel that is *)
(* gone (EPoller::removeChannel, EPoller.cpp:115-132).                     *)
THEOREM EPollerNeverDangles == Spec => []NoDanglingPointer
<1>1. Inv => NoDanglingPointer
  BY DEF Inv, Consistent, Filed, Watched, NoDanglingPointer
<1> QED
  BY <1>1, EPollerInvariant, PTL

(* The list of events is doubled only by a poll that filled it, so it      *)
(* never outgrows twice the number of descriptors (EPoller::poll,          *)
(* EPoller.cpp:38-45).                                                     *)
THEOREM EPollerListIsBounded == Spec => []ListIsBounded
<1>1. Init => ListIsBounded
  BY SizeAssumption DEF Init, ListIsBounded
<1>2. Inv /\ ListIsBounded /\ [Next]_vars => ListIsBounded'
  <2> SUFFICES ASSUME Inv, ListIsBounded, [Next]_vars PROVE ListIsBounded'
    OBVIOUS
  <2>1. /\ listSize \in Nat /\ kInitEventListSize \in Nat
        /\ Cardinality(Fds) \in Nat
    BY SizeAssumption, FdsAssumption, FS_CardinalityType DEF Inv, TypeOK
  <2>2. CASE poll
    <3>1. PICK reported \in SUBSET Reportable : resize(Cardinality(reported))
      BY <2>2 DEF poll
    <3>2. reported \in SUBSET Fds
      BY DEF Reportable
    <3>3. Cardinality(reported) \in Nat /\ Cardinality(reported) <= Cardinality(Fds)
      BY <3>2, FdsAssumption, FS_Subset, FS_CardinalityType
    <3> QED
      BY <2>1, <3>1, <3>3 DEF resize, ListIsBounded
  <2>3. CASE listSize' = listSize
    BY <2>3 DEF ListIsBounded
  <2> QED
    BY <2>2, <2>3 DEF Next, vars, newChannel, destroyChannel, changeEvents,
                      remove, io, handled
<1> QED
  BY <1>1, <1>2, EPollerInvariant, PTL DEF Spec
=============================================================================
