---------------------------- MODULE EpollProofs ----------------------------
(***************************************************************************)
(* What each call of Channel and EPoller keeps true of a poller state, for *)
(* any set of channels and descriptors: the lemmas that the proofs about   *)
(* EPoller and about its callers share.                                    *)
(***************************************************************************)
EXTENDS Epoll, TLAPS

(***************************************************************************)
(* The invariant, as a predicate of a poller state p and the set L of live *)
(* channels so that it can be stated of the result of a call.  index_,     *)
(* channels_ and the kernel's set tell the same story: a live channel is   *)
(* in channels_ unless its index_ is kNew, and in the kernel's set, with   *)
(* its own events, exactly when it is kAdded.                              *)
(***************************************************************************)
Filed(p, L) ==
  /\ \A fd \in DOMAIN p.channels :
       /\ p.channels[fd] \in L
       /\ FdOf[p.channels[fd]] = fd
       /\ p.index[p.channels[fd]] # kNew
  /\ \A ch \in L : p.index[ch] # kNew => Points(p.channels, FdOf[ch], ch)

Watched(p, L) ==
  /\ \A fd \in DOMAIN p.interest :
       /\ p.interest[fd].ptr \in L
       /\ FdOf[p.interest[fd].ptr] = fd
       /\ p.index[p.interest[fd].ptr] = kAdded
  /\ \A ch \in L : p.index[ch] = kAdded =>
       Points(p.interest, FdOf[ch], [events |-> p.events[ch], ptr |-> ch])
  /\ \A ch \in L : p.events[ch] # {} => p.index[ch] = kAdded

OneChannelPerFd(L) == \A c, d \in L : FdOf[c] = FdOf[d] => c = d

Consistent(p, L) ==
  /\ p \in PollerStates
  /\ Filed(p, L) /\ Watched(p, L)
  /\ ~p.aborted /\ ~p.ctlFailed

(* From p to q channel ch was constructed, became registered with a mask,  *)
(* or became unregistered, and no other channel changed.                   *)
ConstructedIn(p, q, ch) ==
  /\ q.events[ch] = {}
  /\ \A c \in Channels \ {ch} : q.index[c] = p.index[c]

RegisteredWith(p, q, ch, mask) ==
  /\ q.index[ch] # kNew
  /\ q.events = [p.events EXCEPT ![ch] = mask]
  /\ \A c \in Channels \ {ch} : q.index[c] = p.index[c]

UnregisteredFrom(p, q, ch) ==
  /\ q.index = [p.index EXCEPT ![ch] = kNew]
  /\ q.events = p.events

-----------------------------------------------------------------------------
(* The fields of a poller state, and a record with well-typed fields. *)
LEMMA PollerFields ==
  ASSUME NEW p \in PollerStates
  PROVE  /\ p.index \in [Channels -> {kNew, kAdded, kDeleted}]
         /\ p.events \in [Channels -> SUBSET Events]
         /\ DOMAIN p.channels \subseteq Fds
         /\ p.channels \in [DOMAIN p.channels -> Channels]
         /\ DOMAIN p.interest \subseteq Fds
         /\ p.interest \in [DOMAIN p.interest ->
                              [events : SUBSET Events, ptr : Channels]]
         /\ p.aborted \in BOOLEAN /\ p.ctlFailed \in BOOLEAN
         /\ p = [index |-> p.index, events |-> p.events,
                 channels |-> p.channels, interest |-> p.interest,
                 aborted |-> p.aborted, ctlFailed |-> p.ctlFailed]
  BY DEF PollerStates

(* Adding and erasing an entry of a map. *)
LEMMA PutMap ==
  ASSUME NEW V, NEW D \in SUBSET Fds, NEW map \in [D -> V],
         NEW fd \in Fds, NEW v \in V
  PROVE  /\ DOMAIN Put(map, fd, v) = D \cup {fd}
         /\ Put(map, fd, v) \in [D \cup {fd} -> V]
         /\ Put(map, fd, v)[fd] = v
         /\ \A g \in D : g # fd => Put(map, fd, v)[g] = map[g]
  BY DEF Put

LEMMA EraseMap ==
  ASSUME NEW V, NEW D \in SUBSET Fds, NEW map \in [D -> V], NEW fd
  PROVE  /\ DOMAIN Erase(map, fd) = D \ {fd}
         /\ Erase(map, fd) \in [D \ {fd} -> V]
         /\ \A g \in D : g # fd => Erase(map, fd)[g] = map[g]
  BY DEF Erase

(* A channel that is not kAdded has no entry in the kernel's set. *)
LEMMA NotAddedNotWatched ==
  ASSUME NEW p, NEW L, OneChannelPerFd(L), Watched(p, L),
         NEW ch \in L, p.index[ch] # kAdded
  PROVE  FdOf[ch] \notin DOMAIN p.interest
  BY DEF OneChannelPerFd, Watched

LEMMA NewNotFiled ==
  ASSUME NEW p, NEW L, OneChannelPerFd(L), Filed(p, L),
         NEW ch \in L, p.index[ch] = kNew
  PROVE  FdOf[ch] \notin DOMAIN p.channels
  BY DEF OneChannelPerFd, Filed

-----------------------------------------------------------------------------
(***************************************************************************)
(* What each assignment of a call does to the fields of a poller state.    *)
(***************************************************************************)
LEMMA MaskSet ==
  ASSUME NEW p \in PollerStates, NEW ch \in Channels, NEW mask \in SUBSET Events
  PROVE  LET m == [p EXCEPT !.events[ch] = mask]
         IN  /\ m \in PollerStates
             /\ m.index = p.index
             /\ m.events = [p.events EXCEPT ![ch] = mask]
             /\ m.channels = p.channels /\ m.interest = p.interest
             /\ m.aborted = p.aborted /\ m.ctlFailed = p.ctlFailed
  BY DEF PollerStates

LEMMA IndexSet ==
  ASSUME NEW p \in PollerStates, NEW ch \in Channels,
         NEW i \in {kNew, kAdded, kDeleted}
  PROVE  LET m == [p EXCEPT !.index[ch] = i]
         IN  /\ m \in PollerStates
             /\ m.index = [p.index EXCEPT ![ch] = i]
             /\ m.events = p.events
             /\ m.channels = p.channels /\ m.interest = p.interest
             /\ m.aborted = p.aborted /\ m.ctlFailed = p.ctlFailed
  BY DEF PollerStates

LEMMA ChannelsSet ==
  ASSUME NEW p \in PollerStates, NEW D \in SUBSET Fds, NEW map \in [D -> Channels]
  PROVE  LET m == [p EXCEPT !.channels = map]
         IN  /\ m \in PollerStates
             /\ m.index = p.index /\ m.events = p.events
             /\ m.channels = map /\ m.interest = p.interest
             /\ m.aborted = p.aborted /\ m.ctlFailed = p.ctlFailed
  BY DEF PollerStates

LEMMA InterestSet ==
  ASSUME NEW p \in PollerStates, NEW D \in SUBSET Fds,
         NEW map \in [D -> [events : SUBSET Events, ptr : Channels]]
  PROVE  LET m == [p EXCEPT !.interest = map]
         IN  /\ m \in PollerStates
             /\ m.index = p.index /\ m.events = p.events
             /\ m.channels = p.channels /\ m.interest = map
             /\ m.aborted = p.aborted /\ m.ctlFailed = p.ctlFailed
  BY DEF PollerStates

(* An assert that holds changes nothing. *)
LEMMA AssertHolds ==
  ASSUME NEW p \in PollerStates, NEW condition, condition
  PROVE  assertThat(p, condition) = p
<1>1. (p.aborted \/ ~condition) = p.aborted
  BY PollerFields, Zenon
<1>2. [p EXCEPT !.aborted = p.aborted] = p
  BY DEF PollerStates
<1> QED
  BY <1>1, <1>2 DEF assertThat

(* EPOLL_CTL_ADD of a descriptor that is not watched, EPOLL_CTL_MOD of one *)
(* that is.                                                                *)
LEMMA AddOrModSucceeds ==
  ASSUME NEW p \in PollerStates, NEW ch \in Channels,
         NEW operation \in {"ADD", "MOD"},
         (operation = "ADD") = (FdOf[ch] \notin DOMAIN p.interest)
  PROVE  LET m == update(p, operation, ch)
         IN  /\ m \in PollerStates
             /\ m.index = p.index /\ m.events = p.events
             /\ m.channels = p.channels
             /\ m.interest = Put(p.interest, FdOf[ch],
                                 [events |-> p.events[ch], ptr |-> ch])
             /\ m.aborted = p.aborted /\ m.ctlFailed = p.ctlFailed
<1> DEFINE event == [events |-> p.events[ch], ptr |-> ch]
           D == DOMAIN p.interest \cup {FdOf[ch]}
           map == Put(p.interest, FdOf[ch], event)
<1>1. FdOf[ch] \in Fds
  BY FdOfAssumption
<1>2. event \in [events : SUBSET Events, ptr : Channels]
  BY PollerFields
<1>3. update(p, operation, ch) = [p EXCEPT !.interest = map]
  BY DEF update
<1> HIDE DEF event
<1>4. map \in [D -> [events : SUBSET Events, ptr : Channels]]
  BY <1>1, <1>2, PollerFields, PutMap
<1>5. D \in SUBSET Fds
  BY <1>1, PollerFields
<1> HIDE DEF map, D
<1>6. LET m == [p EXCEPT !.interest = map]
      IN  /\ m \in PollerStates
          /\ m.index = p.index /\ m.events = p.events
          /\ m.channels = p.channels /\ m.interest = map
          /\ m.aborted = p.aborted /\ m.ctlFailed = p.ctlFailed
  BY <1>4, <1>5, InterestSet
<1> QED
  BY <1>3, <1>6 DEF map, event

LEMMA DelSucceeds ==
  ASSUME NEW p \in PollerStates, NEW ch \in Channels,
         FdOf[ch] \in DOMAIN p.interest
  PROVE  LET m == update(p, "DEL", ch)
         IN  /\ m \in PollerStates
             /\ m.index = p.index /\ m.events = p.events
             /\ m.channels = p.channels
             /\ m.interest = Erase(p.interest, FdOf[ch])
             /\ m.aborted = p.aborted /\ m.ctlFailed = p.ctlFailed
<1> DEFINE D == DOMAIN p.interest \ {FdOf[ch]}
           map == Erase(p.interest, FdOf[ch])
<1>1. map \in [D -> [events : SUBSET Events, ptr : Channels]]
  BY PollerFields, EraseMap
<1>2. D \in SUBSET Fds
  BY PollerFields
<1>3. update(p, "DEL", ch) = [p EXCEPT !.interest = map]
  BY DEF update
<1> HIDE DEF map, D
<1>4. LET m == [p EXCEPT !.interest = map]
      IN  /\ m \in PollerStates
          /\ m.index = p.index /\ m.events = p.events
          /\ m.channels = p.channels /\ m.interest = map
          /\ m.aborted = p.aborted /\ m.ctlFailed = p.ctlFailed
  BY <1>1, <1>2, InterestSet
<1> QED
  BY <1>3, <1>4 DEF map

-----------------------------------------------------------------------------
(* From any registered or unregistered state: the channel is put in        *)
(* channels_ and in the kernel's set, and becomes kAdded.                  *)
LEMMA Registered ==
  ASSUME NEW L \in SUBSET Channels, OneChannelPerFd(L),
         NEW p \in PollerStates, Filed(p, L), Watched(p, L),
         NEW ch \in L, NEW mask \in SUBSET Events, NEW q \in PollerStates,
         q.index = [p.index EXCEPT ![ch] = kAdded],
         q.events = [p.events EXCEPT ![ch] = mask],
         q.channels = Put(p.channels, FdOf[ch], ch),
         q.interest = Put(p.interest, FdOf[ch], [events |-> mask, ptr |-> ch])
  PROVE  Filed(q, L) /\ Watched(q, L)
<1> DEFINE fd == FdOf[ch]
<1>1. fd \in Fds /\ ch \in Channels
  BY FdOfAssumption
<1>2. /\ q.index[ch] = kAdded /\ q.events[ch] = mask
      /\ \A c \in Channels : c # ch => /\ q.index[c] = p.index[c]
                                       /\ q.events[c] = p.events[c]
  BY <1>1, PollerFields
<1>3. /\ DOMAIN q.channels = DOMAIN p.channels \cup {fd}
      /\ q.channels[fd] = ch
      /\ \A g \in DOMAIN p.channels : g # fd => q.channels[g] = p.channels[g]
  BY DEF Put
<1>4. /\ DOMAIN q.interest = DOMAIN p.interest \cup {fd}
      /\ q.interest[fd] = [events |-> mask, ptr |-> ch]
      /\ \A g \in DOMAIN p.interest : g # fd => q.interest[g] = p.interest[g]
  BY DEF Put
<1>5. [events |-> mask, ptr |-> ch].ptr = ch
  OBVIOUS
<1>6. \A c \in L : c # ch => FdOf[c] # fd
  BY DEF OneChannelPerFd
<1>7. kNew # kAdded
  BY DEF kNew, kAdded
<1>8. Filed(q, L)
  <2>1. ASSUME NEW g \in DOMAIN q.channels
        PROVE  /\ q.channels[g] \in L
               /\ FdOf[q.channels[g]] = g
               /\ q.index[q.channels[g]] # kNew
    BY <1>2, <1>3, <1>7 DEF Filed
  <2>2. ASSUME NEW c \in L, q.index[c] # kNew
        PROVE  Points(q.channels, FdOf[c], c)
    BY <2>2, <1>2, <1>3, <1>6 DEF Filed, Points
  <2> QED
    BY <2>1, <2>2 DEF Filed
<1>9. Watched(q, L)
  <2>1. ASSUME NEW g \in DOMAIN q.interest
        PROVE  /\ q.interest[g].ptr \in L
               /\ FdOf[q.interest[g].ptr] = g
               /\ q.index[q.interest[g].ptr] = kAdded
    BY <1>2, <1>4, <1>5 DEF Watched
  <2>2. ASSUME NEW c \in L, q.index[c] = kAdded
        PROVE  Points(q.interest, FdOf[c], [events |-> q.events[c], ptr |-> c])
    BY <2>2, <1>2, <1>4, <1>6 DEF Watched, Points
  <2>3. ASSUME NEW c \in L, q.events[c] # {}
        PROVE  q.index[c] = kAdded
    BY <2>3, <1>2 DEF Watched
  <2> QED
    BY <2>1, <2>2, <2>3 DEF Watched
<1> QED
  BY <1>8, <1>9

(* A channel whose last event is disabled leaves the kernel's set and      *)
(* becomes kDeleted, or kNew if it leaves channels_ too.                   *)
LEMMA Unregistered ==
  ASSUME NEW L \in SUBSET Channels, OneChannelPerFd(L),
         NEW p \in PollerStates, Filed(p, L), Watched(p, L),
         NEW ch \in L, NEW i \in {kNew, kDeleted}, NEW q \in PollerStates,
         q.index = [p.index EXCEPT ![ch] = i],
         q.events = [p.events EXCEPT ![ch] = {}],
         q.channels = IF i = kNew THEN Erase(p.channels, FdOf[ch])
                                  ELSE p.channels,
         q.interest = Erase(p.interest, FdOf[ch]),
         i = kDeleted => p.index[ch] # kNew
  PROVE  Filed(q, L) /\ Watched(q, L)
<1> DEFINE fd == FdOf[ch]
<1>1. fd \in Fds /\ ch \in Channels
  BY FdOfAssumption
<1>2. /\ q.index[ch] = i /\ q.events[ch] = {}
      /\ \A c \in Channels : c # ch => /\ q.index[c] = p.index[c]
                                       /\ q.events[c] = p.events[c]
  BY <1>1, PollerFields
<1>3. /\ \A g \in DOMAIN q.channels : /\ g \in DOMAIN p.channels
                                      /\ q.channels[g] = p.channels[g]
      /\ \A g \in DOMAIN p.channels : g # fd => g \in DOMAIN q.channels
      /\ i = kNew => fd \notin DOMAIN q.channels
      /\ i # kNew => q.channels = p.channels
  BY DEF Erase
<1>4. /\ DOMAIN q.interest = DOMAIN p.interest \ {fd}
      /\ \A g \in DOMAIN q.interest : q.interest[g] = p.interest[g]
  BY DEF Erase
<1>5. \A c \in L : c # ch => FdOf[c] # fd
  BY DEF OneChannelPerFd
<1>6. i # kAdded /\ kNew # kAdded /\ kNew # kDeleted
  BY DEF kNew, kAdded, kDeleted
<1>7. Filed(q, L)
  <2>1. ASSUME NEW g \in DOMAIN q.channels
        PROVE  /\ q.channels[g] \in L
               /\ FdOf[q.channels[g]] = g
               /\ q.index[q.channels[g]] # kNew
    BY <1>2, <1>3, <1>6 DEF Filed
  <2>2. ASSUME NEW c \in L, q.index[c] # kNew
        PROVE  Points(q.channels, FdOf[c], c)
    BY <2>2, <1>2, <1>3, <1>5, <1>6 DEF Filed, Points
  <2> QED
    BY <2>1, <2>2 DEF Filed
<1>8. Watched(q, L)
  <2>1. ASSUME NEW g \in DOMAIN q.interest
        PROVE  /\ q.interest[g].ptr \in L
               /\ FdOf[q.interest[g].ptr] = g
               /\ q.index[q.interest[g].ptr] = kAdded
    BY <1>2, <1>4 DEF Watched
  <2>2. ASSUME NEW c \in L, q.index[c] = kAdded
        PROVE  Points(q.interest, FdOf[c], [events |-> q.events[c], ptr |-> c])
    BY <2>2, <1>2, <1>4, <1>5, <1>6 DEF Watched, Points
  <2>3. ASSUME NEW c \in L, q.events[c] # {}
        PROVE  q.index[c] = kAdded
    BY <2>3, <1>2 DEF Watched
  <2> QED
    BY <2>1, <2>2, <2>3 DEF Watched
<1> QED
  BY <1>7, <1>8

(* Putting an entry that is there, erasing one that is not. *)
LEMMA PutSame ==
  ASSUME NEW D, NEW V, NEW map \in [D -> V], NEW k, NEW v, Points(map, k, v)
  PROVE  Put(map, k, v) = map
  BY DEF Put, Points

LEMMA EraseSame ==
  ASSUME NEW D, NEW V, NEW map \in [D -> V], NEW k, k \notin D
  PROVE  Erase(map, k) = map
  BY DEF Erase

-----------------------------------------------------------------------------
(***************************************************************************)
(* The calls: made on a live channel of a consistent poller, no assert and *)
(* no epoll_ctl of theirs fails, and the poller is consistent afterwards.  *)
(***************************************************************************)
LEMMA SetEventsConsistent ==
  ASSUME NEW L \in SUBSET Channels, OneChannelPerFd(L),
         NEW p, Consistent(p, L), NEW ch \in L, NEW mask \in SUBSET Events
  PROVE  /\ Consistent(setEvents(p, ch, mask), L)
         /\ RegisteredWith(p, setEvents(p, ch, mask), ch, mask)
<1> DEFINE fd == FdOf[ch]
           m == [p EXCEPT !.events[ch] = mask]
           r == [m EXCEPT !.index[ch] = kAdded]
<1>1. /\ p \in PollerStates /\ ~p.aborted /\ ~p.ctlFailed
      /\ Filed(p, L) /\ Watched(p, L)
  BY DEF Consistent
<1>2. ch \in Channels /\ fd \in Fds
  BY FdOfAssumption
<1>3. /\ m \in PollerStates /\ m.index = p.index
      /\ m.events = [p.events EXCEPT ![ch] = mask]
      /\ m.channels = p.channels /\ m.interest = p.interest
      /\ m.aborted = p.aborted /\ m.ctlFailed = p.ctlFailed
  BY <1>1, <1>2, MaskSet
<1>4. m.events[ch] = mask
  BY <1>1, <1>2, <1>3, PollerFields
<1>5. setEvents(p, ch, mask) = updateChannel(m, ch)
  BY DEF setEvents
<1> HIDE DEF m
<1>6. /\ r \in PollerStates /\ r.index = [p.index EXCEPT ![ch] = kAdded]
      /\ r.events = m.events
      /\ r.channels = p.channels /\ r.interest = p.interest
      /\ r.aborted = p.aborted /\ r.ctlFailed = p.ctlFailed
  <2>1. m \in PollerStates /\ kAdded \in {kNew, kAdded, kDeleted}
    BY <1>3
  <2>2. /\ r \in PollerStates /\ r.index = [m.index EXCEPT ![ch] = kAdded]
        /\ r.events = m.events
        /\ r.channels = m.channels /\ r.interest = m.interest
        /\ r.aborted = m.aborted /\ r.ctlFailed = m.ctlFailed
    BY <1>2, <2>1, IndexSet
  <2> HIDE DEF r
  <2> QED
    BY <1>3, <2>2
<1> HIDE DEF r
<1>7. CASE p.index[ch] = kNew
  <2> DEFINE n == [m EXCEPT !.channels = Put(@, fd, ch), !.index[ch] = kAdded]
             q == update(n, "ADD", ch)
  <2>1. fd \notin DOMAIN p.channels /\ fd \notin DOMAIN p.interest
    BY <1>1, <1>7, NewNotFiled, NotAddedNotWatched DEF kNew, kAdded
  <2>2. updateChannel(m, ch) = updateNew(m, ch)
    BY <1>3, <1>7 DEF updateChannel, kNew, kAdded, kDeleted
  <2>3. assertThat(m, fd \notin DOMAIN m.channels) = m
    BY <1>3, <2>1, AssertHolds
  <2>4. updateNew(m, ch) = q
    BY <2>3 DEF updateNew
  <2>5. /\ n \in PollerStates /\ n.index = r.index /\ n.events = m.events
        /\ n.channels = Put(p.channels, fd, ch) /\ n.interest = p.interest
        /\ n.aborted = p.aborted /\ n.ctlFailed = p.ctlFailed
    <3> DEFINE map == Put(p.channels, fd, ch)
               D == DOMAIN p.channels \cup {fd}
               o == [m EXCEPT !.channels = map]
    <3>1. map \in [D -> Channels] /\ D \in SUBSET Fds
      BY <1>1, <1>2, PollerFields, PutMap
    <3> HIDE DEF map, D
    <3>2. /\ o \in PollerStates /\ o.index = m.index /\ o.events = m.events
          /\ o.channels = map /\ o.interest = m.interest
          /\ o.aborted = m.aborted /\ o.ctlFailed = m.ctlFailed
      BY <1>3, <3>1, ChannelsSet
    <3>3. n = [o EXCEPT !.index[ch] = kAdded]
      BY <1>3, <3>2 DEF PollerStates, map
    <3> HIDE DEF o, n
    <3>4. o \in PollerStates /\ kAdded \in {kNew, kAdded, kDeleted}
      BY <3>2
    <3>5. /\ n \in PollerStates /\ n.index = [o.index EXCEPT ![ch] = kAdded]
          /\ n.events = o.events
          /\ n.channels = o.channels /\ n.interest = o.interest
          /\ n.aborted = o.aborted /\ n.ctlFailed = o.ctlFailed
      BY <1>2, <3>3, <3>4, IndexSet
    <3> QED
      BY <1>3, <1>6, <3>2, <3>5 DEF map
  <2> HIDE DEF n
  <2>6. /\ q \in PollerStates /\ q.index = n.index /\ q.events = n.events
        /\ q.channels = n.channels
        /\ q.interest = Put(n.interest, fd, [events |-> n.events[ch], ptr |-> ch])
        /\ q.aborted = n.aborted /\ q.ctlFailed = n.ctlFailed
    BY <1>2, <2>1, <2>5, AddOrModSucceeds
  <2> HIDE DEF q
  <2>7. Filed(q, L) /\ Watched(q, L)
    BY <1>1, <1>3, <1>4, <1>6, <2>5, <2>6, Registered
  <2>8. RegisteredWith(p, q, ch, mask)
    BY <1>1, <1>2, <1>3, <1>6, <2>5, <2>6, PollerFields
       DEF RegisteredWith, kNew, kAdded
  <2> QED
    BY <1>1, <1>5, <2>2, <2>4, <2>5, <2>6, <2>7, <2>8 DEF Consistent
<1>8. CASE p.index[ch] = kDeleted
  <2> DEFINE q == update(r, "ADD", ch)
  <2>1. Points(p.channels, fd, ch)
    BY <1>1, <1>8 DEF Filed, kNew, kDeleted
  <2>2. fd \notin DOMAIN p.interest
    BY <1>1, <1>8, NotAddedNotWatched DEF kDeleted, kAdded
  <2>3. updateChannel(m, ch) = updateDeleted(m, ch)
    BY <1>3, <1>8 DEF updateChannel, kNew, kAdded, kDeleted
  <2>4. assertThat(m, Points(m.channels, fd, ch)) = m
    BY <1>3, <2>1, AssertHolds
  <2>5. updateDeleted(m, ch) = q
    BY <2>4 DEF updateDeleted, r
  <2>6. /\ q \in PollerStates /\ q.index = r.index /\ q.events = r.events
        /\ q.channels = r.channels
        /\ q.interest = Put(r.interest, fd, [events |-> r.events[ch], ptr |-> ch])
        /\ q.aborted = r.aborted /\ q.ctlFailed = r.ctlFailed
    BY <1>2, <1>6, <2>2, AddOrModSucceeds
  <2> HIDE DEF q
  <2>7. p.channels = Put(p.channels, fd, ch)
    BY <1>1, <2>1, PollerFields, PutSame
  <2>8. Filed(q, L) /\ Watched(q, L)
    BY <1>1, <1>3, <1>4, <1>6, <2>6, <2>7, Registered
  <2>9. RegisteredWith(p, q, ch, mask)
    BY <1>1, <1>2, <1>3, <1>6, <2>6, PollerFields DEF RegisteredWith, kNew, kAdded
  <2> QED
    BY <1>1, <1>5, <1>6, <2>3, <2>5, <2>6, <2>8, <2>9 DEF Consistent
<1>9. CASE p.index[ch] = kAdded
  <2>1. Points(p.channels, fd, ch)
    BY <1>1, <1>9 DEF Filed, kNew, kAdded
  <2>2. fd \in DOMAIN p.interest
    BY <1>1, <1>9 DEF Watched, Points
  <2>3. updateChannel(m, ch) = updateAdded(m, ch)
    BY <1>3, <1>9 DEF updateChannel, kNew, kAdded, kDeleted
  <2>4. assertThat(m, Points(m.channels, fd, ch)) = m
    BY <1>3, <2>1, AssertHolds
  <2>5. CASE mask = {}
    <3> DEFINE d == update(m, "DEL", ch)
               q == [d EXCEPT !.index[ch] = kDeleted]
    <3>1. updateAdded(m, ch) = q
      BY <1>4, <2>4, <2>5 DEF updateAdded
    <3>2. /\ d \in PollerStates /\ d.index = m.index /\ d.events = m.events
          /\ d.channels = m.channels /\ d.interest = Erase(m.interest, fd)
          /\ d.aborted = m.aborted /\ d.ctlFailed = m.ctlFailed
      BY <1>2, <1>3, <2>2, DelSucceeds
    <3> HIDE DEF d
    <3>3. /\ q \in PollerStates /\ q.index = [d.index EXCEPT ![ch] = kDeleted]
          /\ q.events = d.events
          /\ q.channels = d.channels /\ q.interest = d.interest
          /\ q.aborted = d.aborted /\ q.ctlFailed = d.ctlFailed
      BY <1>2, <3>2, IndexSet
    <3> HIDE DEF q
    <3>4. kDeleted # kNew /\ p.index[ch] # kNew
      BY <1>9 DEF kDeleted, kNew, kAdded
    <3>5. /\ q.index = [p.index EXCEPT ![ch] = kDeleted]
          /\ q.events = [p.events EXCEPT ![ch] = {}]
          /\ q.channels = IF kDeleted = kNew THEN Erase(p.channels, fd)
                                             ELSE p.channels
          /\ q.interest = Erase(p.interest, fd)
      BY <1>3, <2>5, <3>2, <3>3, <3>4
    <3>6. Filed(q, L) /\ Watched(q, L)
      <4>1. q \in PollerStates /\ kDeleted \in {kNew, kDeleted}
        BY <3>3
      <4> QED
        BY <1>1, <3>4, <3>5, <4>1, Unregistered
    <3>7. RegisteredWith(p, q, ch, mask)
      BY <1>1, <1>2, <2>5, <3>4, <3>5, PollerFields DEF RegisteredWith
    <3> QED
      BY <1>1, <1>3, <1>5, <2>3, <3>1, <3>2, <3>3, <3>6, <3>7 DEF Consistent
  <2>6. CASE mask # {}
    <3> DEFINE q == update(m, "MOD", ch)
    <3>1. updateAdded(m, ch) = q
      BY <1>4, <2>4, <2>6 DEF updateAdded
    <3>2. /\ q \in PollerStates /\ q.index = m.index /\ q.events = m.events
          /\ q.channels = m.channels
          /\ q.interest = Put(m.interest, fd, [events |-> m.events[ch], ptr |-> ch])
          /\ q.aborted = m.aborted /\ q.ctlFailed = m.ctlFailed
      BY <1>2, <1>3, <2>2, AddOrModSucceeds
    <3> HIDE DEF q
    <3>3. p.channels = Put(p.channels, fd, ch)
      BY <1>1, <2>1, PollerFields, PutSame
    <3>4. p.index = [p.index EXCEPT ![ch] = kAdded]
      BY <1>1, <1>2, <1>9, PollerFields
    <3>5. Filed(q, L) /\ Watched(q, L)
      BY <1>1, <1>3, <1>4, <3>2, <3>3, <3>4, Registered
    <3>6. RegisteredWith(p, q, ch, mask)
      BY <1>3, <1>9, <3>2 DEF RegisteredWith, kNew, kAdded
    <3> QED
      BY <1>1, <1>3, <1>5, <2>3, <3>1, <3>2, <3>5, <3>6 DEF Consistent
  <2> QED
    BY <2>5, <2>6
<1> QED
  BY <1>1, <1>2, <1>7, <1>8, <1>9, PollerFields

LEMMA RemoveConsistent ==
  ASSUME NEW L \in SUBSET Channels, OneChannelPerFd(L),
         NEW p, Consistent(p, L), NEW ch \in L,
         p.events[ch] = {}, p.index[ch] # kNew
  PROVE  /\ Consistent(removeChannel(p, ch), L)
         /\ UnregisteredFrom(p, removeChannel(p, ch), ch)
<1> DEFINE fd == FdOf[ch]
           map == Erase(p.channels, fd)
           D == DOMAIN p.channels \ {fd}
           r == [p EXCEPT !.channels = map]
           s == IF p.index[ch] = kAdded THEN update(r, "DEL", ch) ELSE r
           q == [s EXCEPT !.index[ch] = kNew]
<1>1. /\ p \in PollerStates /\ ~p.aborted /\ ~p.ctlFailed
      /\ Filed(p, L) /\ Watched(p, L)
  BY DEF Consistent
<1>2. ch \in Channels /\ fd \in Fds
  BY FdOfAssumption
<1>3. Points(p.channels, fd, ch)
  BY <1>1 DEF Filed
<1>4. p.index[ch] \in {kAdded, kDeleted}
  BY <1>1, <1>2, PollerFields
<1>5. removeChannel(p, ch) = q
  <2>1. assertThat(p, /\ Points(p.channels, fd, ch)
                      /\ p.events[ch] = {}
                      /\ p.index[ch] \in {kAdded, kDeleted}) = p
    BY <1>1, <1>3, <1>4, AssertHolds
  <2> QED
    BY <2>1 DEF removeChannel
<1>6. map \in [D -> Channels] /\ D \in SUBSET Fds
  BY <1>1, PollerFields, EraseMap
<1> HIDE DEF map, D
<1>7. /\ r \in PollerStates /\ r.index = p.index /\ r.events = p.events
      /\ r.channels = map /\ r.interest = p.interest
      /\ r.aborted = p.aborted /\ r.ctlFailed = p.ctlFailed
  BY <1>1, <1>6, ChannelsSet
<1> HIDE DEF r
<1>8. /\ s \in PollerStates /\ s.index = p.index /\ s.events = p.events
      /\ s.channels = map /\ s.interest = Erase(p.interest, fd)
      /\ s.aborted = p.aborted /\ s.ctlFailed = p.ctlFailed
  <2>1. CASE p.index[ch] = kAdded
    <3> DEFINE t == update(r, "DEL", ch)
    <3>1. fd \in DOMAIN r.interest
      BY <1>1, <1>7, <2>1 DEF Watched, Points
    <3>2. /\ t \in PollerStates /\ t.index = r.index /\ t.events = r.events
          /\ t.channels = r.channels /\ t.interest = Erase(r.interest, fd)
          /\ t.aborted = r.aborted /\ t.ctlFailed = r.ctlFailed
      BY <1>2, <1>7, <3>1, DelSucceeds
    <3>3. s = t
      BY <2>1
    <3> HIDE DEF s, t
    <3> QED
      BY <1>7, <3>2, <3>3
  <2>2. CASE p.index[ch] # kAdded
    <3>1. fd \notin DOMAIN p.interest
      BY <1>1, <2>2, NotAddedNotWatched
    <3>2. Erase(p.interest, fd) = p.interest
      <4>1. p.interest \in [DOMAIN p.interest -> [events : SUBSET Events, ptr : Channels]]
        BY <1>1, PollerFields
      <4> QED
        BY ONLY <3>1, <4>1, EraseSame, Zenon
    <3>3. s = r
      BY <2>2
    <3> HIDE DEF s
    <3> QED
      BY <1>7, <3>2, <3>3
  <2> QED
    BY <2>1, <2>2
<1> HIDE DEF s
<1>9. /\ q \in PollerStates /\ q.index = [s.index EXCEPT ![ch] = kNew]
      /\ q.events = s.events
      /\ q.channels = s.channels /\ q.interest = s.interest
      /\ q.aborted = s.aborted /\ q.ctlFailed = s.ctlFailed
  <2>1. s \in PollerStates /\ kNew \in {kNew, kAdded, kDeleted}
    BY <1>8
  <2> QED
    BY <1>2, <2>1, IndexSet
<1> HIDE DEF q
<1>10. Filed(q, L) /\ Watched(q, L)
  <2>1. p.events = [p.events EXCEPT ![ch] = {}]
    BY <1>1, <1>2, PollerFields
  <2>2. /\ q.index = [p.index EXCEPT ![ch] = kNew]
        /\ q.events = [p.events EXCEPT ![ch] = {}]
        /\ q.channels = IF kNew = kNew THEN Erase(p.channels, fd)
                                       ELSE p.channels
        /\ q.interest = Erase(p.interest, fd)
    BY <1>8, <1>9, <2>1 DEF map
  <2>3. q \in PollerStates /\ kNew \in {kNew, kDeleted}
    BY <1>9
  <2> QED
    BY <1>1, <2>2, <2>3, Unregistered DEF kNew, kDeleted
<1>11. UnregisteredFrom(p, q, ch)
  BY <1>8, <1>9 DEF UnregisteredFrom
<1> QED
  BY <1>1, <1>5, <1>8, <1>9, <1>10, <1>11 DEF Consistent

(* A channel is constructed where no other is live on its descriptor. *)
LEMMA ConstructConsistent ==
  ASSUME NEW L \in SUBSET Channels, OneChannelPerFd(L),
         NEW p, Consistent(p, L), NEW ch \in Channels,
         \A other \in L : FdOf[other] # FdOf[ch]
  PROVE  /\ OneChannelPerFd(L \cup {ch})
         /\ Consistent(construct(p, ch), L \cup {ch})
         /\ ConstructedIn(p, construct(p, ch), ch)
<1> DEFINE q == construct(p, ch)
<1>1. /\ p \in PollerStates /\ ~p.aborted /\ ~p.ctlFailed
      /\ Filed(p, L) /\ Watched(p, L)
  BY DEF Consistent
<1>2. OneChannelPerFd(L \cup {ch})
  BY DEF OneChannelPerFd
<1>3. /\ q \in PollerStates /\ q.index = [p.index EXCEPT ![ch] = kNew]
      /\ q.events = [p.events EXCEPT ![ch] = {}]
      /\ q.channels = p.channels /\ q.interest = p.interest
      /\ q.aborted = p.aborted /\ q.ctlFailed = p.ctlFailed
  BY <1>1 DEF PollerStates, construct
<1> HIDE DEF q
<1>4. /\ q.index[ch] = kNew /\ q.events[ch] = {}
      /\ \A c \in L : q.index[c] = p.index[c] /\ q.events[c] = p.events[c]
  BY <1>1, <1>3, PollerFields
<1>5. Filed(q, L \cup {ch})
  BY <1>1, <1>3, <1>4 DEF Filed
<1>6. Watched(q, L \cup {ch})
  BY <1>1, <1>3, <1>4 DEF Watched, kNew, kAdded
<1>7. ConstructedIn(p, q, ch)
  BY <1>1, <1>3, PollerFields DEF ConstructedIn
<1> QED
  BY <1>1, <1>2, <1>3, <1>5, <1>6, <1>7 DEF Consistent, q

(* An unregistered channel is destroyed and its descriptor closed. *)
LEMMA DestroyConsistent ==
  ASSUME NEW L \in SUBSET Channels, OneChannelPerFd(L),
         NEW p, Consistent(p, L), NEW ch \in L, p.index[ch] = kNew
  PROVE  /\ OneChannelPerFd(L \ {ch})
         /\ Consistent(closeFd(p, FdOf[ch]), L \ {ch})
<1>1. /\ p \in PollerStates /\ ~p.aborted /\ ~p.ctlFailed
      /\ Filed(p, L) /\ Watched(p, L)
  BY DEF Consistent
<1>2. FdOf[ch] \notin DOMAIN p.interest
  BY <1>1, NotAddedNotWatched DEF kNew, kAdded
<1>3. Erase(p.interest, FdOf[ch]) = p.interest
  BY <1>1, <1>2, PollerFields, EraseSame
<1>4. closeFd(p, FdOf[ch]) = p
  <2>1. [p EXCEPT !.interest = p.interest] = p
    BY <1>1 DEF PollerStates
  <2> QED
    BY <1>3, <2>1 DEF closeFd
<1>5. Filed(p, L \ {ch})
  BY <1>1 DEF Filed
<1>6. Watched(p, L \ {ch})
  BY <1>1 DEF Watched, kNew, kAdded
<1>7. OneChannelPerFd(L \ {ch})
  BY DEF OneChannelPerFd
<1> QED
  BY <1>1, <1>4, <1>5, <1>6, <1>7 DEF Consistent

(* Unregistered channels are destroyed together, their descriptors closed. *)
LEMMA DestroyAllConsistent ==
  ASSUME NEW L \in SUBSET Channels, OneChannelPerFd(L),
         NEW p, Consistent(p, L),
         NEW X \in SUBSET L, \A ch \in X : p.index[ch] = kNew
  PROVE  /\ OneChannelPerFd(L \ X)
         /\ Consistent(p, L \ X)
         /\ [p EXCEPT !.interest =
              [fd \in DOMAIN @ \ {FdOf[ch] : ch \in X} |-> @[fd]]] = p
<1>1. /\ p \in PollerStates /\ ~p.aborted /\ ~p.ctlFailed
      /\ Filed(p, L) /\ Watched(p, L)
  BY DEF Consistent
<1>2. \A ch \in X : FdOf[ch] \notin DOMAIN p.interest
  BY <1>1, NotAddedNotWatched DEF kNew, kAdded
<1>3. DOMAIN p.interest \ {FdOf[ch] : ch \in X} = DOMAIN p.interest
  BY <1>2
<1>4. [fd \in DOMAIN p.interest |-> p.interest[fd]] = p.interest
  BY <1>1, PollerFields
<1>5. [p EXCEPT !.interest = p.interest] = p
  BY <1>1 DEF PollerStates
<1>6. Filed(p, L \ X)
  BY <1>1 DEF Filed
<1>7. Watched(p, L \ X)
  BY <1>1 DEF Watched, kNew, kAdded
<1>8. OneChannelPerFd(L \ X)
  BY DEF OneChannelPerFd
<1> QED
  BY <1>1, <1>3, <1>4, <1>5, <1>6, <1>7, <1>8 DEF Consistent

(* The asserts of fillActiveChannels hold for whatever the kernel reports. *)
LEMMA FillConsistent ==
  ASSUME NEW L \in SUBSET Channels, NEW p, Consistent(p, L),
         NEW fd \in DOMAIN p.interest
  PROVE  fillActive(p, fd) = p /\ p.interest[fd].ptr \in L
<1>1. p \in PollerStates /\ Filed(p, L) /\ Watched(p, L)
  BY DEF Consistent
<1> DEFINE ch == p.interest[fd].ptr
<1>2. ch \in L /\ p.index[ch] # kNew
  BY <1>1 DEF Watched, kNew, kAdded
<1>3. Points(p.channels, FdOf[ch], ch)
  BY <1>1, <1>2 DEF Filed
<1>4. assertThat(p, Points(p.channels, FdOf[ch], ch)) = p
  BY <1>1, <1>3, AssertHolds
<1> QED
  BY <1>2, <1>4 DEF fillActive

(* Before any call: nothing is registered, whichever channels there are on *)
(* descriptors of their own.                                               *)
LEMMA EmptyConsistent ==
  ASSUME NEW L \in SUBSET Channels
  PROVE  Consistent(EmptyPoller, L)
<1> DEFINE none == [fd \in {} |-> {}]
<1>1. /\ none \in UNION {[D -> Channels] : D \in SUBSET Fds}
      /\ none \in UNION {[D -> [events : SUBSET Events, ptr : Channels]] :
                           D \in SUBSET Fds}
      /\ DOMAIN none = {}
  <2>1. {} \in SUBSET Fds
    OBVIOUS
  <2>2. none \in [{} -> Channels] /\ DOMAIN none = {}
    OBVIOUS
  <2>3. none \in [{} -> [events : SUBSET Events, ptr : Channels]]
    OBVIOUS
  <2> QED
    BY <2>1, <2>2, <2>3
<1> HIDE DEF none
<1>2. /\ EmptyPoller.index = [ch \in Channels |-> kNew]
      /\ EmptyPoller.events = [ch \in Channels |-> {}]
      /\ EmptyPoller.channels = none /\ EmptyPoller.interest = none
      /\ EmptyPoller.aborted = FALSE /\ EmptyPoller.ctlFailed = FALSE
  BY DEF EmptyPoller, none
<1>3. EmptyPoller \in PollerStates
  <2>1. EmptyPoller = [index |-> [ch \in Channels |-> kNew],
                  events |-> [ch \in Channels |-> {}],
                  channels |-> none, interest |-> none,
                  aborted |-> FALSE, ctlFailed |-> FALSE]
    BY DEF EmptyPoller, none
  <2> QED
    BY <1>1, <2>1 DEF PollerStates
<1>4. /\ \A ch \in L : EmptyPoller.index[ch] = kNew /\ EmptyPoller.events[ch] = {}
      /\ DOMAIN EmptyPoller.channels = {} /\ DOMAIN EmptyPoller.interest = {}
  BY <1>1, <1>2
<1>5. Filed(EmptyPoller, L)
  BY <1>4 DEF Filed
<1>6. Watched(EmptyPoller, L)
  BY <1>4 DEF Watched, kNew, kAdded
<1> QED
  BY <1>2, <1>3, <1>5, <1>6 DEF Consistent
=============================================================================
