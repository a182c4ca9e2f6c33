------------------------------- MODULE Epoll -------------------------------
(***************************************************************************)
(* The operations of tractor::Channel and tractor::EPoller on the state    *)
(* they keep, as operators from a poller state to a poller state, so that  *)
(* the handlers that make several of these calls are one action each.      *)
(*                                                                         *)
(* A poller state p is a record:                                           *)
(*   index, events    the fields index_ and events_ of every Channel       *)
(*   channels         EPoller::channels_, a map from descriptors           *)
(*   interest         the kernel's epoll set, a map from descriptors to    *)
(*                    the mask and the data.ptr of their epoll_event       *)
(*   aborted          an assert of EPoller has failed                      *)
(*   ctlFailed        an epoll_ctl has returned an error                   *)
(* Maps are functions whose domain is the set of keys present.             *)
(***************************************************************************)

CONSTANTS
  Channels,   \* Channel objects (an address may be used again)
  Fds,        \* descriptor numbers
  FdOf        \* Channel::fd_: the descriptor a channel is for

ASSUME FdOfAssumption == FdOf \in [Channels -> Fds]

kNew     == "kNew"      \* -1, the value of a freshly constructed Channel
kAdded   == "kAdded"
kDeleted == "kDeleted"

Events == {"in", "out"}          \* kReadEvent, kWriteEvent
Unmasked == {"hup", "err"}       \* reported by epoll_wait whatever the mask

Put(map, key, value) ==
  [k \in DOMAIN map \cup {key} |-> IF k = key THEN value ELSE map[k]]

Erase(map, key) == [k \in DOMAIN map \ {key} |-> map[k]]

Points(map, key, value) == key \in DOMAIN map /\ map[key] = value

EmptyPoller ==
  [index |-> [ch \in Channels |-> kNew],
   events |-> [ch \in Channels |-> {}],
   channels |-> [fd \in {} |-> {}],
   interest |-> [fd \in {} |-> {}],
   aborted |-> FALSE,
   ctlFailed |-> FALSE]

(* The values of a poller state. *)
PollerStates ==
  [index : [Channels -> {kNew, kAdded, kDeleted}],
   events : [Channels -> SUBSET Events],
   channels : UNION {[D -> Channels] : D \in SUBSET Fds},
   interest : UNION {[D -> [events : SUBSET Events, ptr : Channels]] :
                       D \in SUBSET Fds},
   aborted : BOOLEAN,
   ctlFailed : BOOLEAN]

(* assert(...) *)
assertThat(p, condition) == [p EXCEPT !.aborted = @ \/ ~condition]

-----------------------------------------------------------------------------
(***************************************************************************)
(* EPoller::update and epoll_ctl: ADD fails with EEXIST for a descriptor   *)
(* in the set, MOD and DEL with ENOENT for one that is not; a failure is   *)
(* printed and otherwise ignored.                                          *)
(***************************************************************************)
update(p, operation, ch) ==
  LET fd == FdOf[ch]
      event == [events |-> p.events[ch], ptr |-> ch]
      fails == (operation = "ADD") = (fd \in DOMAIN p.interest)
  IN  IF fails
      THEN [p EXCEPT !.ctlFailed = TRUE]
      ELSE [p EXCEPT !.interest = IF operation = "DEL"
                                  THEN Erase(@, fd)
                                  ELSE Put(@, fd, event)]

updateNew(p, ch) ==
  LET q == assertThat(p, FdOf[ch] \notin DOMAIN p.channels)
  IN  update([q EXCEPT !.channels = Put(@, FdOf[ch], ch),
                       !.index[ch] = kAdded], "ADD", ch)

updateDeleted(p, ch) ==
  LET q == assertThat(p, Points(p.channels, FdOf[ch], ch))
  IN  update([q EXCEPT !.index[ch] = kAdded], "ADD", ch)

updateAdded_KeepsIndex(p, ch) ==
  LET q == assertThat(p, Points(p.channels, FdOf[ch], ch))
  IN  IF p.events[ch] = {}
      THEN update(q, "DEL", ch)
      ELSE update(q, "MOD", ch)

updateAdded_NoModify(p, ch) ==
  LET q == assertThat(p, Points(p.channels, FdOf[ch], ch))
  IN  IF p.events[ch] = {}
      THEN [update(q, "DEL", ch) EXCEPT !.index[ch] = kDeleted]
      ELSE q

updateAdded(p, ch) ==
  LET q == assertThat(p, Points(p.channels, FdOf[ch], ch))
  IN  IF p.events[ch] = {}
      THEN [update(q, "DEL", ch) EXCEPT !.index[ch] = kDeleted]
      ELSE update(q, "MOD", ch)

(* EPoller::updateChannel.  A channel that is not in the kernel's set is   *)
(* added whatever its mask, so disabling twice adds it with an empty one.  *)
updateChannel(p, ch) ==
  CASE p.index[ch] = kNew     -> updateNew(p, ch)
    [] p.index[ch] = kDeleted -> updateDeleted(p, ch)
    [] p.index[ch] = kAdded   -> updateAdded(p, ch)

removeChannel_NotErased(p, ch) ==
  LET q == assertThat(p, /\ Points(p.channels, FdOf[ch], ch)
                     /\ p.events[ch] = {}
                     /\ p.index[ch] \in {kAdded, kDeleted})
      s == IF p.index[ch] = kAdded THEN update(q, "DEL", ch) ELSE q
  IN  [s EXCEPT !.index[ch] = kNew]

(* EPoller::removeChannel *)
removeChannel(p, ch) ==
  LET q == assertThat(p, /\ Points(p.channels, FdOf[ch], ch)
                     /\ p.events[ch] = {}
                     /\ p.index[ch] \in {kAdded, kDeleted})
      r == [q EXCEPT !.channels = Erase(@, FdOf[ch])]
      s == IF p.index[ch] = kAdded THEN update(r, "DEL", ch) ELSE r
  IN  [s EXCEPT !.index[ch] = kNew]

(* Channel::enableReading and its siblings: set the mask, then update(). *)
setEvents(p, ch, mask) == updateChannel([p EXCEPT !.events[ch] = mask], ch)

enableReading(p, ch)  == setEvents(p, ch, p.events[ch] \cup {"in"})
enableWriting(p, ch)  == setEvents(p, ch, p.events[ch] \cup {"out"})
disableWriting(p, ch) == setEvents(p, ch, p.events[ch] \ {"out"})
disableAll(p, ch)     == setEvents(p, ch, {})
isWriting(p, ch)      == "out" \in p.events[ch]

construct_IndexUnset(p, ch) ==
  [p EXCEPT !.index[ch] = "indeterminate", !.events[ch] = {}]

(* Channel::Channel: the fields of a fresh object. *)
construct(p, ch) == [p EXCEPT !.index[ch] = kNew, !.events[ch] = {}]

(* Socket::~Socket: close(2) takes the descriptor out of the epoll set. *)
closeFd(p, fd) == [p EXCEPT !.interest = Erase(@, fd)]

(* EPoller::fillActiveChannels, for one event: getFd() and the two asserts *)
(* on the channel that the kernel's data.ptr points to.                    *)
fillActive(p, fd) == assertThat(p, LET ch == p.interest[fd].ptr
                               IN  Points(p.channels, FdOf[ch], ch))

(* What epoll_wait reports for fd when io is what the kernel sees on it. *)
revents(p, fd, io) ==
  IF fd \in DOMAIN p.interest THEN io \cap (p.interest[fd].events \cup Unmasked)
                              ELSE {}
=============================================================================
