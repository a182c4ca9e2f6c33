------------------------------- MODULE Poller -------------------------------
(***************************************************************************)
(* tractor::Poller, the poll(2) version of the poller, and the channels it *)
(* keeps in the array pollfds_.  A channel's index_ is its place in the    *)
(* array; removing a channel moves the last entry into the gap.  An entry  *)
(* is ignored by poll(2) when its fd is negative; the code stores -fd-1.   *)
(*                                                                         *)
(* Callers enable a channel before they disable it, remove it when it is   *)
(* disabled, do not use it again after that, and do not destroy it between *)
(* poll() and its handleEvent().                                           *)
(***************************************************************************)
EXTENDS Integers, Sequences

CONSTANTS
  PollChannels,
  Fd            \* Channel::fd_, different for channels that live together

ASSUME FdAssumption == Fd \in [PollChannels -> Nat]

VARIABLES
  pollfds_,     \* records [fd, events]
  channels_,    \* map from descriptors
  index_,       \* of every channel; -1 when new
  events_,      \* of every channel
  removed,      \* channels that were removed and wait for their destructor
  active,       \* activeChannels: reported and not yet handled
  aborted       \* an assert has failed

pollerVars == <<pollfds_, channels_, index_, events_, removed, active, aborted>>

Events == {"in", "out"}

Put(map, key, value) ==
  [k \in DOMAIN map \cup {key} |-> IF k = key THEN value ELSE map[k]]

Erase(map, key) == [k \in DOMAIN map \ {key} |-> map[k]]

Points(map, key, value) == key \in DOMAIN map /\ map[key] = value

Ignored_Negated(fd) == -fd

(* The descriptor poll(2) skips; not -fd, which would leave 0 as it is. *)
Ignored(fd) == -fd - 1

PollerInit ==
  /\ pollfds_ = << >>
  /\ channels_ = [fd \in {} |-> {}]
  /\ index_ = [ch \in PollChannels |-> -1]
  /\ events_ = [ch \in PollChannels |-> {}]
  /\ removed = {} /\ active = {}
  /\ aborted = FALSE

-----------------------------------------------------------------------------
(* updateChannel for a new one: add to pollfds_. *)
updateNew(ch, mask) ==
  /\ index_[ch] < 0
  /\ aborted' = (aborted \/ Fd[ch] \in DOMAIN channels_)
  /\ pollfds_' = Append(pollfds_, [fd |-> Fd[ch], events |-> mask])
  /\ index_' = [index_ EXCEPT ![ch] = Len(pollfds_)]
  /\ channels_' = Put(channels_, Fd[ch], ch)

IndexIsRight(ch) ==
  /\ index_[ch] \in 0..(Len(pollfds_) - 1)
  /\ pollfds_[index_[ch] + 1].fd \in {Fd[ch], Ignored(Fd[ch])}

ignoredFor_Never(mask, fd, old) == old

(* An entry is ignored from the moment its channel has no events; nothing  *)
(* makes its fd positive again.                                            *)
ignoredFor(mask, fd, old) == IF mask = {} THEN Ignored(fd) ELSE old

(* updateChannel for an existing one. *)
updateOld(ch, mask) ==
  /\ index_[ch] >= 0
  /\ aborted' = (aborted \/ ~Points(channels_, Fd[ch], ch) \/ ~IndexIsRight(ch))
  /\ pollfds_' = [pollfds_ EXCEPT ![index_[ch] + 1].events = mask,
                                  ![index_[ch] + 1].fd = ignoredFor(mask, Fd[ch], @)]
  /\ UNCHANGED <<index_, channels_>>

(* The calls of Channel, which set events_ and call updateChannel. *)
enable(ch, event) ==
  /\ ch \notin removed
  /\ \A other \in PollChannels \ {ch} : Fd[other] = Fd[ch] =>
       index_[other] < 0
  /\ events_' = [events_ EXCEPT ![ch] = @ \cup {event}]
  /\ updateNew(ch, events_'[ch]) \/ updateOld(ch, events_'[ch])
  /\ UNCHANGED <<removed, active>>

disable(ch, which) ==
  /\ ch \notin removed /\ index_[ch] >= 0
  /\ events_' = [events_ EXCEPT ![ch] = @ \ which]
  /\ updateOld(ch, events_'[ch])
  /\ UNCHANGED <<removed, active>>

moved_KeepsIndex(idx) == UNCHANGED index_

(* The channel of the last entry learns its new place; the map is looked   *)
(* up by the entry's descriptor, made positive.                            *)
moved(idx) ==
  LET atEnd == pollfds_[Len(pollfds_)].fd
      fd == IF atEnd < 0 THEN -atEnd - 1 ELSE atEnd
  IN  index_' = [index_ EXCEPT ![channels_[fd]] = idx]

removeChannel(ch) ==
  LET idx == index_[ch]
      n == Len(pollfds_)
  IN  /\ ch \notin removed /\ idx >= 0 /\ events_[ch] = {}
      /\ aborted' = (aborted \/ ~Points(channels_, Fd[ch], ch) \/ ~IndexIsRight(ch)
                     \/ pollfds_[idx + 1] # [fd |-> Ignored(Fd[ch]), events |-> {}])
      /\ channels_' = Erase(channels_, Fd[ch])
      /\ IF idx = n - 1
         THEN /\ pollfds_' = SubSeq(pollfds_, 1, n - 1)
              /\ UNCHANGED index_
         ELSE /\ pollfds_' = SubSeq([pollfds_ EXCEPT ![idx + 1] = pollfds_[n]], 1, n - 1)
              /\ moved(idx)
      /\ removed' = removed \cup {ch}
      /\ UNCHANGED <<events_, active>>

(* The removed channel is destroyed; a new one may have its address. *)
renew(ch) ==
  /\ ch \in removed \ active
  /\ removed' = removed \ {ch}
  /\ index_' = [index_ EXCEPT ![ch] = -1]
  /\ events_' = [events_ EXCEPT ![ch] = {}]
  /\ UNCHANGED <<pollfds_, channels_, active, aborted>>

Polled == {i \in 1..Len(pollfds_) : pollfds_[i].fd >= 0}

(* poll() and fillActiveChannels: poll(2) has set revents in some of the   *)
(* entries it does not ignore (whatever their events, since it reports     *)
(* errors too), and each is traced to its channel by its descriptor.       *)
poll ==
  /\ active = {}
  /\ \E hits \in SUBSET Polled :
       LET fds == {pollfds_[i].fd : i \in hits}
           found == fds \cap DOMAIN channels_
       IN  /\ active' = {channels_[fd] : fd \in found}
           /\ aborted' = (aborted \/ found # fds
                           \/ \E fd \in found : Fd[channels_[fd]] # fd)
  /\ UNCHANGED <<pollfds_, channels_, index_, events_, removed>>

(* handleEvent of an active channel; the changes its callbacks make to     *)
(* this and to other channels are the actions above.                       *)
handled(ch) ==
  /\ ch \in active
  /\ active' = active \ {ch}
  /\ UNCHANGED <<pollfds_, channels_, index_, events_, removed, aborted>>

PollerNext ==
  \/ poll
  \/ \E ch \in PollChannels :
    \/ \E event \in Events : enable(ch, event)
    \/ \E which \in {{"out"}, Events} : disable(ch, which)
    \/ removeChannel(ch)
    \/ renew(ch)
    \/ handled(ch)

PollerSpec == PollerInit /\ [][PollerNext]_pollerVars

-----------------------------------------------------------------------------
Registered == {ch \in PollChannels : index_[ch] >= 0 /\ ch \notin removed}

(* Types of the array and the channels' fields; an entry holds the         *)
(* descriptor of a channel, or its code for "ignored".                     *)
PollerTypeOK ==
  /\ \A i \in 1..Len(pollfds_) :
       /\ \E ch \in PollChannels : pollfds_[i].fd \in {Fd[ch], -Fd[ch] - 1}
       /\ pollfds_[i].events \in SUBSET Events
  /\ index_ \in [PollChannels -> Int] /\ events_ \in [PollChannels -> SUBSET Events]
  /\ {removed, active} \subseteq SUBSET PollChannels /\ aborted \in BOOLEAN

(* No assert of updateChannel, removeChannel and fillActiveChannels fails, *)
(* in whatever order channels come, change and go.                         *)
NoFailure == ~aborted

(* After any number of removals that move entries, every channel's index_  *)
(* is the place of its own entry, with its own events, and the array has   *)
(* no other entries.                                                       *)
IndexConsistent ==
  /\ PollerTypeOK
  /\ \A ch \in Registered :
       IndexIsRight(ch) /\ pollfds_[index_[ch] + 1].events = events_[ch]
  /\ \A i \in 1..Len(pollfds_) : \E ch \in Registered : index_[ch] = i - 1

(* poll() reports only channels that are registered and want some event,   *)
(* descriptor 0 included: an error on the socket of one that is disabled,  *)
(* which poll(2) would report for any entry it looks at, stays unreported. *)
OnlyWantedIsReported ==
  [][\A ch \in active' \ active : ch \in Registered /\ events_[ch] # {}]_pollerVars
=============================================================================
