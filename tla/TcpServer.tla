----------------------------- MODULE TcpServer -----------------------------
(***************************************************************************)
(* tractor::TcpServer and its Acceptor on one EventLoop: how connections   *)
(* come, register with the poller, go, and are destroyed by the last       *)
(* shared_ptr to them, while descriptor numbers are used again.  What goes *)
(* through a connection is left to TcpConnection.                          *)
(*                                                                         *)
(* A connection and its channel are one model value; its name is unique,   *)
(* since nextConnId_ is.  User code runs in callbacks of the loop thread   *)
(* and may keep a TcpConnectionPtr.                                        *)
(***************************************************************************)
EXTENDS Epoll, Naturals, Sequences, FiniteSets

CONSTANTS
  acceptChannel_,  \* the Acceptor's channel; the others are connections'
  ListenFd         \* the number of the listening socket

Conns == Channels \ {acceptChannel_}   \* the connections ever accepted

None == "none"

ASSUME ServerAssumption ==
  /\ acceptChannel_ \in Channels
  /\ \A ch \in Channels : FdOf[ch] = ListenFd <=> ch = acceptChannel_
  /\ None \notin Channels

VARIABLES
  poller,           \* see Epoll
  listening_,
  connections_,
  state_,           \* TcpConnection::state_, "none" before construction
  exist,            \* connections constructed and not yet destructed
  held,             \* connections user code keeps a TcpConnectionPtr to
  pendingFunctors_, \* connections whose connectDestroyed is queued
  functors,         \* the batch of doPendingFunctors(), still holding pointers
  ran,              \* how many functors of the batch have run
  pc,               \* where the loop thread is
  active,           \* activeChannels_ to be handled
  handling,         \* the channel whose handleEvent() is on the stack
  backlog,          \* kernel: clients waiting to be accepted
  gone,             \* kernel: connections whose peer has closed or reset
  aborted           \* an assert of TcpServer or TcpConnection has failed

loopVars == <<functors, ran, pc, active, handling>>
kernelVars == <<backlog, gone>>
vars == <<poller, listening_, connections_, state_, exist, held,
          pendingFunctors_, loopVars, kernelVars, aborted>>

Init ==
  /\ poller = EmptyPoller
  /\ listening_ = FALSE
  /\ connections_ = {}
  /\ state_ = [c \in Conns |-> "none"]
  /\ exist = {} /\ held = {}
  /\ pendingFunctors_ = << >> /\ functors = << >> /\ ran = 0
  /\ pc = "out"
  /\ active = {} /\ handling = None
  /\ backlog = 0 /\ gone = {}
  /\ aborted = FALSE

-----------------------------------------------------------------------------
InSeq(s) == {s[i] : i \in 1..Len(s)}

Owned_RawPointer(queue) == {}

(* The connections that queued functors hold a pointer to. *)
Owned(queue) == InSeq(queue)

(* The destructors that run when the last pointer to a connection goes:    *)
(* p is the poller, users are those who still hold one.                    *)
destruct(p, users) ==
  /\ exist' = exist \cap users
  /\ poller' = [p EXCEPT !.interest =
                  [fd \in DOMAIN @ \ {FdOf[c] : c \in exist \ users} |-> @[fd]]]

Listen_NotEnabled(p) == p

(* Acceptor::Listen *)
Listen(p) == enableReading(p, acceptChannel_)

(* start(): Listen() is run at once by the loop thread.  The pool is not   *)
(* started, so loops_ stays empty.                                         *)
start ==
  /\ pc = "out"
  /\ ~listening_
  /\ listening_' = TRUE
  /\ poller' = Listen(poller)
  /\ UNCHANGED <<connections_, state_, exist, held,
                 pendingFunctors_, loopVars, kernelVars, aborted>>

loop ==
  /\ pc = "out"
  /\ pc' = "poll"
  /\ UNCHANGED <<poller, listening_, connections_, state_,
                 exist, held, pendingFunctors_, functors, ran, active, handling,
                 kernelVars, aborted>>

-----------------------------------------------------------------------------
(* What the kernel sees on a descriptor.  A peer that is alive may or may  *)
(* not have sent something.                                                *)
Gone(fd) == \E c \in exist \cap gone : FdOf[c] = fd

SocketEvents(fd) ==
  IF fd = ListenFd THEN {e \in {"in"} : backlog > 0}
  ELSE {"in", "out"} \cup {e \in {"hup"} : Gone(fd)}

(* EPoller::poll: reports the listening socket when clients wait, the      *)
(* connections whose peer is gone, and any of the others.                  *)
poll ==
  /\ pc = "poll"
  /\ LET ready == {fd \in Fds : revents(poller, fd, SocketEvents(fd)) # {}}
         urgent == {fd \in ready : fd = ListenFd \/ Gone(fd)}
     IN  \E reported \in SUBSET ready :
           /\ urgent \subseteq reported
           /\ active' = {poller.interest[fd].ptr : fd \in reported}
           /\ poller' = [poller EXCEPT !.aborted = @ \/
                           \E fd \in reported : fillActive(poller, fd).aborted]
  /\ pc' = "handle"
  /\ UNCHANGED <<listening_, connections_, state_, exist, held,
                 pendingFunctors_, functors, ran, handling, kernelVars, aborted>>

(* Channel::handleEvent of the next active channel begins. *)
handleEvent(ch) ==
  /\ pc = "handle" /\ handling = None
  /\ ch \in active
  /\ active' = active \ {ch}
  /\ handling' = ch
  /\ UNCHANGED <<functors, ran, pc>>

(* newConnection: nothing starts threadPool_, so getNextLoop returns the   *)
(* loop of the server; connectEstablished is run at once and the           *)
(* connection callback may keep the pointer.                               *)
newConnection(c) ==
  /\ exist' = exist \cup {c}
  /\ connections_' = connections_ \cup {c}
  /\ state_' = [state_ EXCEPT ![c] = "kConnected"]
  /\ poller' = enableReading(construct(poller, c), c)
  /\ \E keep \in SUBSET {c} : held' = held \cup keep

(* Acceptor::handleRand: one accept(2) for each event, which gives a       *)
(* number that is free or fails.                                           *)
FreeToAccept == {c \in Conns : /\ state_[c] = "none"
                               /\ \A d \in exist : FdOf[d] # FdOf[c]}

handleRand ==
  /\ handleEvent(acceptChannel_)
  /\ IF backlog > 0 /\ FreeToAccept # {}
     THEN /\ \E c \in FreeToAccept : newConnection(c)
          /\ backlog' = backlog - 1
     ELSE UNCHANGED <<exist, connections_, state_, poller, held, backlog>>
  /\ UNCHANGED <<listening_, pendingFunctors_, gone, aborted>>

connectDestroyed_NotDisabled(p, c) == removeChannel(p, c)

(* The channel's part of connectDestroyed. *)
connectDestroyed(p, c) == removeChannel(disableAll(p, c), c)

erased_Not(c) == connections_

(* connections_.erase *)
erased(c) == connections_ \ {c}

(* handleClose_, whose assert wants a connected state_, and, behind        *)
(* closeCallback_, removeConnectionInLoop: the rest is queued, with a      *)
(* pointer that outlives this handleEvent().                               *)
removeConnectionInLoop(c) ==
  /\ aborted' = (aborted \/ state_[c] # "kConnected" \/ c \notin connections_)
  /\ connections_' = erased(c)
  /\ poller' = disableAll(poller, c)
  /\ pendingFunctors_' = Append(pendingFunctors_, c)
  /\ UNCHANGED <<exist, state_>>

(* The peer is gone: read(2) returns 0. *)
handleClose_(c) ==
  /\ handleEvent(c)
  /\ c \in gone
  /\ removeConnectionInLoop(c)
  /\ UNCHANGED <<listening_, held, kernelVars>>

(* A message from c, or room to write to c.  The callback may send to any  *)
(* connection it knows: to one that is connected, or closing and not yet   *)
(* told so.  What write(2) does not take leaves that one writing.          *)
Sendable(c) == {d \in held \cup {c} : state_[d] = "kConnected"}

handleMessage(c) ==
  /\ handleEvent(c)
  /\ c \notin gone
  /\ \/ \E d \in Sendable(c) : poller' = enableWriting(poller, d)
     \/ isWriting(poller, c) /\ poller' = disableWriting(poller, c)
     \/ UNCHANGED poller
  /\ UNCHANGED <<listening_, connections_, state_, exist, held,
                 pendingFunctors_, kernelVars, aborted>>

(* handleEvent() returns. *)
handleReturn ==
  /\ handling # None
  /\ handling' = None
  /\ UNCHANGED <<poller, listening_, connections_, state_,
                 exist, held, pendingFunctors_, functors, ran, pc, active,
                 kernelVars, aborted>>

-----------------------------------------------------------------------------
doPendingFunctors ==
  /\ pc = "handle" /\ active = {} /\ handling = None
  /\ functors' = pendingFunctors_ /\ ran' = 0
  /\ pendingFunctors_' = << >>
  /\ pc' = "functors"
  /\ UNCHANGED <<poller, listening_, connections_, state_,
                 exist, held, active, handling, kernelVars, aborted>>

(* connectDestroyed; the connection callback may let go of the pointer. *)
runConnectDestroyed ==
  /\ pc = "functors" /\ ran < Len(functors)
  /\ LET c == functors[ran + 1]
     IN  /\ aborted' = (aborted \/ state_[c] # "kConnected")
         /\ state_' = [state_ EXCEPT ![c] = "kDisconnected"]
         /\ poller' = connectDestroyed(poller, c)
         /\ \E drop \in SUBSET {c} : held' = held \ drop
  /\ ran' = ran + 1
  /\ UNCHANGED <<listening_, connections_, exist,
                 pendingFunctors_, functors, pc, active, handling, kernelVars>>

(* doPendingFunctors() returns: its vector goes, and the pointers in it. *)
endFunctors ==
  /\ pc = "functors" /\ ran = Len(functors)
  /\ destruct(poller, connections_ \cup held \cup Owned(pendingFunctors_))
  /\ functors' = << >> /\ ran' = 0
  /\ pc' = "poll"
  /\ UNCHANGED <<listening_, connections_, state_, held,
                 pendingFunctors_, active, handling, kernelVars, aborted>>

(* User code, in some callback, lets go of a pointer it kept. *)
userDrops(c) ==
  /\ handling # None \/ ran > 0
  /\ c \in held /\ c # handling
  /\ held' = held \ {c}
  /\ destruct(poller, connections_ \cup held' \cup {handling}
                        \cup Owned(pendingFunctors_) \cup Owned(functors))
  /\ UNCHANGED <<listening_, connections_, state_,
                 pendingFunctors_, loopVars, kernelVars, aborted>>

-----------------------------------------------------------------------------
clientConnects ==
  /\ listening_
  /\ Cardinality({c \in Conns : state_[c] # "none"}) + backlog < Cardinality(Conns)
  /\ backlog' = backlog + 1
  /\ UNCHANGED <<poller, listening_, connections_, state_,
                 exist, held, pendingFunctors_, loopVars, gone, aborted>>

peerGoes(c) ==
  /\ c \in exist \ gone
  /\ gone' = gone \cup {c}
  /\ UNCHANGED <<poller, listening_, connections_, state_,
                 exist, held, pendingFunctors_, loopVars, backlog, aborted>>

LoopStep ==
  \/ poll \/ handleRand \/ handleReturn \/ doPendingFunctors
  \/ runConnectDestroyed \/ endFunctors
  \/ \E c \in Conns : handleClose_(c) \/ handleMessage(c)

Next ==
  \/ start \/ loop \/ LoopStep \/ clientConnects
  \/ \E c \in Conns : userDrops(c) \/ peerGoes(c)

Spec == Init /\ [][Next]_vars

(* The loop thread keeps running once it is in loop(). *)
FairSpec == Spec /\ WF_vars(LoopStep)

-----------------------------------------------------------------------------
(* Types, and where each connection is in its life. *)
TypeOK ==
  /\ listening_ \in BOOLEAN /\ aborted \in BOOLEAN
  /\ connections_ \subseteq exist /\ held \subseteq exist /\ exist \subseteq Conns
  /\ state_ \in [Conns -> {"none", "kConnected", "kDisconnected"}]
  /\ InSeq(pendingFunctors_) \cup InSeq(functors) \subseteq exist
  /\ pc \in {"out", "poll", "handle", "functors"}
  /\ active \subseteq Channels /\ handling \in Channels \cup {None}
  /\ gone \subseteq Conns

(* TcpServer and TcpConnection are the callers EPoller needs: with numbers *)
(* used again, user code sending to connections that are on their way out, *)
(* and pointers kept and dropped, no assert of handleClose_,               *)
(* removeConnectionInLoop (n is 1), connectDestroyed or EPoller fails, nor *)
(* an epoll_ctl.                                                           *)
NoFailure == ~aborted /\ ~poller.aborted /\ ~poller.ctlFailed

(* No channel is destroyed under the loop: not one that waits its turn in  *)
(* activeChannels_, nor the one whose handleEvent() is running, nor one    *)
(* that channels_ or the kernel still points to.                           *)
NoDanglingChannel ==
  active \cup ({handling} \ {None})
    \cup {poller.channels[fd] : fd \in DOMAIN poller.channels}
    \cup {poller.interest[fd].ptr : fd \in DOMAIN poller.interest}
      \subseteq exist \cup {acceptChannel_}

(* Once the peer is gone, the connection is destroyed and its descriptor   *)
(* closed, unless user code keeps a pointer.                               *)
PeerGoneFreesConnection ==
  \A c \in Conns : c \in gone ~> (c \notin exist \/ c \in held)

(* Clients are accepted while there are descriptors for them, even though  *)
(* handleRand takes only one for each event.                               *)
ClientsAreAccepted ==
  (backlog > 0 /\ pc # "out") ~> (backlog = 0 \/ FreeToAccept = {})
=============================================================================
