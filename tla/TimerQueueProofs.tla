-------------------------- MODULE TimerQueueProofs --------------------------
(***************************************************************************)
(* TimerQueue for any number of timers, any intervals and expirations, and *)
(* a wall clock that is set as often as one likes.                         *)
(***************************************************************************)
EXTENDS TimerQueue, SequenceTheorems, FiniteSetTheorems, WellFoundedInduction, TLAPS

Types ==
  /\ TypeOK
  /\ now \in Nat /\ jumped \in Nat
  /\ due \in [Timers -> Nat \cup {Never}]

InTimers(t) == <<due[t], t>> \in timers_
InLeft(t)   == <<due[t], t>> \in left
InAgain(t)  == t \in Repeating /\ \E e \in expired \ left : e[2] = t

(* An entry bears the time its timer was promised for. *)
Timely == \A e \in timers_ \cup left : e[1] = due[e[2]]

(* A timer that has still to run is in one place, the others are in none. *)
OnePlace(t) ==
  /\ due[t] # Never <=> Functor(t) \/ InTimers(t) \/ InLeft(t) \/ InAgain(t)
  /\ Functor(t) => ~InTimers(t) /\ ~InLeft(t) /\ ~InAgain(t)
  /\ InTimers(t) => ~InLeft(t) /\ ~InAgain(t)
  /\ InLeft(t) => ~InAgain(t)

OnePlaceEach == \A t \in Timers : OnePlace(t)

QueuedOnce ==
  \A i, j \in 1..Len(pending) : pending[i] = pending[j] => i = j

(* expiration_ is what addTimerInLoop will insert. *)
Added ==
  \A t \in Timers : /\ expiration_[t] = Never => due[t] = Never
                    /\ Functor(t) => expiration_[t] = due[t]

(* What handleRead has taken out of the set had expired by the time it     *)
(* read; what it has run waits for restart() or for nothing.               *)
Batch ==
  \A e \in expired :
    /\ e[1] <= now /\ expiration_[e[2]] # Never
    /\ e \notin left => due[e[2]] = IF e[2] \in Repeating THEN now + Interval[e[2]]
                                                          ELSE Never

(* reset() deletes no timer that has still to run. *)
Owned == \A t \in Timers : due[t] # Never /\ t \in held => t \in live

Working ==
  Timely /\ OnePlaceEach /\ QueuedOnce /\ Added /\ Batch /\ Owned

TimerInv == Types /\ (~Stopped => Working) /\ ArmedForEarliest

-----------------------------------------------------------------------------
LEMMA LeastNatural ==
  ASSUME NEW T, T \subseteq Nat, T # {}
  PROVE  \E x \in T : \A y \in T : x <= y
<1> DEFINE Less == {ss \in Nat \X Nat : ss[1] < ss[2]}
<1>1. IsWellFoundedOn(Less, Nat)
  BY NatLessThanWellFounded, Zenon DEF OpToRel
<1> HIDE DEF Less
<1>2. PICK x \in T : \A y \in T : ~(<<y, x>> \in Less)
  BY <1>1, WFMin
<1>3. ASSUME NEW y \in T
      PROVE  x <= y
  <2>1. <<y, x>> \in Nat \X Nat /\ <<y, x>>[1] = y /\ <<y, x>>[2] = x
    OBVIOUS
  <2>2. ~(y < x)
    BY <1>2, <2>1, Zenon DEF Less
  <2>3. x \in Nat /\ y \in Nat
    OBVIOUS
  <2> QED
    BY <2>2, <2>3
<1> QED
  BY <1>3

(* begin() of a set that is not empty. *)
LEMMA FirstIsLeast ==
  ASSUME NEW entries, entries \subseteq Nat \X Nat, entries # {}
  PROVE  /\ First(entries) \in entries
         /\ \A e \in entries : First(entries)[1] <= e[1]
<1>1. PICK x \in {e[1] : e \in entries} : \A y \in {e[1] : e \in entries} : x <= y
  <2>1. {e[1] : e \in entries} \subseteq Nat /\ {e[1] : e \in entries} # {}
    OBVIOUS
  <2> QED
    BY <2>1, LeastNatural
<1> DEFINE T == {e[2] : e \in {d \in entries : d[1] = x}}
<1>2. PICK t \in T : \A y \in T : t <= y
  <2>1. T \subseteq Nat /\ T # {}
    BY <1>1
  <2> QED
    BY <2>1, LeastNatural
<1>3. PICK d \in entries : d[1] = x /\ d[2] = t
  BY <1>2
<1>4. ASSUME NEW e \in entries
      PROVE  Precedes(d, e)
  <2>1. d[1] \in Nat /\ e[1] \in Nat /\ d[2] \in Nat /\ e[2] \in Nat /\ d[1] <= e[1]
    BY <1>1, <1>3
  <2>2. CASE d[1] = e[1]
    <3>1. e[2] \in T
      BY <1>3, <2>2
    <3>2. d[2] <= e[2]
      BY <1>2, <1>3, <3>1
    <3> QED
      BY <2>2, <3>2 DEF Precedes
  <2>3. CASE d[1] # e[1]
    BY <2>1, <2>3 DEF Precedes
  <2> QED
    BY <2>2, <2>3
<1>5. /\ First(entries) \in entries
      /\ \A e \in entries : Precedes(First(entries), e)
  BY <1>4 DEF First
<1>6. ASSUME NEW e \in entries
      PROVE  First(entries)[1] <= e[1]
  <2>1. First(entries)[1] \in Nat /\ e[1] \in Nat
    BY <1>5
  <2> QED
    BY <1>5, <2>1 DEF Precedes
<1> QED
  BY <1>5, <1>6

LEMMA EntriesAreNatural ==
  ASSUME Types
  PROVE  timers_ \subseteq Nat \X Nat /\ left \subseteq Nat \X Nat
<1>1. timers_ \subseteq Nat \X Timers /\ left \subseteq Nat \X Timers /\ Timers \subseteq Nat
  BY TimersAssumption DEF Types, TypeOK
<1> QED
  BY <1>1

LEMMA HowMuchIsNatural ==
  ASSUME Types, NEW when \in Int
  PROVE  howMuchTimeFromNow(when) \in Nat \ {0}
  BY TimersAssumption DEF Types, TypeOK, howMuchTimeFromNow, Greater

(* resetTimerfd leaves the timerfd armed. *)
LEMMA ArmedIsTyped ==
  ASSUME Types, NEW when \in Int, resetTimerfd(when)
  PROVE  /\ alarm' \in Nat /\ alarm' > 0 /\ readable' = FALSE
         /\ alarm' = howMuchTimeFromNow(when)
  BY HowMuchIsNatural DEF resetTimerfd

(* Queueing a functor, and taking one off. *)
LEMMA FunctorAppended ==
  ASSUME pending \in Seq(Timers), NEW t \in Timers, pending' = Append(pending, t)
  PROVE  /\ pending' \in Seq(Timers)
         /\ \A u \in Timers : Functor(u)' <=> Functor(u) \/ u = t
         /\ QueuedOnce /\ ~Functor(t) => QueuedOnce'
<1>1. /\ pending' \in Seq(Timers) /\ Len(pending) \in Nat
      /\ Len(pending') = Len(pending) + 1
      /\ \A i \in 1..Len(pending) : pending'[i] = pending[i]
      /\ pending'[Len(pending) + 1] = t
  BY AppendProperties, LenProperties
<1>2. 1..Len(pending') = 1..Len(pending) \cup {Len(pending) + 1}
  BY <1>1
<1>3. \A u \in Timers : Functor(u)' <=> Functor(u) \/ u = t
  BY <1>1, <1>2 DEF Functor
<1>4. QueuedOnce /\ ~Functor(t) => QueuedOnce'
  BY <1>1, <1>2 DEF Functor, QueuedOnce
<1> QED
  BY <1>1, <1>3, <1>4

LEMMA FunctorTaken ==
  ASSUME pending \in Seq(Timers), pending # << >>, QueuedOnce, pending' = Tail(pending)
  PROVE  /\ pending' \in Seq(Timers) /\ Head(pending) \in Timers
         /\ Functor(Head(pending))
         /\ \A u \in Timers : Functor(u)' <=> Functor(u) /\ u # Head(pending)
         /\ QueuedOnce'
<1>1. /\ Head(pending) \in Timers /\ pending' \in Seq(Timers)
      /\ Len(pending') = Len(pending) - 1 /\ Len(pending) \in Nat \ {0}
      /\ \A i \in 1..Len(pending') : pending'[i] = pending[i + 1]
  BY HeadTailProperties, EmptySeq
<1>2. Head(pending) = pending[1]
  OBVIOUS
<1>3. Functor(Head(pending))
  BY <1>1, <1>2 DEF Functor
<1>4. ASSUME NEW u \in Timers
      PROVE  Functor(u)' <=> Functor(u) /\ u # Head(pending)
  <2>1. ASSUME Functor(u)'
        PROVE  Functor(u) /\ u # Head(pending)
    <3>1. PICK i \in 1..Len(pending') : pending'[i] = u
      BY <2>1 DEF Functor
    <3>2. /\ i + 1 \in 1..Len(pending) /\ 1 \in 1..Len(pending) /\ i + 1 # 1
          /\ pending[i + 1] = u
      BY <1>1, <3>1
    <3> QED
      BY <1>2, <3>2 DEF Functor, QueuedOnce
  <2>2. ASSUME Functor(u), u # Head(pending)
        PROVE  Functor(u)'
    <3>1. PICK i \in 1..Len(pending) : pending[i] = u
      BY <2>2 DEF Functor
    <3>2. i # 1 /\ i - 1 \in 1..Len(pending') /\ (i - 1) + 1 = i
      BY <1>1, <1>2, <2>2, <3>1
    <3>3. pending'[i - 1] = u
      BY <1>1, <3>1, <3>2
    <3> QED
      BY <3>2, <3>3 DEF Functor
  <2> QED
    BY <2>1, <2>2
<1>5. QueuedOnce'
  <2> SUFFICES ASSUME NEW i \in 1..Len(pending'), NEW j \in 1..Len(pending'),
                      pending'[i] = pending'[j]
               PROVE  i = j
    BY DEF QueuedOnce
  <2>1. i + 1 \in 1..Len(pending) /\ j + 1 \in 1..Len(pending)
    BY <1>1
  <2>2. i + 1 = j + 1
    BY <1>1, <2>1 DEF QueuedOnce
  <2> QED
    BY <1>1, <2>2
<1> QED
  BY <1>1, <1>3, <1>4, <1>5

LEMMA NeverIsNoTime == Never \in Int /\ \A n \in Nat : n # Never
  BY DEF Never

-----------------------------------------------------------------------------
LEMMA InvFiledOnce == TimerInv => EachTimerIsFiledOnce
<1> SUFFICES ASSUME TimerInv, ~Stopped, NEW t \in Timers
             PROVE  Cardinality(Places(t)) = IF due[t] = Never THEN 0 ELSE 1
  BY DEF TimerInv, Types, Working, Timely, EachTimerIsFiledOnce
<1>1. OnePlace(t)
  BY DEF TimerInv, Working, OnePlaceEach
<1>2. Places(t) = {place \in {"functor", "timers", "left", "again"} :
                     \/ place = "functor" /\ Functor(t)
                     \/ place = "timers" /\ InTimers(t)
                     \/ place = "left" /\ InLeft(t)
                     \/ place = "again" /\ InAgain(t)}
  BY DEF Places, InTimers, InLeft, InAgain
<1>3. CASE due[t] = Never
  <2>1. Places(t) = {}
    BY <1>1, <1>2, <1>3 DEF OnePlace
  <2> QED
    BY <1>3, <2>1, FS_EmptySet
<1>4. CASE due[t] # Never
  <2>1. \E place : Places(t) = {place}
    <3>1. CASE Functor(t)
      <4>1. Places(t) = {"functor"}
        BY <1>1, <1>2, <3>1 DEF OnePlace
      <4> QED
        BY <4>1
    <3>2. CASE InTimers(t)
      <4>1. Places(t) = {"timers"}
        BY <1>1, <1>2, <3>2 DEF OnePlace
      <4> QED
        BY <4>1
    <3>3. CASE InLeft(t)
      <4>1. Places(t) = {"left"}
        BY <1>1, <1>2, <3>3 DEF OnePlace
      <4> QED
        BY <4>1
    <3>4. CASE InAgain(t)
      <4>1. Places(t) = {"again"}
        BY <1>1, <1>2, <3>4 DEF OnePlace
      <4> QED
        BY <4>1
    <3> QED
      BY <1>1, <1>4, <3>1, <3>2, <3>3, <3>4 DEF OnePlace
  <2> QED
    BY <1>4, <2>1, FS_Singleton
<1> QED
  BY <1>3, <1>4

LEMMA InvDangles == TimerInv => DanglesOnlyIfDropped
<1> SUFFICES ASSUME TimerInv, ~Stopped, NEW e \in timers_ \cup left, e[2] \in held
             PROVE  e[2] \in live
  BY DEF DanglesOnlyIfDropped
<1>1. e[1] \in Nat /\ e[2] \in Timers
  BY DEF TimerInv, Types, TypeOK
<1>2. due[e[2]] # Never
  BY <1>1, NeverIsNoTime DEF TimerInv, Working, Timely
<1> QED
  BY <1>1, <1>2 DEF TimerInv, Working, Owned

LEMMA InitInv == Init => TimerInv
<1> SUFFICES ASSUME Init PROVE TimerInv
  OBVIOUS
<1>1. pending \in Seq(Timers) /\ Len(pending) = 0
  BY EmptySeq DEF Init
<1>2. Types
  <2>1. wall = 0 /\ alarm = 0 /\ now = 0 /\ jumped = 0
    BY Zenon DEF Init
  <2>3. wall \in 0..MaxTime /\ alarm \in Nat /\ now \in Nat /\ jumped \in Nat
    BY <2>1, TimersAssumption
  <2>4. readable \in BOOLEAN /\ ~readable
    BY Zenon DEF Init
  <2>2. /\ expiration_ \in [Timers -> Int] /\ due \in [Timers -> Int]
        /\ due \in [Timers -> Nat \cup {Never}]
    BY NeverIsNoTime DEF Init
  <2> QED
    BY <1>1, <2>2, <2>3, <2>4 DEF Init, Types, TypeOK
<1>3. \A t \in Timers : ~Functor(t) /\ ~InTimers(t) /\ ~InLeft(t) /\ ~InAgain(t)
                        /\ due[t] = Never
  BY <1>1 DEF Init, Functor, InTimers, InLeft, InAgain
<1>4. Timely /\ QueuedOnce /\ Batch /\ Added /\ Owned
  BY <1>1, <1>3 DEF Init, Timely, QueuedOnce, Batch, Added, Owned
<1>5. OnePlaceEach
  BY <1>3 DEF OnePlaceEach, OnePlace
<1>6. ArmedForEarliest
  BY DEF Init, ArmedForEarliest
<1> QED
  BY <1>2, <1>4, <1>5, <1>6 DEF TimerInv, Working

-----------------------------------------------------------------------------
(* Steps that leave the queue as it is. *)
LEMMA QueueUntouched ==
  ASSUME Working, UNCHANGED <<timers_, expiration_, pending, now, expired, left, due>>,
         UNCHANGED objectVars
  PROVE  Working'
<1>1. UNCHANGED <<live, held>>
  BY DEF objectVars
<1>2. Timely' /\ QueuedOnce' /\ Batch' /\ Owned'
  BY <1>1 DEF Working, Timely, QueuedOnce, Batch, Owned
<1>3. \A t \in Timers : (Functor(t)' <=> Functor(t)) /\ (InTimers(t)' <=> InTimers(t))
                        /\ (InLeft(t)' <=> InLeft(t)) /\ (InAgain(t)' <=> InAgain(t))
  BY DEF Functor, InTimers, InLeft, InAgain
<1>4. Added' /\ OnePlaceEach'
  BY <1>3 DEF Working, Added, OnePlaceEach, OnePlace
<1> QED
  BY <1>2, <1>4 DEF Working

LEMMA PollInv ==
  ASSUME TimerInv, poll
  PROVE  TimerInv'
<1>1. UNCHANGED <<timers_, expiration_, pending, now, expired, left, live, held,
                  alarm, readable, wall, sets, jumped, due>>
      /\ pc = "loop" /\ pc' = "reported"
  BY DEF poll, objectVars, timerfdVars, clockVars
<1>2. Types'
  BY <1>1 DEF TimerInv, Types, TypeOK
<1>3. Working'
  BY <1>1, QueueUntouched DEF TimerInv, Stopped, objectVars
<1>4. ArmedForEarliest'
  BY <1>1 DEF ArmedForEarliest
<1> QED
  BY <1>2, <1>3, <1>4 DEF TimerInv

LEMMA UseAfterFreeInv ==
  ASSUME TimerInv, useAfterFree
  PROVE  TimerInv'
<1>1. UNCHANGED <<timers_, expiration_, pending, now, expired, left, live, held,
                  alarm, readable, wall, sets, jumped, due>>
      /\ pc' = "undefined"
  BY DEF useAfterFree, objectVars, timerfdVars, clockVars
<1>2. Types'
  BY <1>1 DEF TimerInv, Types, TypeOK
<1> QED
  BY <1>1, <1>2 DEF TimerInv, ArmedForEarliest, Stopped

LEMMA DestructInv ==
  ASSUME TimerInv, destruct
  PROVE  TimerInv'
<1>1. UNCHANGED <<expiration_, pending, now, expired, left, held, wall, jumped, due>>
      /\ pc' = "destroyed" /\ timers_' = {} /\ alarm' = 0 /\ readable' = FALSE
      /\ live' \subseteq live
  BY DEF destruct, clockVars
<1>2. Types'
  BY <1>1 DEF TimerInv, Types, TypeOK
<1> QED
  BY <1>1, <1>2 DEF TimerInv, ArmedForEarliest, Stopped

(* The delay of the timerfd and the distance of the first expiration       *)
(* shrink together.                                                        *)
LEMMA TickInv ==
  ASSUME TimerInv, tick
  PROVE  TimerInv'
<1>1. /\ UNCHANGED <<timers_, expiration_, pending, pc, now, expired, left, live, held,
                     jumped, due>>
      /\ wall' = IF wall < MaxTime THEN wall + 1 ELSE wall
      /\ alarm' = IF alarm > 0 THEN alarm - 1 ELSE 0
      /\ readable' = (readable \/ alarm = 1)
      /\ ~Stopped
  BY DEF tick, queueVars, objectVars
<1>2. /\ wall \in 0..MaxTime /\ alarm \in Nat /\ readable \in BOOLEAN
      /\ ~(readable /\ alarm > 0) /\ MaxTime \in Nat /\ jumped \in Nat
  BY TimersAssumption DEF TimerInv, Types, TypeOK
<1>3. /\ wall' \in 0..MaxTime /\ alarm' \in Nat /\ readable' \in BOOLEAN
      /\ ~(readable' /\ alarm' > 0)
  BY <1>1, <1>2
<1>4. Types'
  BY <1>1, <1>3 DEF TimerInv, Types, TypeOK
<1>5. Working'
  BY <1>1, QueueUntouched DEF TimerInv, objectVars
<1>6. ArmedForEarliest'
  <2> SUFFICES ASSUME pc = "loop", timers_ # {}, ~readable'
               PROVE  /\ alarm' > 0
                      /\ alarm' <= howMuchTimeFromNow(First(timers_)[1])' + jumped
    BY <1>1 DEF ArmedForEarliest
  <2>1. PICK when : when = First(timers_)[1]
    OBVIOUS
  <2>2. when \in Nat
    BY <2>1, EntriesAreNatural, FirstIsLeast DEF TimerInv
  <2>3. ~readable /\ alarm # 1
    BY <1>1, <1>2
  <2>4. alarm > 0 /\ alarm <= Greater(when - wall, 1) + jumped
    BY <2>1, <2>3 DEF TimerInv, ArmedForEarliest, howMuchTimeFromNow
  <2>5. alarm' > 0 /\ alarm' <= Greater(when - wall', 1) + jumped
    BY <1>1, <1>2, <2>2, <2>3, <2>4 DEF Greater
  <2> QED
    BY <1>1, <2>1, <2>5 DEF howMuchTimeFromNow
<1> QED
  BY <1>4, <1>5, <1>6 DEF TimerInv

(* Setting the clock forward brings the expiration nearer by as much as is *)
(* added to jumped.                                                        *)
LEMMA SetClockInv ==
  ASSUME TimerInv, NEW time \in 0..MaxTime, setClock(time)
  PROVE  TimerInv'
<1>1. /\ UNCHANGED <<timers_, expiration_, pending, pc, now, expired, left, live, held,
                     alarm, readable, due>>
      /\ wall' = time /\ jumped' = jumped + Greater(time - wall, 0)
      /\ ~Stopped
  BY DEF setClock, queueVars, objectVars, timerfdVars
<1>2. /\ wall \in 0..MaxTime /\ alarm \in Nat /\ MaxTime \in Nat /\ jumped \in Nat
  BY TimersAssumption DEF TimerInv, Types, TypeOK
<1>3. jumped' \in Nat
  BY <1>1, <1>2 DEF Greater
<1>4. Types'
  BY <1>1, <1>3 DEF TimerInv, Types, TypeOK
<1>5. Working'
  BY <1>1, QueueUntouched DEF TimerInv, objectVars
<1>6. ArmedForEarliest'
  <2> SUFFICES ASSUME pc = "loop", timers_ # {}, ~readable
               PROVE  /\ alarm > 0
                      /\ alarm <= howMuchTimeFromNow(First(timers_)[1])' + jumped'
    BY <1>1 DEF ArmedForEarliest
  <2>1. PICK when : when = First(timers_)[1]
    OBVIOUS
  <2>2. when \in Nat
    BY <2>1, EntriesAreNatural, FirstIsLeast DEF TimerInv
  <2>3. alarm > 0 /\ alarm <= Greater(when - wall, 1) + jumped
    BY <2>1 DEF TimerInv, ArmedForEarliest, howMuchTimeFromNow
  <2>4. alarm <= Greater(when - wall', 1) + jumped'
    BY <1>1, <1>2, <2>2, <2>3 DEF Greater
  <2> QED
    BY <1>1, <2>1, <2>3, <2>4 DEF howMuchTimeFromNow
<1> QED
  BY <1>4, <1>5, <1>6 DEF TimerInv

-----------------------------------------------------------------------------
(* addTimerInLoop arms the timerfd again exactly when the new timer is the *)
(* first of all.                                                           *)
LEMMA InsertArmed ==
  ASSUME TimerInv, NEW t \in Timers, NEW when \in Nat, addTimerInLoop(t, when),
         UNCHANGED <<pc, wall, jumped>>
  PROVE  /\ ArmedForEarliest'
         /\ alarm' \in Nat /\ readable' \in BOOLEAN /\ ~(readable' /\ alarm' > 0)
<1>1. /\ timers_ \subseteq Nat \X Nat /\ timers_' = timers_ \cup {<<when, t>>}
      /\ timers_' \subseteq Nat \X Nat /\ timers_' # {}
  <2>1. timers_' = timers_ \cup {<<when, t>>}
    BY DEF addTimerInLoop
  <2>2. timers_ \subseteq Nat \X Nat
    BY EntriesAreNatural DEF TimerInv
  <2>3. <<when, t>> \in Nat \X Nat
    BY TimersAssumption
  <2> QED
    BY <2>1, <2>2, <2>3, Zenon
<1>2. /\ alarm \in Nat /\ readable \in BOOLEAN /\ ~(readable /\ alarm > 0)
      /\ jumped \in Nat
  BY DEF TimerInv, Types, TypeOK
<1>3. PICK f : f = First(timers_')
  OBVIOUS
<1>4. f \in timers_' /\ f[1] \in Nat /\ \A e \in timers_' : f[1] <= e[1]
  <2>1. f \in timers_' /\ \A e \in timers_' : f[1] <= e[1]
    BY <1>1, <1>3, FirstIsLeast, Zenon
  <2> QED
    BY <1>1, <2>1
<1>5. CASE earliestChanged(when)
  <2>1. /\ alarm' \in Nat /\ alarm' > 0 /\ readable' = FALSE
        /\ alarm' = howMuchTimeFromNow(when)
    <3>1. resetTimerfd(when) /\ Types
      BY <1>5, Zenon DEF TimerInv, addTimerInLoop
    <3>2. when \in Int
      OBVIOUS
    <3> QED
      BY <3>1, <3>2, ArmedIsTyped, Zenon
  <2>2. f[1] = when
    <3>1. f[1] <= when
      <4>1. <<when, t>> \in timers_' /\ <<when, t>>[1] = when
        BY <1>1
      <4> QED
        BY <1>4, <4>1
    <3>2. CASE f \in timers_
      <4>1. timers_ # {} /\ when < First(timers_)[1]
        BY <1>5, <3>2 DEF earliestChanged
      <4>2. First(timers_)[1] <= f[1] /\ First(timers_)[1] \in Nat
        BY <1>1, <3>2, <4>1, FirstIsLeast
      <4> QED
        BY <1>4, <3>1, <4>1, <4>2
    <3>3. CASE f = <<when, t>>
      BY <3>3
    <3> QED
      BY <1>1, <1>4, <3>2, <3>3
  <2>3. howMuchTimeFromNow(First(timers_)[1])' = howMuchTimeFromNow(when)
    BY <1>3, <2>2 DEF howMuchTimeFromNow
  <2>4. alarm' <= howMuchTimeFromNow(First(timers_)[1])' + jumped'
    BY <1>2, <2>1, <2>3
  <2>5. ArmedForEarliest'
    BY <2>1, <2>4, Zenon DEF ArmedForEarliest
  <2> QED
    BY <2>1, <2>5, Zenon
<1>6. CASE ~earliestChanged(when)
  <2>1. UNCHANGED <<alarm, readable>>
    BY <1>6 DEF addTimerInLoop, timerfdVars
  <2>2. timers_ # {} /\ ~(when < First(timers_)[1])
    BY <1>6 DEF earliestChanged
  <2>3. /\ First(timers_) \in timers_ /\ First(timers_)[1] \in Nat
        /\ \A e \in timers_ : First(timers_)[1] <= e[1]
    BY <1>1, <2>2, FirstIsLeast
  <2>4. f[1] = First(timers_)[1]
    <3>1. f[1] <= First(timers_)[1]
      BY <1>1, <1>4, <2>3
    <3>2. First(timers_)[1] <= f[1]
      BY <1>1, <1>4, <2>2, <2>3
    <3> QED
      BY <1>4, <2>3, <3>1, <3>2
  <2>5. howMuchTimeFromNow(First(timers_)[1])' = howMuchTimeFromNow(First(timers_)[1])
    BY <1>3, <2>4 DEF howMuchTimeFromNow
  <2> QED
    BY <1>2, <2>1, <2>2, <2>5 DEF TimerInv, ArmedForEarliest
<1> QED
  BY <1>5, <1>6

(* A new timer was in no place before. *)
LEMMA NewIsNowhere ==
  ASSUME TimerInv, NEW t \in Timers, NEW when \in Whens, newTimer(t, when)
  PROVE  /\ ~Stopped /\ Working /\ when \in Nat
         /\ due[t] = Never /\ expiration_[t] = Never
         /\ ~Functor(t) /\ ~InAgain(t)
         /\ \A e \in timers_ \cup left \cup expired : e[2] # t
         /\ due' = [due EXCEPT ![t] = when] /\ due'[t] = when
         /\ expiration_' = [expiration_ EXCEPT ![t] = when] /\ expiration_'[t] = when
         /\ due' \in [Timers -> Int] /\ expiration_' \in [Timers -> Int]
         /\ due' \in [Timers -> Nat \cup {Never}]
         /\ live' = live \cup {t} /\ held' = held \cup {t}
<1>1. /\ due \in [Timers -> Int] /\ expiration_ \in [Timers -> Int]
      /\ due \in [Timers -> Nat \cup {Never}]
      /\ timers_ \cup expired \subseteq Nat \X Timers /\ left \subseteq expired
  BY DEF TimerInv, Types, TypeOK
<1>2. when \in Nat
  BY TimersAssumption
<1>3. ~Stopped /\ Working /\ due[t] = Never /\ expiration_[t] = Never
  BY DEF newTimer, TimerInv, Working, Added
<1>4. ~Functor(t) /\ ~InAgain(t)
  BY <1>3 DEF Working, OnePlaceEach, OnePlace
<1>5. ASSUME NEW e \in timers_ \cup left, e[2] = t
      PROVE  FALSE
  <2>1. e[1] \in Nat /\ e[1] = due[t]
    BY <1>1, <1>3, <1>5 DEF Working, Timely
  <2> QED
    BY <1>3, <2>1, NeverIsNoTime
<1>6. \A e \in expired : e[2] # t
  BY <1>3 DEF Working, Batch
<1> QED
  BY <1>1, <1>2, <1>3, <1>4, <1>5, <1>6 DEF newTimer

(* Where the timers are once a new one has been put into one place. *)
LEMMA AddedWorks ==
  ASSUME TimerInv, NEW t \in Timers, NEW when \in Whens, newTimer(t, when),
         UNCHANGED <<now, expired, left>>,
         \/ timers_' = timers_ \cup {<<when, t>>} /\ UNCHANGED pending
         \/ pending' = Append(pending, t) /\ UNCHANGED timers_
  PROVE  Working'
<1>1. /\ ~Stopped /\ Working /\ when \in Nat
      /\ due[t] = Never /\ expiration_[t] = Never
      /\ ~Functor(t) /\ ~InAgain(t)
      /\ \A e \in timers_ \cup left \cup expired : e[2] # t
      /\ due' = [due EXCEPT ![t] = when] /\ due'[t] = when
      /\ expiration_' = [expiration_ EXCEPT ![t] = when] /\ expiration_'[t] = when
      /\ live' = live \cup {t} /\ held' = held \cup {t}
  BY NewIsNowhere
<1>2. /\ due \in [Timers -> Int] /\ expiration_ \in [Timers -> Int]
      /\ timers_ \cup expired \subseteq Nat \X Timers /\ left \subseteq expired
      /\ pending \in Seq(Timers)
  BY DEF TimerInv, Types, TypeOK
<1>3. \A u \in Timers : u # t => due'[u] = due[u] /\ expiration_'[u] = expiration_[u]
  BY <1>1, <1>2
<1>4. when # Never
  BY <1>1, NeverIsNoTime
<1>5. Timely'
  <2>1. \A e \in timers_ \cup left : e[1] = due'[e[2]]
    BY <1>1, <1>2, <1>3 DEF Working, Timely
  <2>2. <<when, t>>[1] = due'[<<when, t>>[2]]
    BY <1>1
  <2> QED
    BY <2>1, <2>2 DEF Timely
<1>6. Batch'
  <2>1. \A e \in expired : e[2] \in Timers /\ e[2] # t
    BY <1>1, <1>2
  <2> QED
    BY <1>1, <1>3, <2>1 DEF Working, Batch
<1>7. Owned'
  BY <1>1, <1>3 DEF Working, Owned
<1>8. \A u \in Timers : InAgain(u)' <=> InAgain(u)
  BY DEF InAgain
<1>9. \A u \in Timers : InLeft(u)' <=> InLeft(u)
  <2>1. ~InLeft(t) /\ ~InLeft(t)'
    BY <1>1 DEF InLeft
  <2>2. \A u \in Timers : u # t => (InLeft(u)' <=> InLeft(u))
    BY <1>3 DEF InLeft
  <2> QED
    BY <2>1, <2>2
<1>10. ~InTimers(t) /\ ~InLeft(t)
  BY <1>1 DEF InTimers, InLeft
<1>11. CASE timers_' = timers_ \cup {<<when, t>>} /\ UNCHANGED pending
  <2>1. \A u \in Timers : Functor(u)' <=> Functor(u)
    BY <1>11 DEF Functor
  <2>2. InTimers(t)' /\ \A u \in Timers : u # t => (InTimers(u)' <=> InTimers(u))
    BY <1>1, <1>3, <1>11 DEF InTimers
  <2>3. QueuedOnce'
    BY <1>1, <1>11 DEF Working, QueuedOnce
  <2>4. Added'
    BY <1>1, <1>3, <1>4, <2>1 DEF Working, Added
  <2>5. ASSUME NEW u \in Timers PROVE OnePlace(u)'
    <3>1. CASE u = t
      BY <1>1, <1>4, <1>8, <1>9, <1>10, <2>1, <2>2, <3>1 DEF OnePlace
    <3>2. CASE u # t
      <4>1. OnePlace(u)
        BY <1>1 DEF Working, OnePlaceEach
      <4> QED
        BY <1>3, <1>8, <1>9, <2>1, <2>2, <3>2, <4>1 DEF OnePlace
    <3> QED
      BY <3>1, <3>2
  <2> QED
    BY <1>5, <1>6, <1>7, <2>3, <2>4, <2>5 DEF Working, OnePlaceEach
<1>12. CASE pending' = Append(pending, t) /\ UNCHANGED timers_
  <2>1. (\A u \in Timers : Functor(u)' <=> Functor(u) \/ u = t) /\ QueuedOnce'
    BY <1>1, <1>2, <1>12, FunctorAppended DEF Working
  <2>2. \A u \in Timers : InTimers(u)' <=> InTimers(u)
    <3>1. ~InTimers(t)'
      BY <1>1, <1>12 DEF InTimers
    <3> QED
      BY <1>3, <1>10, <1>12, <3>1 DEF InTimers
  <2>3. Added'
    BY <1>1, <1>3, <1>4, <2>1 DEF Working, Added
  <2>4. ASSUME NEW u \in Timers PROVE OnePlace(u)'
    <3>1. CASE u = t
      BY <1>1, <1>4, <1>8, <1>9, <1>10, <2>1, <2>2, <3>1 DEF OnePlace
    <3>2. CASE u # t
      <4>1. OnePlace(u)
        BY <1>1 DEF Working, OnePlaceEach
      <4> QED
        BY <1>3, <1>8, <1>9, <2>1, <2>2, <3>2, <4>1 DEF OnePlace
    <3> QED
      BY <3>1, <3>2
  <2> QED
    BY <1>5, <1>6, <1>7, <2>1, <2>3, <2>4 DEF Working, OnePlaceEach
<1> QED
  BY <1>11, <1>12

LEMMA AddTimerSelfInv ==
  ASSUME TimerInv, NEW t \in Timers, NEW when \in Whens, addTimerSelf(t, when)
  PROVE  TimerInv'
<1>1. /\ newTimer(t, when) /\ addTimerInLoop(t, when)
      /\ UNCHANGED <<pending, pc, now, expired, left, wall, jumped>>
      /\ timers_' = timers_ \cup {<<when, t>>}
  BY DEF addTimerSelf, addTimerInLoop, clockVars
<1>2. /\ when \in Nat /\ due' \in [Timers -> Int] /\ expiration_' \in [Timers -> Int]
      /\ due' \in [Timers -> Nat \cup {Never}]
      /\ live' = live \cup {t} /\ held' = held \cup {t}
  BY <1>1, NewIsNowhere
<1>3. /\ ArmedForEarliest'
      /\ alarm' \in Nat /\ readable' \in BOOLEAN /\ ~(readable' /\ alarm' > 0)
  BY <1>1, <1>2, InsertArmed
<1>4. Working'
  BY <1>1, AddedWorks
<1>5. Types'
  <2>1. <<when, t>> \in Nat \X Timers
    BY <1>2
  <2>2. timers_' \cup expired' \subseteq Nat \X Timers
    BY <1>1, <2>1 DEF TimerInv, Types, TypeOK
  <2> QED
    BY <1>1, <1>2, <1>3, <2>2 DEF TimerInv, Types, TypeOK
<1> QED
  BY <1>3, <1>4, <1>5 DEF TimerInv

LEMMA AddTimerInv ==
  ASSUME TimerInv, NEW t \in Timers, NEW when \in Whens, addTimer(t, when)
  PROVE  TimerInv'
<1>1. /\ newTimer(t, when) /\ pending' = Append(pending, t)
      /\ UNCHANGED <<timers_, pc, now, expired, left, alarm, readable, wall, jumped>>
  BY DEF addTimer, timerfdVars, clockVars
<1>2. /\ when \in Nat /\ due' \in [Timers -> Int] /\ expiration_' \in [Timers -> Int]
      /\ due' \in [Timers -> Nat \cup {Never}]
      /\ live' = live \cup {t} /\ held' = held \cup {t}
  BY <1>1, NewIsNowhere
<1>3. pending \in Seq(Timers)
  BY DEF TimerInv, Types, TypeOK
<1>4. pending' \in Seq(Timers)
  BY <1>1, <1>3, FunctorAppended
<1>5. Working'
  BY <1>1, AddedWorks
<1>6. Types'
  BY <1>1, <1>2, <1>4 DEF TimerInv, Types, TypeOK
<1>7. ArmedForEarliest'
  BY <1>1 DEF TimerInv, ArmedForEarliest, howMuchTimeFromNow
<1> QED
  BY <1>5, <1>6, <1>7 DEF TimerInv

LEMMA RunFunctorInv ==
  ASSUME TimerInv, runFunctor
  PROVE  TimerInv'
<1>1. PICK t : t = Head(pending)
  OBVIOUS
<1>2. /\ pc = "loop" /\ pending # << >> /\ pending' = Tail(pending)
      /\ addTimerInLoop(t, expiration_[t])
      /\ live' = IF t \in held THEN live ELSE live \ {t}
      /\ UNCHANGED <<expiration_, pc, now, expired, left, held, wall, jumped, due>>
  BY <1>1 DEF runFunctor, clockVars
<1>3. /\ pending \in Seq(Timers) /\ expired = {} /\ left = {}
      /\ due \in [Timers -> Nat \cup {Never}] /\ timers_ \subseteq Nat \X Timers
  BY <1>2 DEF TimerInv, Types, TypeOK
<1>4. Working /\ ~Stopped
  BY <1>2 DEF TimerInv, Stopped
<1>5. /\ pending' \in Seq(Timers) /\ t \in Timers /\ Functor(t)
      /\ \A u \in Timers : Functor(u)' <=> Functor(u) /\ u # t
      /\ QueuedOnce'
  BY <1>1, <1>2, <1>3, <1>4, FunctorTaken DEF Working
<1>6. due[t] # Never /\ expiration_[t] = due[t] /\ due[t] \in Nat
  BY <1>3, <1>4, <1>5 DEF Working, Added, OnePlaceEach, OnePlace
<1>7. timers_' = timers_ \cup {<<due[t], t>>}
  BY <1>2, <1>6 DEF addTimerInLoop
<1>8. /\ ArmedForEarliest'
      /\ alarm' \in Nat /\ readable' \in BOOLEAN /\ ~(readable' /\ alarm' > 0)
  <2>1. addTimerInLoop(t, due[t]) /\ UNCHANGED <<pc, wall, jumped>>
    BY <1>2, <1>6
  <2> QED
    BY <1>5, <1>6, <2>1, InsertArmed
<1>9. Types'
  <2>1. timers_' \subseteq Nat \X Timers /\ live' \subseteq Timers
    BY <1>2, <1>3, <1>5, <1>6, <1>7 DEF TimerInv, Types, TypeOK
  <2> QED
    BY <1>2, <1>3, <1>5, <1>8, <2>1 DEF TimerInv, Types, TypeOK
<1>10. Timely'
  <2>1. <<due[t], t>>[1] = due[<<due[t], t>>[2]]
    OBVIOUS
  <2> QED
    BY <1>2, <1>3, <1>4, <1>7, <2>1 DEF Working, Timely
<1>11. Added' /\ Batch'
  BY <1>2, <1>3, <1>4, <1>5 DEF Working, Added, Batch
<1>12. Owned'
  BY <1>2, <1>4 DEF Working, Owned
<1>13. ASSUME NEW u \in Timers PROVE OnePlace(u)'
  <2>1. /\ InTimers(u)' <=> InTimers(u) \/ u = t
        /\ InLeft(u)' <=> InLeft(u)
        /\ InAgain(u)' <=> InAgain(u)
    BY <1>2, <1>7 DEF InTimers, InLeft, InAgain
  <2>2. OnePlace(u) /\ (u = t => Functor(u))
    BY <1>4, <1>5 DEF Working, OnePlaceEach
  <2> QED
    BY <1>2, <1>5, <2>1, <2>2 DEF OnePlace
<1> QED
  BY <1>5, <1>8, <1>9, <1>10, <1>11, <1>12, <1>13 DEF TimerInv, Working, OnePlaceEach

LEMMA UserDropsInv ==
  ASSUME TimerInv, NEW t \in Timers, userDrops(t)
  PROVE  TimerInv'
<1>1. /\ ~Stopped /\ held' = held \ {t} /\ (pc' = pc \/ pc' = "undefined")
      /\ live' \subseteq live /\ live \ {t} \subseteq live'
      /\ UNCHANGED <<timers_, expiration_, pending, now, expired, left, alarm, readable,
                     wall, jumped, due>>
  BY DEF userDrops, timerfdVars, clockVars
<1>2. Types'
  BY <1>1 DEF TimerInv, Types, TypeOK
<1>3. Working'
  <2>1. Working
    BY <1>1 DEF TimerInv
  <2>2. Timely' /\ QueuedOnce' /\ Batch'
    BY <1>1, <2>1 DEF Working, Timely, QueuedOnce, Batch
  <2>3. Owned'
    BY <1>1, <2>1 DEF Working, Owned
  <2>4. \A u \in Timers : (Functor(u)' <=> Functor(u)) /\ (InTimers(u)' <=> InTimers(u))
                          /\ (InLeft(u)' <=> InLeft(u)) /\ (InAgain(u)' <=> InAgain(u))
    BY <1>1 DEF Functor, InTimers, InLeft, InAgain
  <2>5. Added' /\ OnePlaceEach'
    BY <1>1, <2>1, <2>4 DEF Working, Added, OnePlaceEach, OnePlace
  <2> QED
    BY <2>2, <2>3, <2>5 DEF Working
<1>4. ArmedForEarliest'
  BY <1>1 DEF TimerInv, ArmedForEarliest, howMuchTimeFromNow
<1> QED
  BY <1>2, <1>3, <1>4 DEF TimerInv

(* The expired timers go from timers_ to the batch. *)
LEMMA HandleReadInv ==
  ASSUME TimerInv, handleRead
  PROVE  TimerInv'
<1>1. /\ pc = "reported" /\ pc' = "run" /\ now' = wall /\ readable' = FALSE
      /\ expired' = getExpired /\ left' = getExpired /\ timers_' = timers_ \ getExpired
      /\ UNCHANGED <<expiration_, pending, live, held, alarm, wall, jumped, due>>
  BY DEF handleRead, objectVars, clockVars
<1>2. /\ getExpired \subseteq timers_ /\ \A e \in getExpired : e[1] <= wall
  BY DEF getExpired
<1>3. /\ expired = {} /\ left = {} /\ timers_ \subseteq Nat \X Timers
      /\ wall \in Nat /\ alarm \in Nat
  BY <1>1, TimersAssumption DEF TimerInv, Types, TypeOK
<1>4. Working /\ ~Stopped
  BY <1>1 DEF TimerInv, Stopped
<1>5. Types'
  BY <1>1, <1>2, <1>3 DEF TimerInv, Types, TypeOK
<1>6. Timely' /\ QueuedOnce' /\ Owned'
  BY <1>1, <1>2, <1>4 DEF Working, Timely, QueuedOnce, Owned
<1>7. \A u \in Timers : Functor(u)' <=> Functor(u)
  BY <1>1 DEF Functor
<1>8. Added'
  BY <1>1, <1>4, <1>7 DEF Working, Added
<1>9. Batch'
  <2> SUFFICES ASSUME NEW e \in getExpired
               PROVE  e[1] <= wall /\ expiration_[e[2]] # Never
    BY <1>1 DEF Batch
  <2>1. e[1] \in Nat /\ e[2] \in Timers /\ due[e[2]] = e[1]
    BY <1>2, <1>3, <1>4 DEF Working, Timely
  <2> QED
    BY <1>2, <1>4, <2>1, NeverIsNoTime DEF Working, Added
<1>10. ASSUME NEW u \in Timers PROVE OnePlace(u)'
  <2>1. /\ InTimers(u)' <=> InTimers(u) /\ <<due[u], u>> \notin getExpired
        /\ InLeft(u)' <=> InTimers(u) /\ <<due[u], u>> \in getExpired
        /\ ~InAgain(u)' /\ ~InAgain(u) /\ ~InLeft(u)
    BY <1>1, <1>2, <1>3 DEF InTimers, InLeft, InAgain
  <2>2. OnePlace(u)
    BY <1>4 DEF Working, OnePlaceEach
  <2> QED
    BY <1>1, <1>7, <2>1, <2>2 DEF OnePlace
<1>11. ArmedForEarliest'
  BY <1>1 DEF ArmedForEarliest
<1> QED
  BY <1>5, <1>6, <1>8, <1>9, <1>10, <1>11 DEF TimerInv, Working, OnePlaceEach

(* What runTimer does, about the timer it runs. *)
LEMMA RunTimerFacts ==
  ASSUME TimerInv, runTimer
  PROVE  \E e \in left :
           LET t == e[2]
               next == IF t \in Repeating THEN now + Interval[t] ELSE Never
           IN  /\ t \in Timers /\ e = <<due[t], t>> /\ due[t] \in Nat /\ due[t] <= now
               /\ next \in Nat \cup {Never} /\ (next = Never <=> t \notin Repeating)
               /\ due' = [due EXCEPT ![t] = next]
               /\ left' = left \ {e}
<1>1. PICK e : e = First(left)
  OBVIOUS
<1>2. /\ pc = "run" /\ left # {}
      /\ due' = [due EXCEPT ![e[2]] = IF e[2] \in Repeating THEN now + Interval[e[2]] ELSE Never]
      /\ left' = left \ {e}
  BY <1>1 DEF runTimer
<1>3. e \in left
  BY <1>1, <1>2, EntriesAreNatural, FirstIsLeast DEF TimerInv
<1>4. Working
  BY <1>2 DEF TimerInv, Stopped
<1>5. e \in Nat \X Timers /\ e \in expired /\ now \in Nat
  BY <1>3 DEF TimerInv, Types, TypeOK
<1>6. e[1] = due[e[2]] /\ e[1] <= now
  BY <1>3, <1>4, <1>5 DEF Working, Timely, Batch
<1>7. e = <<due[e[2]], e[2]>> /\ due[e[2]] \in Nat /\ e[2] \in Timers
  BY <1>5, <1>6
<1>8. ASSUME e[2] \in Repeating
      PROVE  now + Interval[e[2]] \in Nat
  <2>1. Interval[e[2]] \in Nat
    BY <1>8, TimersAssumption
  <2> QED
    BY <1>5, <2>1
<1> QED
  BY <1>2, <1>3, <1>6, <1>7, <1>8, NeverIsNoTime

LEMMA RunTimerInv ==
  ASSUME TimerInv, runTimer
  PROVE  TimerInv'
<1>1. PICK e \in left :
        LET t == e[2]
            next == IF t \in Repeating THEN now + Interval[t] ELSE Never
        IN  /\ t \in Timers /\ e = <<due[t], t>> /\ due[t] \in Nat /\ due[t] <= now
            /\ next \in Nat \cup {Never} /\ (next = Never <=> t \notin Repeating)
            /\ due' = [due EXCEPT ![t] = next]
            /\ left' = left \ {e}
  BY RunTimerFacts
<1>2. PICK t : t = e[2]
  OBVIOUS
<1>3. PICK next : next = IF t \in Repeating THEN now + Interval[t] ELSE Never
  OBVIOUS
<1>4. /\ t \in Timers /\ e = <<due[t], t>> /\ due[t] \in Nat
      /\ next \in Nat \cup {Never} /\ (next = Never <=> t \notin Repeating)
      /\ due' = [due EXCEPT ![t] = next]
      /\ left' = left \ {e}
  BY <1>1, <1>2, <1>3
<1>5. /\ pc = "run"
      /\ UNCHANGED <<timers_, expiration_, pending, pc, now, expired, live, held,
                     alarm, readable, wall, jumped>>
  BY DEF runTimer, objectVars, timerfdVars, clockVars
<1>6. Working
  BY <1>5 DEF TimerInv, Stopped
<1>7. /\ due \in [Timers -> Nat \cup {Never}] /\ left \subseteq expired
      /\ timers_ \cup expired \subseteq Nat \X Timers
  BY DEF TimerInv, Types, TypeOK
<1>8. /\ due' \in [Timers -> Nat \cup {Never}] /\ due'[t] = next
      /\ \A u \in Timers : u # t => due'[u] = due[u]
  BY <1>4, <1>7
<1>9. due' \in [Timers -> Int]
  BY <1>8, NeverIsNoTime
<1>10. Types'
  BY <1>4, <1>5, <1>8, <1>9 DEF TimerInv, Types, TypeOK
(* The timer was in the batch and nowhere else. *)
<1>11. InLeft(t) /\ ~InTimers(t) /\ ~InAgain(t) /\ ~Functor(t) /\ due[t] # Never
  BY <1>1, <1>4, <1>6, NeverIsNoTime DEF Working, OnePlaceEach, OnePlace, InLeft
<1>12. \A d \in timers_ \cup left' : d[2] # t
  <2> SUFFICES ASSUME NEW d \in timers_ \cup left', d[2] = t
               PROVE  FALSE
    OBVIOUS
  <2>1. d \in Nat \X Timers /\ d[1] = due[t]
    BY <1>4, <1>6, <1>7 DEF Working, Timely
  <2>2. d = <<due[t], t>>
    BY <2>1
  <2> QED
    BY <1>4, <1>11, <2>2 DEF InTimers
<1>13. Timely'
  BY <1>4, <1>5, <1>6, <1>7, <1>8, <1>12 DEF Working, Timely
<1>14. \A u \in Timers : Functor(u)' <=> Functor(u)
  BY <1>5 DEF Functor
<1>15. Added'
  <2>1. expiration_[t] # Never
    BY <1>4, <1>6, <1>11 DEF Working, Added
  <2> QED
    BY <1>4, <1>5, <1>6, <1>8, <1>11, <1>14, <2>1 DEF Working, Added
<1>16. Batch'
  <2> SUFFICES ASSUME NEW d \in expired
               PROVE  /\ d[1] <= now /\ expiration_[d[2]] # Never
                      /\ d \notin left' =>
                           due'[d[2]] = IF d[2] \in Repeating THEN now + Interval[d[2]]
                                                              ELSE Never
    BY <1>5 DEF Batch
  <2>1. d[1] <= now /\ expiration_[d[2]] # Never /\ d[2] \in Timers
    BY <1>6, <1>7 DEF Working, Batch
  <2>2. CASE d[2] = t
    BY <1>3, <1>8, <2>1, <2>2
  <2>3. CASE d[2] # t
    <3>1. d \notin left' => d \notin left
      BY <1>2, <1>4, <2>3
    <3> QED
      BY <1>6, <1>8, <2>1, <2>3, <3>1 DEF Working, Batch
  <2> QED
    BY <2>2, <2>3
<1>17. Owned' /\ QueuedOnce'
  <2>1. t \in held => t \in live
    BY <1>4, <1>6, <1>11 DEF Working, Owned
  <2> QED
    BY <1>5, <1>6, <1>8, <2>1 DEF Working, Owned, QueuedOnce
<1>18. ASSUME NEW u \in Timers PROVE OnePlace(u)'
  <2>1. CASE u = t
    <3>1. ~InTimers(t)' /\ ~InLeft(t)'
      BY <1>5, <1>12 DEF InTimers, InLeft
    <3>2. InAgain(t)' <=> t \in Repeating
      BY <1>1, <1>2, <1>4, <1>5, <1>7 DEF InAgain
    <3> QED
      BY <1>4, <1>8, <1>11, <1>14, <2>1, <3>1, <3>2 DEF OnePlace
  <2>2. CASE u # t
    <3>1. (InTimers(u)' <=> InTimers(u)) /\ (InLeft(u)' <=> InLeft(u))
      BY <1>4, <1>5, <1>8, <2>2 DEF InTimers, InLeft
    <3>2. InAgain(u)' <=> InAgain(u)
      BY <1>2, <1>4, <1>5, <2>2 DEF InAgain
    <3>3. OnePlace(u)
      BY <1>6 DEF Working, OnePlaceEach
    <3> QED
      BY <1>8, <1>14, <2>2, <3>1, <3>2, <3>3 DEF OnePlace
  <2> QED
    BY <2>1, <2>2
<1>19. ArmedForEarliest'
  BY <1>5 DEF ArmedForEarliest
<1> QED
  BY <1>10, <1>13, <1>15, <1>16, <1>17, <1>18, <1>19 DEF TimerInv, Working, OnePlaceEach

(* The repeating timers of the batch go back to timers_; whatever is left  *)
(* uninitialised, the timerfd is armed when there is a timer.              *)
LEMMA ResetInv ==
  ASSUME TimerInv, reset
  PROVE  TimerInv'
<1> DEFINE ran == {e[2] : e \in expired}
<1>1. /\ pc = "run" /\ left = {} /\ Touched(ran) \subseteq live
      /\ expiration_' = [t \in Timers |-> IF t \in kept(ran) THEN restart(t) ELSE expiration_[t]]
      /\ timers_' = inserted(ran) /\ live' = live \ deleted(ran)
      /\ nextExpire(timers_')
      /\ expired' = {} /\ pc' \in {"loop", "undefined"}
      /\ UNCHANGED <<pending, now, left, held, wall, jumped, due>>
  BY DEF reset, clockVars
<1>2. Working
  BY <1>1 DEF TimerInv, Stopped
<1>3. /\ timers_ \cup expired \subseteq Nat \X Timers /\ now \in Nat
      /\ due \in [Timers -> Nat \cup {Never}] /\ expiration_ \in [Timers -> Int]
      /\ jumped \in Nat /\ alarm \in Nat /\ readable \in BOOLEAN
      /\ ~(readable /\ alarm > 0)
  BY DEF TimerInv, Types, TypeOK
<1>4. PICK again : again = kept(ran)
  OBVIOUS
<1>5. again \subseteq Timers /\ \A u \in Timers : InAgain(u) <=> u \in again
  BY <1>1, <1>3, <1>4, TimersAssumption DEF kept, InAgain
<1>6. \A u \in again : restart(u) = due[u] /\ due[u] \in Nat
  <2> SUFFICES ASSUME NEW u \in again
               PROVE  restart(u) = due[u] /\ due[u] \in Nat
    OBVIOUS
  <2>1. PICK e \in expired : e[2] = u /\ u \in Repeating
    BY <1>4 DEF kept
  <2>2. due[u] = now + Interval[u] /\ now + Interval[u] \in Nat
    BY <1>1, <1>2, <1>3, <2>1, TimersAssumption DEF Working, Batch
  <2> QED
    BY <2>2 DEF restart
<1>7. timers_' = timers_ \cup {<<due[u], u>> : u \in again}
  <2>1. timers_' = timers_ \cup {<<restart(u), u>> : u \in again}
    BY <1>1, <1>4 DEF inserted
  <2> QED
    BY <1>6, <2>1
<1>8. timers_' \subseteq Nat \X Timers
  BY <1>3, <1>5, <1>6, <1>7
<1>9. \A u \in Timers : u \notin live' /\ u \in live => due[u] = Never
  <2> SUFFICES ASSUME NEW u \in Timers, u \in deleted(ran)
               PROVE  due[u] = Never
    BY <1>1
  <2>1. PICK e \in expired : e[2] = u /\ u \notin Repeating
    BY DEF deleted
  <2> QED
    BY <1>1, <1>2, <2>1 DEF Working, Batch
<1>10. expiration_' \in [Timers -> Int] /\ \A u \in Timers :
         expiration_'[u] = IF u \in again THEN due[u] ELSE expiration_[u]
  BY <1>1, <1>3, <1>4, <1>6
<1> HIDE DEF ran
(* The timerfd. *)
<1>11. /\ alarm' \in Nat /\ readable' \in BOOLEAN /\ ~(readable' /\ alarm' > 0)
       /\ ArmedForEarliest'
  <2>1. CASE timers_' # {} /\ resetTimerfd(First(timers_')[1])
    <3>1. timers_' \subseteq Nat \X Nat
      BY <1>8, TimersAssumption
    <3>2. PICK when : when = First(timers_')[1]
      OBVIOUS
    <3>3. when \in Int
      <4>1. First(timers_') \in timers_'
        BY <2>1, <3>1, FirstIsLeast, Zenon
      <4> QED
        BY <3>1, <3>2, <4>1
    <3>4. resetTimerfd(when) /\ Types
      BY <2>1, <3>2, Zenon DEF TimerInv
    <3>5. /\ alarm' \in Nat /\ alarm' > 0 /\ readable' = FALSE
          /\ alarm' = howMuchTimeFromNow(when)
      BY <3>3, <3>4, ArmedIsTyped, Zenon
    <3>6. howMuchTimeFromNow(First(timers_)[1])' = howMuchTimeFromNow(when)
      BY <1>1, <3>2 DEF howMuchTimeFromNow
    <3>7. alarm' <= howMuchTimeFromNow(First(timers_)[1])' + jumped'
      BY <1>1, <1>3, <3>5, <3>6
    <3>8. ArmedForEarliest'
      BY <3>5, <3>7, Zenon DEF ArmedForEarliest
    <3> QED
      BY <3>5, <3>8, Zenon
  <2>2. CASE timers_' = {} /\ UNCHANGED timerfdVars
    <3>1. UNCHANGED <<alarm, readable>>
      BY <2>2 DEF timerfdVars
    <3> QED
      BY <1>3, <2>2, <3>1 DEF ArmedForEarliest
  <2>3. CASE timers_' = {} /\ \E when \in 1..MaxTime : resetTimerfd(when)
    <3>1. PICK when \in 1..MaxTime : resetTimerfd(when)
      BY <2>3
    <3>2. when \in Int /\ Types
      BY TimersAssumption DEF TimerInv
    <3>3. alarm' \in Nat /\ readable' = FALSE
      BY <3>1, <3>2, ArmedIsTyped, Zenon
    <3> QED
      BY <2>3, <3>3, Zenon DEF ArmedForEarliest
  <2> QED
    BY <1>1, <2>1, <2>2, <2>3, Zenon DEF nextExpire
<1>12. Types'
  <2>1. live' \subseteq Timers
    BY <1>1 DEF TimerInv, Types, TypeOK
  <2> QED
    BY <1>1, <1>3, <1>8, <1>10, <1>11, <2>1 DEF TimerInv, Types, TypeOK
<1>13. Timely'
  <2>1. \A e \in {<<due[u], u>> : u \in again} : e[1] = due[e[2]]
    OBVIOUS
  <2> QED
    BY <1>1, <1>2, <1>7, <2>1 DEF Working, Timely
<1>14. QueuedOnce' /\ Batch'
  BY <1>1, <1>2 DEF Working, QueuedOnce, Batch
<1>15. Owned'
  BY <1>1, <1>2, <1>9 DEF Working, Owned
<1>16. \A u \in Timers : Functor(u)' <=> Functor(u)
  BY <1>1 DEF Functor
<1>17. Added'
  BY <1>1, <1>2, <1>10, <1>16 DEF Working, Added
<1>18. ASSUME NEW u \in Timers PROVE OnePlace(u)'
  <2>1. InTimers(u)' <=> InTimers(u) \/ InAgain(u)
    BY <1>1, <1>5, <1>7 DEF InTimers
  <2>2. ~InLeft(u) /\ ~InLeft(u)' /\ ~InAgain(u)'
    BY <1>1 DEF InLeft, InAgain
  <2>3. OnePlace(u)
    BY <1>2 DEF Working, OnePlaceEach
  <2> QED
    BY <1>1, <1>16, <2>1, <2>2, <2>3 DEF OnePlace
<1> QED
  BY <1>11, <1>12, <1>13, <1>14, <1>15, <1>17, <1>18 DEF TimerInv, Working, OnePlaceEach

-----------------------------------------------------------------------------
LEMMA NextInv == TimerInv /\ [Next]_vars => TimerInv'
<1> SUFFICES ASSUME TimerInv, [Next]_vars PROVE TimerInv'
  OBVIOUS
<1>1. CASE UNCHANGED vars
  <2>1. UNCHANGED <<timers_, expiration_, pending, pc, now, expired, left, live, held,
                    alarm, readable, wall, sets, jumped, due>>
    BY <1>1 DEF vars, queueVars, objectVars, timerfdVars, clockVars
  <2>2. Types' /\ (Stopped' <=> Stopped)
    BY <2>1 DEF TimerInv, Types, TypeOK, Stopped
  <2>3. Working => Working'
    BY <2>1, QueueUntouched DEF objectVars
  <2>4. ArmedForEarliest'
    BY <2>1 DEF TimerInv, ArmedForEarliest, howMuchTimeFromNow
  <2> QED
    BY <2>2, <2>3, <2>4 DEF TimerInv
<1>2. CASE LoopStep
  BY <1>2, RunFunctorInv, PollInv, HandleReadInv, RunTimerInv, ResetInv, UseAfterFreeInv
     DEF LoopStep
<1>3. ASSUME NEW t \in Timers,
             userDrops(t) \/ \E when \in Whens : addTimerSelf(t, when) \/ addTimer(t, when)
      PROVE  TimerInv'
  BY <1>3, UserDropsInv, AddTimerSelfInv, AddTimerInv
<1>4. CASE destruct
  BY <1>4, DestructInv
<1>5. CASE tick
  BY <1>5, TickInv
<1>6. ASSUME NEW time \in 0..MaxTime, setClock(time)
      PROVE  TimerInv'
  BY <1>6, SetClockInv
<1> QED
  BY <1>1, <1>2, <1>3, <1>4, <1>5, <1>6, Zenon DEF Next

LEMMA TimerInvHolds == Spec => []TimerInv
  BY InitInv, NextInv, PTL DEF Spec

(* A timer that has still to run is in exactly one place, under the time   *)
(* it was promised for: whatever callbacks and other threads add while     *)
(* handleRead has its batch out of the set, none is lost or filed twice.   *)
THEOREM TimerFiledOnce == Spec => []EachTimerIsFiledOnce
  BY TimerInvHolds, InvFiledOnce, PTL

(* Whenever the loop may block with timers waiting, the timerfd is ready   *)
(* or armed, not later than for the earliest but for clock jumps.          *)
THEOREM TimerArmed == Spec => []ArmedForEarliest
  BY TimerInvHolds, PTL DEF TimerInv

(* reset() deletes no timer that timers_ or the batch still refers to: an  *)
(* address dangles only if its owner dropped it.                           *)
THEOREM TimerDanglesOnlyIfDropped == Spec => []DanglesOnlyIfDropped
  BY TimerInvHolds, InvDangles, PTL

(* run() is called only when the time handleRead has read is past the      *)
(* promised one.                                                           *)
THEOREM TimerNeverEarly == Spec => NeverEarly
<1> DEFINE NotEarly == \A t \in Timers : due[t] # Never /\ due'[t] # due[t] => now >= due[t]
<1>1. TimerInv /\ [Next]_vars => [NotEarly]_vars
  <2> SUFFICES ASSUME TimerInv, Next PROVE NotEarly
    OBVIOUS
  <2>1. due \in [Timers -> Nat \cup {Never}] /\ now \in Nat
    BY DEF TimerInv, Types
  <2>2. CASE runTimer
    BY <2>1, <2>2, RunTimerFacts
  <2>3. ASSUME NEW t \in Timers, NEW when \in Whens, newTimer(t, when)
        PROVE  NotEarly
    BY <2>1, <2>3, NewIsNowhere
  <2>4. CASE UNCHANGED due
    BY <2>4
  <2>5. ASSUME NEW t \in Timers,
               userDrops(t) \/ \E when \in Whens : addTimerSelf(t, when) \/ addTimer(t, when)
        PROVE  NotEarly
    <3>1. CASE userDrops(t)
      BY <2>4, <3>1 DEF userDrops
    <3>2. CASE \E when \in Whens : addTimerSelf(t, when) \/ addTimer(t, when)
      BY <2>3, <3>2 DEF addTimerSelf, addTimer
    <3> QED
      BY <2>5, <3>1, <3>2
  <2>6. CASE LoopStep
    BY <2>2, <2>4, <2>6, Zenon
       DEF LoopStep, runFunctor, poll, handleRead, reset, useAfterFree
  <2>7. CASE destruct \/ tick \/ \E time \in 0..MaxTime : setClock(time)
    BY <2>4, <2>7 DEF destruct, tick, setClock
  <2> QED
    BY <2>5, <2>6, <2>7, Zenon DEF Next
<1> QED
  BY <1>1, TimerInvHolds, PTL DEF Spec, NeverEarly
=============================================================================
