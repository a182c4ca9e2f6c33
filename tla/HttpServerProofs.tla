-------------------------- MODULE HttpServerProofs --------------------------
(***************************************************************************)
(* HttpServer for any number of lines, cut anywhere.  The invariant says   *)
(* how many lines the parser has retrieved, k of them, and from that where *)
(* it is in the request it is reading: the parser itself keeps only        *)
(* state_, and the requests of the stream are found by counting lines.     *)
(***************************************************************************)
EXTENDS HttpServer, Integers, SequenceTheorems, WellFoundedInduction, TLAPS

Parts == inputBuffer_ \o unread

Types ==
  /\ TypeOK
  /\ stream \in Seq(Lines) /\ Len(stream) <= MaxLines
  /\ inputBuffer_ \in Seq(Lines \cup {EOL}) /\ unread \in Seq(Lines \cup {EOL})
  /\ calls \in Seq([version : {"kHttp10", "kHttp11"},
                     connection : {noHeader, "close", "Keep-Alive"}])
  /\ out \in Seq([contentLength : BOOLEAN])

(* What is not retrieved yet are the lines behind the k-th, each with its  *)
(* end, but for the last, whose end may be missing.                        *)
Delivered(k) ==
  /\ \/ Len(Parts) = 2 * (Len(stream) - k)
     \/ Len(Parts) = 2 * (Len(stream) - k) - 1
  /\ \A j \in 1 .. Len(stream) - k :
       /\ Parts[2 * j - 1] = stream[k + j]
       /\ 2 * j <= Len(Parts) => Parts[2 * j] = EOL

(* The line at which the request being read starts. *)
Current == FirstOf[Len(calls) + 1]

(* Lines Current to last have been read as a request line and headers. *)
HeadersTo(last) ==
  /\ 1 <= Current /\ Current <= last
  /\ stream[Current] \in RequestLines
  /\ version_ = versionOf(stream[Current])
  /\ \A j \in Current + 1 .. last : hasColon(stream[j])
  /\ connection = IF last = Current THEN noHeader ELSE valueOf(stream[last])

Position(k) ==
  /\ Len(calls) <= k /\ (state_ # "kExpectRequestLine" => Len(calls) < k)
  /\ pc = "parse" => ok
  /\ state_ = "kExpectRequestLine" => Current = k + 1 /\ connection = noHeader
  /\ state_ = "kExpectHeaders" => HeadersTo(k)
  /\ state_ = "kGotAll" => /\ pc = "parsed" /\ ok
                           /\ HeadersTo(k - 1) /\ ~hasColon(stream[k])

(* A 400 is due, or sent, for the line that comes next. *)
Refused(k) ==
  (pc = "parsed" /\ ~ok) \/ rejected =>
    /\ state_ = "kExpectRequestLine"
    /\ k < Len(stream) /\ stream[k + 1] \notin RequestLines

Answered == \A n \in 1..Len(calls) : IsComplete(n) /\ calls[n] = Request(n)

(* The response after which the connection closes is not counted. *)
Kept == IF connState = "kConnected" THEN Len(out) ELSE Len(out) - 1

Responses ==
  /\ connState = "kConnected" => Len(out) = Len(calls) /\ ~rejected
  /\ Kept <= Len(calls)
  /\ \A n \in 1..Kept : out[n].contentLength /\ ~AsksToClose(n)

(* Without pipelining nothing is behind a request that waits, and onMessage *)
(* leaves no whole line in the buffer.                                      *)
Prompt ==
  ~pipelined /\ ~rejected =>
    /\ LastOf(Current) >= Len(stream)
    /\ pc = "poll" \/ (pc = "parsed" /\ ok /\ state_ # "kGotAll")
         => Len(inputBuffer_) < 2

At(k) == Delivered(k) /\ Position(k) /\ Refused(k)

HttpInv ==
  /\ Types /\ Answered /\ Responses /\ Prompt
  /\ \E k \in 0..Len(stream) : At(k)

-----------------------------------------------------------------------------
(***************************************************************************)
(* The requests of a sequence of lines.                                    *)
(***************************************************************************)
LastIn(s, i) ==
  LET ends == {j \in i + 1 .. Len(s) : ~hasColon(s[j])}
  IN  IF ends = {} THEN Len(s) + 1
                   ELSE CHOOSE j \in ends : \A k \in ends : j <= k

(* f gives the first lines of the first m + 1 requests. *)
Starts(s, m, f) ==
  f = [n \in 1 .. m + 1 |-> IF n = 1 THEN 1 ELSE LastIn(s, f[n - 1]) + 1]

FirstIn(s) == CHOOSE f : Starts(s, MaxLines, f)

LEMMA LastOfIn ==
  ASSUME NEW i
  PROVE  LastOf(i) = LastIn(stream, i) /\ LastOf(i)' = LastIn(stream', i)
  BY DEF LastOf, LastIn

LEMMA FirstOfIn ==
  FirstOf = FirstIn(stream) /\ FirstOf' = FirstIn(stream')
  BY DEF FirstOf, FirstIn, Starts, LastOf, LastIn

LEMMA LeastNatural ==
  ASSUME NEW T, T \subseteq Nat, T # {}
  PROVE  \E x \in T : \A y \in T : x <= y
<1> DEFINE Less == {ss \in Nat \X Nat : ss[1] < ss[2]}
<1>1. IsWellFoundedOn(Less, Nat)
  BY NatLessThanWellFounded, Zenon DEF OpToRel
<1> HIDE DEF Less
<1>2. PICK x \in T : \A y \in T : ~(<<y, x>> \in Less)
  BY <1>1, WFMin
<1>3. ASSUME NEW y \in T
      PROVE  x <= y
  <2>1. <<y, x>> \in Nat \X Nat /\ <<y, x>>[1] = y /\ <<y, x>>[2] = x
    OBVIOUS
  <2>2. ~(y < x)
    BY <1>2, <2>1, Zenon DEF Less
  <2>3. x \in Nat /\ y \in Nat
    OBVIOUS
  <2> QED
    BY <2>2, <2>3
<1> QED
  BY <1>3

(* A request ends at the first line behind its start that has no colon, or *)
(* not yet.                                                                *)
LEMMA LastInIs ==
  ASSUME NEW s \in Seq(Lines), NEW i \in Nat
  PROVE  /\ LastIn(s, i) \in Nat
         /\ \/ /\ LastIn(s, i) = Len(s) + 1
               /\ \A j \in i + 1 .. Len(s) : hasColon(s[j])
            \/ /\ LastIn(s, i) \in i + 1 .. Len(s)
               /\ ~hasColon(s[LastIn(s, i)])
               /\ \A j \in i + 1 .. LastIn(s, i) - 1 : hasColon(s[j])
<1> DEFINE ends == {j \in i + 1 .. Len(s) : ~hasColon(s[j])}
<1>1. Len(s) \in Nat
  BY LenProperties
<1>2. LastIn(s, i) = IF ends = {} THEN Len(s) + 1
                                  ELSE CHOOSE j \in ends : \A k \in ends : j <= k
  BY DEF LastIn
<1>3. CASE ends = {}
  BY <1>1, <1>2, <1>3
<1>4. CASE ends # {}
  <2>1. ends \subseteq Nat
    BY <1>1
  <2> HIDE DEF ends
  <2>2. \E j \in ends : \A k \in ends : j <= k
    BY <1>4, <2>1, LeastNatural
  <2>3. PICK j \in ends : LastIn(s, i) = j /\ \A k \in ends : j <= k
    BY <1>2, <1>4, <2>2
  <2>4. j \in i + 1 .. Len(s) /\ ~hasColon(s[j])
    BY DEF ends
  <2>5. ASSUME NEW k \in i + 1 .. j - 1
        PROVE  hasColon(s[k])
    <3>1. k \in i + 1 .. Len(s) /\ ~(j <= k)
      BY <1>1, <2>4
    <3> QED
      BY <2>3, <3>1 DEF ends
  <2> QED
    BY <1>1, <2>3, <2>4, <2>5
<1> QED
  BY <1>3, <1>4

LEMMA LastInEnds ==
  ASSUME NEW s \in Seq(Lines), NEW i \in Nat, NEW j \in i + 1 .. Len(s),
         ~hasColon(s[j]), \A m \in i + 1 .. j - 1 : hasColon(s[m])
  PROVE  LastIn(s, i) = j
<1>1. Len(s) \in Nat
  BY LenProperties
<1>2. CASE \A m \in i + 1 .. Len(s) : hasColon(s[m])
  BY <1>2
<1>3. CASE /\ LastIn(s, i) \in i + 1 .. Len(s)
           /\ ~hasColon(s[LastIn(s, i)])
           /\ \A m \in i + 1 .. LastIn(s, i) - 1 : hasColon(s[m])
  <2>1. LastIn(s, i) \notin i + 1 .. j - 1 /\ j \notin i + 1 .. LastIn(s, i) - 1
    BY <1>3
  <2> QED
    BY <1>1, <1>3, <2>1
<1> QED
  BY <1>2, <1>3, LastInIs

LEMMA LastInOpen ==
  ASSUME NEW s \in Seq(Lines), NEW i \in Nat,
         \A m \in i + 1 .. Len(s) : hasColon(s[m])
  PROVE  LastIn(s, i) = Len(s) + 1
  BY LastInIs

(* One more line does not change where a request has ended. *)
LEMMA LastInAppend ==
  ASSUME NEW s \in Seq(Lines), NEW x \in Lines, NEW i \in Nat
  PROVE  /\ LastIn(s, i) <= Len(s) => LastIn(Append(s, x), i) = LastIn(s, i)
         /\ LastIn(s, i) > Len(s) => LastIn(Append(s, x), i) >= Len(s) + 1
<1> DEFINE t == Append(s, x)
<1>1. /\ Len(s) \in Nat /\ t \in Seq(Lines) /\ Len(t) = Len(s) + 1
      /\ \A j \in 1..Len(s) : t[j] = s[j]
  BY LenProperties, AppendProperties
<1> HIDE DEF t
<1>2. PICK l : l = LastIn(s, i)
  OBVIOUS
<1>3. /\ l \in Nat
      /\ \/ l = Len(s) + 1 /\ \A j \in i + 1 .. Len(s) : hasColon(s[j])
         \/ /\ l \in i + 1 .. Len(s) /\ ~hasColon(s[l])
            /\ \A j \in i + 1 .. l - 1 : hasColon(s[j])
  BY <1>2, LastInIs
<1>4. CASE l <= Len(s)
  <2>1. /\ l \in i + 1 .. Len(s) /\ ~hasColon(s[l])
        /\ \A j \in i + 1 .. l - 1 : hasColon(s[j])
    BY ONLY <1>1, <1>3, <1>4
  <2>2. l \in i + 1 .. Len(t) /\ t[l] = s[l]
    BY <1>1, <2>1
  <2>3. \A j \in i + 1 .. l - 1 : j \in 1..Len(s)
    BY <1>1, <2>1
  <2>4. LastIn(t, i) = l
    BY <1>1, <2>1, <2>2, <2>3, LastInEnds
  <2> QED
    BY <1>1, <1>2, <1>4, <2>1, <2>4 DEF t
<1>5. CASE l > Len(s)
  <2>1. \A j \in i + 1 .. Len(s) : hasColon(s[j])
    BY ONLY <1>1, <1>3, <1>5
  <2>2. LastIn(t, i) \in Nat /\ (LastIn(t, i) = Len(t) + 1 \/
          (LastIn(t, i) \in i + 1 .. Len(t) /\ ~hasColon(t[LastIn(t, i)])))
    BY <1>1, LastInIs
  <2>3. LastIn(t, i) \notin i + 1 .. Len(s) \/ hasColon(t[LastIn(t, i)])
    BY <1>1, <2>1
  <2>4. LastIn(t, i) >= Len(s) + 1
    BY <1>1, <2>2, <2>3
  <2> QED
    BY <1>1, <1>2, <1>3, <1>5, <2>4 DEF t
<1> QED
  BY <1>1, <1>3, <1>4, <1>5

-----------------------------------------------------------------------------
(* The recursion of FirstOf has a solution, for any number of requests: a  *)
(* smallest number without one would be that of a solution plus one.       *)
LEMMA StartsExist ==
  ASSUME NEW s, NEW m \in Nat
  PROVE  \E f : Starts(s, m, f)
<1> DEFINE T == {n \in Nat : ~ \E f : Starts(s, n, f)}
<1> SUFFICES ASSUME T # {} PROVE FALSE
  OBVIOUS
<1>1. PICK x \in T : \A y \in T : x <= y
  <2>1. T \subseteq Nat
    OBVIOUS
  <2> HIDE DEF T
  <2> QED
    BY <2>1, LeastNatural
<1>2. CASE x = 0
  <2> DEFINE f == [n \in 1 .. 0 + 1 |-> 1]
  <2>1. f = [n \in 1 .. 0 + 1 |-> IF n = 1 THEN 1 ELSE LastIn(s, f[n - 1]) + 1]
    OBVIOUS
  <2>2. Starts(s, 0, f)
    BY <2>1 DEF Starts
  <2> QED
    BY <1>1, <1>2, <2>2
<1>3. CASE x # 0
  <2>1. x - 1 \in Nat /\ x \in Nat /\ x >= 1 /\ x - 1 \notin T
    BY <1>1, <1>3
  <2>2. PICK g : Starts(s, x - 1, g)
    BY <2>1
  <2>3. g = [n \in 1..x |-> IF n = 1 THEN 1 ELSE LastIn(s, g[n - 1]) + 1]
    <3>1. (x - 1) + 1 = x
      BY <2>1
    <3> QED
      BY <2>2, <3>1 DEF Starts
  <2> DEFINE next == LastIn(s, g[x]) + 1
             h == [n \in 1 .. x + 1 |-> IF n = x + 1 THEN next ELSE g[n]]
  <2>4. ASSUME NEW n \in 1 .. x + 1
        PROVE  h[n] = IF n = 1 THEN 1 ELSE LastIn(s, h[n - 1]) + 1
    <3>1. CASE n = x + 1
      <4>1. n - 1 = x /\ n # 1 /\ x \in 1 .. x + 1 /\ x # x + 1
        BY <2>1, <3>1
      <4>2. h[n] = next /\ h[n - 1] = g[x]
        BY <3>1, <4>1
      <4> QED
        BY <4>1, <4>2
    <3>2. CASE n = 1
      <4>1. n \in 1..x /\ n # x + 1
        BY <2>1, <3>2
      <4> QED
        BY <2>3, <3>2, <4>1
    <3>3. CASE n # 1 /\ n # x + 1
      <4>1. n \in 1..x /\ n - 1 \in 1 .. x + 1 /\ n - 1 # x + 1 /\ n # x + 1
        BY <2>1, <3>3
      <4>2. h[n] = g[n] /\ h[n - 1] = g[n - 1]
        BY <4>1
      <4> HIDE DEF h
      <4> QED
        BY <2>3, <3>3, <4>1, <4>2
    <3> QED
      BY <3>1, <3>2, <3>3
  <2>5. Starts(s, x, h)
    <3>1. DOMAIN h = 1 .. x + 1 /\ h = [n \in 1 .. x + 1 |-> h[n]]
      OBVIOUS
    <3> HIDE DEF h
    <3> QED
      BY <2>4, <3>1 DEF Starts
  <2> QED
    BY <1>1, <2>5
<1> QED
  BY <1>2, <1>3

LEMMA FirstInUnfolds ==
  ASSUME NEW s
  PROVE  /\ FirstIn(s)[1] = 1
         /\ \A n \in 1..MaxLines : FirstIn(s)[n + 1] = LastIn(s, FirstIn(s)[n]) + 1
<1>1. PICK f : f = FirstIn(s) /\ Starts(s, MaxLines, f)
  BY StartsExist, MaxLinesAssumption DEF FirstIn
<1>2. f = [n \in 1 .. MaxLines + 1 |-> IF n = 1 THEN 1 ELSE LastIn(s, f[n - 1]) + 1]
  BY <1>1 DEF Starts
<1>3. f[1] = 1
  BY <1>2, MaxLinesAssumption
<1>4. ASSUME NEW n \in 1..MaxLines
      PROVE  f[n + 1] = LastIn(s, f[n]) + 1
  <2>1. n + 1 \in 1 .. MaxLines + 1 /\ n + 1 # 1 /\ (n + 1) - 1 = n
    BY MaxLinesAssumption
  <2> QED
    BY <1>2, <2>1
<1> QED
  BY <1>1, <1>3, <1>4

LEMMA FirstInPositive ==
  ASSUME NEW s \in Seq(Lines), NEW n \in 1 .. MaxLines + 1
  PROVE  FirstIn(s)[n] \in Nat \ {0}
<1> DEFINE T == {m \in 1 .. MaxLines + 1 : FirstIn(s)[m] \notin Nat \ {0}}
<1> SUFFICES ASSUME T # {} PROVE FALSE
  OBVIOUS
<1>1. PICK x \in T : \A y \in T : x <= y
  <2>1. T \subseteq Nat
    BY MaxLinesAssumption
  <2> HIDE DEF T
  <2> QED
    BY <2>1, LeastNatural
<1>2. x # 1
  BY FirstInUnfolds
<1>3. /\ x - 1 \in 1..MaxLines /\ x - 1 \in 1 .. MaxLines + 1
      /\ (x - 1) + 1 = x /\ ~(x <= x - 1)
  BY <1>2, MaxLinesAssumption
<1>4. FirstIn(s)[x - 1] \in Nat
  BY <1>1, <1>3
<1>5. FirstIn(s)[x] = LastIn(s, FirstIn(s)[x - 1]) + 1
  <2>1. FirstIn(s)[(x - 1) + 1] = LastIn(s, FirstIn(s)[x - 1]) + 1
    BY <1>3, FirstInUnfolds
  <2> QED
    BY <1>3, <2>1
<1>6. LastIn(s, FirstIn(s)[x - 1]) \in Nat
  BY <1>4, LastInIs
<1> QED
  BY <1>5, <1>6

(* The requests behind the first c, which are complete, start where they   *)
(* did when one more line is written.                                      *)
LEMMA FirstInAppend ==
  ASSUME NEW s \in Seq(Lines), NEW x \in Lines, NEW c \in 0..MaxLines,
         \A n \in 1..c : LastIn(s, FirstIn(s)[n]) <= Len(s)
  PROVE  \A n \in 1 .. c + 1 : FirstIn(Append(s, x))[n] = FirstIn(s)[n]
<1> DEFINE T == {m \in 1 .. c + 1 : FirstIn(Append(s, x))[m] # FirstIn(s)[m]}
<1> SUFFICES ASSUME T # {} PROVE FALSE
  OBVIOUS
<1>1. PICK y \in T : \A z \in T : y <= z
  <2>1. T \subseteq Nat
    OBVIOUS
  <2> HIDE DEF T
  <2> QED
    BY <2>1, LeastNatural
<1>2. y # 1
  BY FirstInUnfolds
<1>3. PICK z \in 1..c : y = z + 1
  <2>1. y - 1 \in 1..c /\ y = (y - 1) + 1
    BY <1>2
  <2> QED
    BY <2>1
<1>4. z \in 1..MaxLines /\ z \in 1 .. MaxLines + 1 /\ z \in 1 .. c + 1 /\ ~(y <= z)
  BY <1>3, MaxLinesAssumption
<1>5. FirstIn(Append(s, x))[z] = FirstIn(s)[z]
  BY <1>1, <1>4
<1>6. FirstIn(s)[z] \in Nat
  BY <1>4, FirstInPositive
<1>7. LastIn(Append(s, x), FirstIn(s)[z]) = LastIn(s, FirstIn(s)[z])
  BY <1>6, LastInAppend
<1>8. /\ FirstIn(s)[y] = LastIn(s, FirstIn(s)[z]) + 1
      /\ FirstIn(Append(s, x))[y] = LastIn(Append(s, x), FirstIn(Append(s, x))[z]) + 1
  BY <1>3, <1>4, FirstInUnfolds
<1> QED
  BY <1>5, <1>7, <1>8

-----------------------------------------------------------------------------
(***************************************************************************)
(* What HttpServer says of stream, before and after a step, in terms of    *)
(* the sequence of lines alone.                                            *)
(***************************************************************************)
CompleteIn(s, n) == LastIn(s, FirstIn(s)[n]) <= Len(s)

ConnectionIn(s, n) ==
  LET headers == FirstIn(s)[n] + 1 .. LastIn(s, FirstIn(s)[n]) - 1
  IN  IF headers = {} THEN noHeader ELSE valueOf(s[LastIn(s, FirstIn(s)[n]) - 1])

RequestIn(s, n) == [version |-> versionOf(s[FirstIn(s)[n]]),
                    connection |-> ConnectionIn(s, n)]

Closes(request) ==
  \/ request.connection = "close"
  \/ request.version = "kHttp10" /\ request.connection # "Keep-Alive"

LEMMA InStream ==
  ASSUME NEW n
  PROVE  /\ IsComplete(n) = CompleteIn(stream, n)
         /\ IsComplete(n)' = CompleteIn(stream', n)
         /\ Request(n) = RequestIn(stream, n)
         /\ Request(n)' = RequestIn(stream', n)
         /\ AsksToClose(n) = Closes(RequestIn(stream, n))
         /\ AsksToClose(n)' = Closes(RequestIn(stream', n))
<1>1. FirstOf = FirstIn(stream) /\ FirstOf' = FirstIn(stream')
  BY FirstOfIn
<1>2. /\ LastOf(FirstOf[n]) = LastIn(stream, FirstIn(stream)[n])
      /\ LastOf(FirstOf[n])' = LastIn(stream', FirstIn(stream')[n])
  BY <1>1 DEF LastOf, LastIn
<1>3. /\ IsComplete(n) = CompleteIn(stream, n)
      /\ IsComplete(n)' = CompleteIn(stream', n)
  BY <1>2 DEF IsComplete, CompleteIn
<1>4. ConnectionOf(n) = ConnectionIn(stream, n) /\ ConnectionOf(n)' = ConnectionIn(stream', n)
  BY <1>1, <1>2 DEF ConnectionOf, ConnectionIn
<1>5. Request(n) = RequestIn(stream, n) /\ Request(n)' = RequestIn(stream', n)
  BY <1>1, <1>4 DEF Request, RequestIn
<1>6. /\ AsksToClose(n) = Closes(RequestIn(stream, n))
      /\ AsksToClose(n)' = Closes(RequestIn(stream', n))
  BY <1>5 DEF AsksToClose, Closes
<1> QED
  BY <1>3, <1>5, <1>6

LEMMA CurrentInStream ==
  /\ Current = FirstIn(stream)[Len(calls) + 1]
  /\ Current' = FirstIn(stream')[Len(calls') + 1]
  /\ LastOf(Current) = LastIn(stream, Current)
  /\ LastOf(Current)' = LastIn(stream', Current')
<1>1. FirstOf = FirstIn(stream) /\ FirstOf' = FirstIn(stream')
  BY FirstOfIn
<1>2. /\ Current = FirstIn(stream)[Len(calls) + 1]
      /\ Current' = FirstIn(stream')[Len(calls') + 1]
  BY <1>1 DEF Current
<1>3. LastOf(Current) = LastIn(stream, Current) /\ LastOf(Current)' = LastIn(stream', Current')
  BY DEF LastOf, LastIn
<1> QED
  BY <1>2, <1>3

LEMMA SameStream ==
  ASSUME UNCHANGED <<stream, calls>>
  PROVE  /\ Answered => Answered'
         /\ Current' = Current /\ LastOf(Current)' = LastOf(Current)
         /\ \A n : AsksToClose(n)' = AsksToClose(n)
<1>1. Answered => Answered'
  BY InStream DEF Answered
<1>2. Current' = Current /\ LastOf(Current)' = LastOf(Current)
  BY CurrentInStream
<1>3. \A n : AsksToClose(n)' = AsksToClose(n)
  BY InStream
<1> QED
  BY <1>1, <1>2, <1>3

(* A request that is complete is the same when one more line is written.   *)
LEMMA CompleteStays ==
  ASSUME NEW s \in Seq(Lines), Len(s) <= MaxLines, NEW x \in Lines, NEW c \in 0..MaxLines,
         \A n \in 1..c : CompleteIn(s, n)
  PROVE  /\ FirstIn(Append(s, x))[c + 1] = FirstIn(s)[c + 1]
         /\ \A n \in 1..c : /\ CompleteIn(Append(s, x), n)
                            /\ RequestIn(Append(s, x), n) = RequestIn(s, n)
<1> DEFINE t == Append(s, x)
<1>1. /\ Len(s) \in Nat /\ t \in Seq(Lines) /\ Len(t) = Len(s) + 1
      /\ \A j \in 1..Len(s) : t[j] = s[j]
  BY LenProperties, AppendProperties
<1>2. \A n \in 1 .. c + 1 : FirstIn(t)[n] = FirstIn(s)[n]
  BY FirstInAppend DEF CompleteIn
<1>3. ASSUME NEW n \in 1..c
      PROVE  CompleteIn(t, n) /\ RequestIn(t, n) = RequestIn(s, n)
  <2>1. PICK f : f = FirstIn(s)[n]
    OBVIOUS
  <2>2. f \in Nat \ {0} /\ FirstIn(t)[n] = f
    BY <1>2, <2>1, FirstInPositive, MaxLinesAssumption
  <2>3. PICK l : l = LastIn(s, f)
    OBVIOUS
  <2>4. l <= Len(s)
    BY <2>1, <2>3 DEF CompleteIn
  <2>5. LastIn(t, f) = l
    BY <2>2, <2>3, <2>4, LastInAppend
  <2>6. l \in f + 1 .. Len(s)
    BY <1>1, <2>2, <2>3, <2>4, LastInIs
  <2>7. t[f] = s[f] /\ t[l - 1] = s[l - 1]
    <3>1. f \in 1..Len(s) /\ l - 1 \in 1..Len(s)
      BY <1>1, <2>2, <2>6
    <3> QED
      BY <1>1, <3>1
  <2>8. CompleteIn(t, n)
    BY <1>1, <2>2, <2>4, <2>5, <2>6 DEF CompleteIn
  <2> HIDE DEF t
  <2>9. RequestIn(t, n) = RequestIn(s, n)
    BY <2>1, <2>2, <2>3, <2>5, <2>7 DEF RequestIn, ConnectionIn
  <2> QED
    BY <2>8, <2>9
<1>4. c + 1 \in 1 .. c + 1
  OBVIOUS
<1> QED
  BY <1>2, <1>3, <1>4

-----------------------------------------------------------------------------
(***************************************************************************)
(* The parts that are not retrieved.                                       *)
(***************************************************************************)
LEMMA Basics ==
  ASSUME Types
  PROVE  /\ Len(stream) \in Nat /\ Len(calls) \in Nat /\ Len(out) \in Nat
         /\ Len(inputBuffer_) \in Nat /\ Len(unread) \in Nat
         /\ \A i \in 1..Len(stream) : stream[i] \in Lines /\ stream[i] # EOL
         /\ Parts \in Seq(Lines \cup {EOL})
         /\ Len(Parts) = Len(inputBuffer_) + Len(unread)
         /\ \A i \in 1..Len(Parts) :
              Parts[i] = IF i <= Len(inputBuffer_) THEN inputBuffer_[i]
                                                   ELSE unread[i - Len(inputBuffer_)]
<1>1. /\ Len(stream) \in Nat /\ Len(calls) \in Nat /\ Len(out) \in Nat
      /\ Len(inputBuffer_) \in Nat /\ Len(unread) \in Nat
  BY LenProperties DEF Types
<1>2. \A i \in 1..Len(stream) : stream[i] \in Lines
  BY ElementOfSeq DEF Types
<1>3. EOL \notin Lines
  BY DEF EOL, Lines, RequestLines, HeaderLines
<1>4. /\ Parts \in Seq(Lines \cup {EOL})
      /\ Len(Parts) = Len(inputBuffer_) + Len(unread)
      /\ \A i \in 1 .. Len(inputBuffer_) + Len(unread) :
           Parts[i] = IF i <= Len(inputBuffer_) THEN inputBuffer_[i]
                                                ELSE unread[i - Len(inputBuffer_)]
  BY ConcatProperties DEF Types, Parts
<1> QED
  BY <1>1, <1>2, <1>3, <1>4

LEMMA NextLine ==
  ASSUME Types, NEW k \in 0..Len(stream), Delivered(k), findCRLF
  PROVE  k < Len(stream) /\ line1 = stream[k + 1]
<1>1. Len(inputBuffer_) >= 2 /\ Len(Parts) >= 2 /\ 1 \in 1..Len(Parts)
  BY Basics DEF findCRLF
<1>2. k < Len(stream) /\ 1 \in 1 .. Len(stream) - k
  BY <1>1, Basics DEF Delivered
<1>3. Parts[2 * 1 - 1] = stream[k + 1]
  BY <1>2 DEF Delivered
<1>4. Parts[1] = inputBuffer_[1]
  BY <1>1, Basics
<1>5. line1 = inputBuffer_[1]
  <2>1. inputBuffer_ \in Seq(Lines \cup {EOL}) /\ inputBuffer_ # << >>
    BY <1>1 DEF Types
  <2> QED
    BY <2>1, HeadTailProperties DEF line1
<1> QED
  BY <1>2, <1>3, <1>4, <1>5

LEMMA Retrieve ==
  ASSUME Types, NEW k \in 0..Len(stream), Delivered(k), findCRLF, retrieveUntil,
         UNCHANGED <<unread, stream>>
  PROVE  /\ inputBuffer_' \in Seq(Lines \cup {EOL})
         /\ Delivered(k + 1)'
<1> DEFINE n == Len(inputBuffer_)
<1>1. /\ n \in Nat /\ n >= 2 /\ Len(unread) \in Nat /\ Len(stream) \in Nat
      /\ Len(Parts) = n + Len(unread)
      /\ inputBuffer_ \in Seq(Lines \cup {EOL}) /\ unread \in Seq(Lines \cup {EOL})
      /\ \A i \in 1..Len(Parts) : Parts[i] = IF i <= n THEN inputBuffer_[i] ELSE unread[i - n]
  BY Basics DEF findCRLF, Types
<1>2. /\ inputBuffer_' \in Seq(Lines \cup {EOL}) /\ Len(inputBuffer_') = n - 2
      /\ \A i \in 1 .. n - 2 : inputBuffer_'[i] = inputBuffer_[i + 2]
  <2>1. \A i \in 3..n : inputBuffer_[i] \in Lines \cup {EOL}
    <3>1. \A i \in 3..n : i \in 1..n
      BY <1>1
    <3> QED
      BY <1>1, <3>1, ElementOfSeq
  <2>2. inputBuffer_' = SubSeq(inputBuffer_, 3, n)
    BY DEF retrieveUntil
  <2>3. /\ SubSeq(inputBuffer_, 3, n) \in Seq(Lines \cup {EOL})
        /\ Len(SubSeq(inputBuffer_, 3, n)) = IF 3 <= n THEN n - 3 + 1 ELSE 0
        /\ \A i \in 1 .. n - 3 + 1 : SubSeq(inputBuffer_, 3, n)[i] = inputBuffer_[3 + i - 1]
    BY <1>1, <2>1, SubSeqProperties
  <2> HIDE DEF n
  <2>4. /\ (IF 3 <= n THEN n - 3 + 1 ELSE 0) = n - 2 /\ n - 3 + 1 = n - 2
        /\ \A i \in 1 .. n - 2 : 3 + i - 1 = i + 2
    BY <1>1
  <2> QED
    BY <2>2, <2>3, <2>4
<1>3. /\ Len(Parts') = Len(Parts) - 2
      /\ \A i \in 1 .. Len(Parts) - 2 : Parts'[i] = Parts[i + 2]
  <2>1. Parts' = inputBuffer_' \o unread
    BY DEF Parts
  <2>2. /\ Len(Parts') = n - 2 + Len(unread)
        /\ \A i \in 1 .. n - 2 + Len(unread) :
             Parts'[i] = IF i <= n - 2 THEN inputBuffer_'[i] ELSE unread[i - (n - 2)]
    <3>1. PICK buffer \in Seq(Lines \cup {EOL}) : buffer = inputBuffer_'
      BY <1>2
    <3>2. /\ Len(buffer \o unread) = Len(buffer) + Len(unread)
          /\ \A i \in 1 .. Len(buffer) + Len(unread) : (buffer \o unread)[i] =
               IF i <= Len(buffer) THEN buffer[i] ELSE unread[i - Len(buffer)]
      BY <1>1, ConcatProperties
    <3>3. Len(buffer) = n - 2 /\ Parts' = buffer \o unread
      BY <1>2, <2>1, <3>1
    <3> QED
      BY ONLY <3>1, <3>2, <3>3
  <2> HIDE DEF n
  <2>3. ASSUME NEW i \in 1 .. Len(Parts) - 2
        PROVE  Parts'[i] = Parts[i + 2]
    <3>1. i \in 1 .. n - 2 + Len(unread) /\ i + 2 \in 1..Len(Parts)
      BY <1>1
    <3>2. CASE i <= n - 2
      <4>1. i \in 1 .. n - 2 /\ i + 2 <= n
        BY <1>1, <3>2
      <4> QED
        BY <1>1, <1>2, <2>2, <3>1, <3>2, <4>1
    <3>3. CASE ~(i <= n - 2)
      <4>1. ~(i + 2 <= n) /\ i - (n - 2) = (i + 2) - n
        BY <1>1, <3>3
      <4> QED
        BY <1>1, <2>2, <3>1, <3>3, <4>1
    <3> QED
      BY <3>2, <3>3
  <2> QED
    BY <1>1, <2>2, <2>3
<1> HIDE DEF n
<1>4. Len(Parts) \in Nat
  BY <1>1
<1>5. ASSUME NEW j \in 1 .. Len(stream) - (k + 1)
      PROVE  /\ Parts'[2 * j - 1] = stream[(k + 1) + j]
             /\ 2 * j <= Len(Parts') => Parts'[2 * j] = EOL
  <2>1. /\ j + 1 \in 1 .. Len(stream) - k /\ k + (j + 1) = (k + 1) + j
        /\ 2 * (j + 1) - 1 = (2 * j - 1) + 2 /\ 2 * (j + 1) = 2 * j + 2
    BY <1>1
  <2>2. 2 * j - 1 \in 1 .. Len(Parts) - 2
    BY <1>1, <1>4 DEF Delivered
  <2>3. /\ Parts[(2 * j - 1) + 2] = stream[(k + 1) + j]
        /\ 2 * j + 2 <= Len(Parts) => Parts[2 * j + 2] = EOL
    BY <2>1 DEF Delivered
  <2>4. 2 * j <= Len(Parts') => 2 * j \in 1 .. Len(Parts) - 2 /\ 2 * j + 2 <= Len(Parts)
    BY <1>3, <1>4
  <2> QED
    BY <1>3, <2>2, <2>3, <2>4
<1>6. \/ Len(Parts') = 2 * (Len(stream) - (k + 1))
      \/ Len(Parts') = 2 * (Len(stream) - (k + 1)) - 1
  <2>1. Len(Parts) = 2 * (Len(stream) - k) \/ Len(Parts) = 2 * (Len(stream) - k) - 1
    BY DEF Delivered
  <2>2. 2 * (Len(stream) - (k + 1)) = 2 * (Len(stream) - k) - 2
    BY <1>1
  <2>3. PICK m \in Int : m = 2 * (Len(stream) - k)
    BY <1>1
  <2> QED
    BY <1>3, <2>1, <2>2, <2>3
<1> QED
  BY <1>2, <1>5, <1>6 DEF Delivered

-----------------------------------------------------------------------------
(***************************************************************************)
(* The steps of the server.                                                *)
(***************************************************************************)
LEMMA HttpInit == Init => HttpInv
<1> SUFFICES ASSUME Init PROVE HttpInv
  OBVIOUS
<1> USE DEF Init
<1>1. Types
  <2>1. TypeOK
    BY DEF TypeOK
  <2>2. /\ stream \in Seq(Lines) /\ Len(stream) <= MaxLines
        /\ inputBuffer_ \in Seq(Lines \cup {EOL}) /\ unread \in Seq(Lines \cup {EOL})
        /\ calls \in Seq([version : {"kHttp10", "kHttp11"},
                          connection : {noHeader, "close", "Keep-Alive"}])
        /\ out \in Seq([contentLength : BOOLEAN])
    BY EmptySeq, MaxLinesAssumption
  <2> QED
    BY <2>1, <2>2 DEF Types
<1>2. Answered /\ Responses
  BY DEF Answered, Responses, Kept
<1>3. Current = 1
  BY CurrentInStream, FirstInUnfolds
<1>4. Prompt
  <2>1. LastOf(Current) >= Len(stream)
    <3>1. LastIn(stream, 1) \in Nat
      BY <1>1, LastInIs DEF Types
    <3> QED
      BY <1>3, <3>1, CurrentInStream
  <2> QED
    BY <2>1 DEF Prompt
<1>5. At(0)
  <2>1. Len(Parts) = 0
    BY <1>1, Basics
  <2> QED
    BY <1>3, <2>1 DEF At, Delivered, Position, Refused
<1> QED
  BY <1>1, <1>2, <1>4, <1>5 DEF HttpInv

(* A step that leaves what is not retrieved as it is. *)
LEMMA SameParts ==
  ASSUME NEW k, Delivered(k), Parts' = Parts, stream' = stream
  PROVE  Delivered(k)'
  BY DEF Delivered

LEMMA OnMessageKeeps ==
  ASSUME HttpInv, onMessage
  PROVE  HttpInv'
<1>1. PICK k \in 0..Len(stream) : Delivered(k) /\ Position(k) /\ Refused(k)
  BY DEF HttpInv, At
<1>2. Types /\ Answered /\ Responses /\ Prompt
  BY DEF HttpInv
<1>3. /\ UNCHANGED <<parserVars, connState, aborted, out, historyVars>>
      /\ pc = "poll" /\ ok' = TRUE /\ pc' = "parse"
      /\ inputBuffer_' = Parts /\ unread' = << >>
  BY DEF onMessage, Parts
<1>4. UNCHANGED <<state_, method_, version_, connection, stream, calls, rejected, pipelined>>
  BY <1>3 DEF parserVars, requestVars, historyVars
<1>5. /\ Answered' /\ Current' = Current /\ LastOf(Current)' = LastOf(Current)
      /\ \A n : AsksToClose(n)' = AsksToClose(n)
  BY <1>2, <1>4, SameStream
<1>6. Types'
  <2>1. inputBuffer_' \in Seq(Lines \cup {EOL}) /\ unread' \in Seq(Lines \cup {EOL})
    BY <1>2, <1>3, Basics, EmptySeq
  <2> QED
    BY <1>2, <1>3, <1>4, <2>1 DEF Types, TypeOK
<1>7. Parts' = Parts
  BY <1>2, <1>3, Basics, ConcatEmptySeq DEF Parts
<1>8. Delivered(k)'
  BY <1>1, <1>4, <1>7, SameParts
<1>9. Position(k)' /\ Refused(k)'
  <2>1. state_ # "kGotAll"
    BY <1>1, <1>3 DEF Position
  <2> QED
    BY <1>1, <1>3, <1>4, <1>5, <2>1 DEF Position, HeadersTo, Refused
<1>10. Responses' /\ Prompt'
  BY <1>2, <1>3, <1>4, <1>5 DEF Responses, Kept, Prompt
<1> QED
  BY <1>2, <1>4, <1>5, <1>6, <1>8, <1>9, <1>10 DEF HttpInv, At

(* The steps that change only where the server is in its handler. *)
LEMMA QuietKeeps ==
  ASSUME HttpInv, needMore \/ setMethodAborts \/ onMessageReturns \/ UNCHANGED vars
  PROVE  HttpInv'
<1>1. PICK k \in 0..Len(stream) : Delivered(k) /\ Position(k) /\ Refused(k)
  BY DEF HttpInv, At
<1>2. Types /\ Answered /\ Responses /\ Prompt
  BY DEF HttpInv
<1>3. /\ UNCHANGED <<unread, inputBuffer_, ok, parserVars, connState, out, historyVars>>
      /\ aborted' \in BOOLEAN
  BY <1>2 DEF needMore, setMethodAborts, onMessageReturns, vars, Iteration, Types, TypeOK
<1>4. UNCHANGED <<state_, method_, version_, connection, stream, calls, rejected, pipelined>>
  BY <1>3 DEF parserVars, requestVars, historyVars
<1>5. \/ pc' = pc
      \/ pc = "parse" /\ pc' = "parsed" /\ Len(inputBuffer_) < 2 /\ state_ # "kGotAll"
      \/ pc = "parsed" /\ pc' = "poll" /\ ok /\ state_ # "kGotAll"
  <2>1. CASE needMore
    BY <1>2, <2>1, Basics DEF needMore, Iteration, findCRLF
  <2>2. CASE setMethodAborts \/ onMessageReturns \/ UNCHANGED vars
    BY <2>2 DEF setMethodAborts, onMessageReturns, vars, Iteration
  <2> QED
    BY <2>1, <2>2
<1>6. /\ Answered' /\ Current' = Current /\ LastOf(Current)' = LastOf(Current)
      /\ \A n : AsksToClose(n)' = AsksToClose(n)
  BY <1>2, <1>4, SameStream
<1>7. Types'
  BY <1>2, <1>3, <1>4, <1>5 DEF Types, TypeOK
<1>8. Delivered(k)'
  <2>1. Parts' = Parts
    BY <1>3 DEF Parts
  <2> QED
    BY <1>1, <1>4, <2>1, SameParts
<1>9. Position(k)'
  BY <1>1, <1>3, <1>4, <1>5, <1>6 DEF Position, HeadersTo
<1>10. Refused(k)'
  BY <1>1, <1>3, <1>4, <1>5 DEF Refused, Position
<1>11. Responses'
  BY <1>2, <1>3, <1>4, <1>6 DEF Responses, Kept
<1>12. Prompt'
  BY <1>2, <1>3, <1>4, <1>5, <1>6 DEF Prompt
<1> QED
  BY <1>4, <1>6, <1>7, <1>8, <1>9, <1>10, <1>11, <1>12 DEF HttpInv, At

LEMMA AcceptKeeps ==
  ASSUME HttpInv, acceptRequestLine
  PROVE  HttpInv'
<1>1. PICK k \in 0..Len(stream) : Delivered(k) /\ Position(k) /\ Refused(k)
  BY DEF HttpInv, At
<1>2. Types /\ Answered /\ Responses /\ Prompt
  BY DEF HttpInv
<1>3. /\ UNCHANGED <<unread, connState, out, historyVars, pc, ok, connection, aborted>>
      /\ pc = "parse" /\ state_ = "kExpectRequestLine" /\ state_' = "kExpectHeaders"
      /\ findCRLF /\ retrieveUntil /\ line1 \in RequestLines
      /\ version_' = versionOf(line1) /\ setMethod(line1)
  BY DEF acceptRequestLine, Iteration, processRequestLine
<1>4. UNCHANGED <<stream, calls, rejected, pipelined>>
  BY <1>3 DEF historyVars
<1>5. /\ Answered' /\ Current' = Current /\ LastOf(Current)' = LastOf(Current)
      /\ \A n : AsksToClose(n)' = AsksToClose(n)
  BY <1>2, <1>4, SameStream
<1>6. k < Len(stream) /\ line1 = stream[k + 1]
  BY <1>1, <1>2, <1>3, NextLine
<1>7. inputBuffer_' \in Seq(Lines \cup {EOL}) /\ Delivered(k + 1)'
  BY <1>1, <1>2, <1>3, <1>4, Retrieve
<1>8. k + 1 \in 0..Len(stream') /\ Len(stream) \in Nat /\ Len(calls) \in Nat
  BY <1>2, <1>4, <1>6, Basics
<1>9. Types'
  <2>1. method_' \in {"kInvalid", "kGet"}
    BY <1>2, <1>3 DEF Types, TypeOK, setMethod
  <2>2. version_' \in {"kUnknown", "kHttp10", "kHttp11"}
    BY <1>3 DEF versionOf
  <2> QED
    BY <1>2, <1>3, <1>4, <1>7, <2>1, <2>2 DEF Types, TypeOK
<1>10. Position(k + 1)'
  <2>1. Current = k + 1 /\ connection = noHeader /\ Len(calls) <= k
    BY <1>1, <1>3 DEF Position
  <2>2. HeadersTo(k + 1)'
    BY <1>3, <1>4, <1>5, <1>6, <1>8, <2>1 DEF HeadersTo
  <2>3. ok
    BY <1>1, <1>3 DEF Position
  <2> QED
    BY <1>3, <1>4, <1>8, <2>1, <2>2, <2>3 DEF Position
<1>11. Refused(k + 1)'
  BY <1>1, <1>3, <1>4, <1>6 DEF Refused
<1>12. Responses' /\ Prompt'
  BY <1>2, <1>3, <1>4, <1>5 DEF Responses, Kept, Prompt
<1> QED
  BY <1>5, <1>7, <1>8, <1>9, <1>10, <1>11, <1>12 DEF HttpInv, At

LEMMA RefuseKeeps ==
  ASSUME HttpInv, refuseRequestLine
  PROVE  HttpInv'
<1>1. PICK k \in 0..Len(stream) : Delivered(k) /\ Position(k) /\ Refused(k)
  BY DEF HttpInv, At
<1>2. Types /\ Answered /\ Responses /\ Prompt
  BY DEF HttpInv
<1>3. /\ UNCHANGED <<unread, connState, out, historyVars, inputBuffer_, state_, version_,
                     connection, aborted>>
      /\ pc = "parse" /\ pc' = "parsed" /\ ok' = FALSE /\ state_ = "kExpectRequestLine"
      /\ findCRLF /\ line1 \notin RequestLines /\ setMethod(line1)
  BY DEF refuseRequestLine, Iteration, processRequestLine
<1>4. UNCHANGED <<stream, calls, rejected, pipelined>>
  BY <1>3 DEF historyVars
<1>5. /\ Answered' /\ Current' = Current /\ LastOf(Current)' = LastOf(Current)
      /\ \A n : AsksToClose(n)' = AsksToClose(n)
  BY <1>2, <1>4, SameStream
<1>6. k < Len(stream) /\ line1 = stream[k + 1]
  BY <1>1, <1>2, <1>3, NextLine
<1>7. Types'
  <2>1. method_' \in {"kInvalid", "kGet"}
    BY <1>2, <1>3 DEF Types, TypeOK, setMethod
  <2> QED
    BY <1>2, <1>3, <1>4, <2>1 DEF Types, TypeOK
<1>8. Delivered(k)'
  <2>1. Parts' = Parts
    BY <1>3 DEF Parts
  <2> QED
    BY <1>1, <1>4, <2>1, SameParts
<1>9. Position(k)' /\ Refused(k)'
  BY <1>1, <1>3, <1>4, <1>5, <1>6 DEF Position, Refused
<1>10. Responses' /\ Prompt'
  BY <1>2, <1>3, <1>4, <1>5 DEF Responses, Kept, Prompt
<1> QED
  BY <1>4, <1>5, <1>7, <1>8, <1>9, <1>10 DEF HttpInv, At

LEMMA HeaderKeeps ==
  ASSUME HttpInv, addHeader \/ endHeaders
  PROVE  HttpInv'
<1>1. PICK k \in 0..Len(stream) : Delivered(k) /\ Position(k) /\ Refused(k)
  BY DEF HttpInv, At
<1>2. Types /\ Answered /\ Responses /\ Prompt
  BY DEF HttpInv
<1>3. /\ UNCHANGED <<unread, connState, out, historyVars, ok, version_, method_, aborted>>
      /\ pc = "parse" /\ state_ = "kExpectHeaders" /\ findCRLF /\ retrieveUntil
  BY DEF addHeader, endHeaders, Iteration, requestVars
<1>4. UNCHANGED <<stream, calls, rejected, pipelined>>
  BY <1>3 DEF historyVars
<1>5. /\ Answered' /\ Current' = Current /\ LastOf(Current)' = LastOf(Current)
      /\ \A n : AsksToClose(n)' = AsksToClose(n)
  BY <1>2, <1>4, SameStream
<1>6. k < Len(stream) /\ line1 = stream[k + 1]
  BY <1>1, <1>2, <1>3, NextLine
<1>7. inputBuffer_' \in Seq(Lines \cup {EOL}) /\ Delivered(k + 1)'
  BY <1>1, <1>2, <1>3, <1>4, Retrieve
<1>8. k + 1 \in 0..Len(stream') /\ Len(stream) \in Nat /\ Len(calls) \in Nat
  BY <1>2, <1>4, <1>6, Basics
<1>9. Current \in Nat /\ Len(calls) < k /\ HeadersTo(k) /\ ok /\ ~rejected
  <2>1. HeadersTo(k) /\ ok /\ ~rejected /\ Len(calls) < k
    BY <1>1, <1>3 DEF Position, Refused
  <2>2. Len(calls) + 1 \in 1 .. MaxLines + 1
    BY <1>2, <1>8, <2>1, MaxLinesAssumption DEF Types
  <2> QED
    BY <1>2, <2>1, <2>2, CurrentInStream, FirstInPositive DEF Types
<1>10. Responses'
  BY <1>2, <1>3, <1>4, <1>5 DEF Responses, Kept
<1>11. CASE addHeader
  <2>1. /\ hasColon(line1) /\ connection' = valueOf(line1) /\ pc' = pc /\ state_' = state_
    BY <1>11 DEF addHeader
  <2>2. Types'
    <3>1. connection' \in {noHeader, "close", "Keep-Alive"}
      BY <2>1 DEF valueOf
    <3> QED
      BY <1>2, <1>3, <1>4, <1>7, <2>1, <3>1 DEF Types, TypeOK
  <2>3. HeadersTo(k + 1)'
    <3>1. /\ 1 <= Current /\ Current <= k + 1 /\ k + 1 # Current
          /\ stream[Current] \in RequestLines /\ version_ = versionOf(stream[Current])
      BY <1>9 DEF HeadersTo
    <3>2. ASSUME NEW j \in Current + 1 .. k + 1
          PROVE  hasColon(stream[j])
      <4>1. j \in Current + 1 .. k \/ j = k + 1
        BY <1>9
      <4> QED
        BY <1>6, <1>9, <2>1, <4>1 DEF HeadersTo
    <3> QED
      BY <1>3, <1>4, <1>5, <1>6, <2>1, <3>1, <3>2 DEF HeadersTo
  <2>4. Position(k + 1)' /\ Refused(k + 1)' /\ Prompt'
    BY <1>2, <1>3, <1>4, <1>5, <1>8, <1>9, <2>1, <2>3 DEF Position, Refused, Prompt
  <2> QED
    BY <1>5, <1>7, <1>8, <1>10, <2>2, <2>4 DEF HttpInv, At
<1>12. CASE endHeaders
  <2>1. /\ ~hasColon(line1) /\ connection' = connection
        /\ pc' = "parsed" /\ state_' = "kGotAll"
    BY <1>12 DEF endHeaders, requestVars
  <2>2. Types'
    BY <1>2, <1>3, <1>4, <1>7, <2>1 DEF Types, TypeOK
  <2>3. HeadersTo((k + 1) - 1)'
    <3>1. (k + 1) - 1 = k
      OBVIOUS
    <3>2. HeadersTo(k)'
      BY <1>3, <1>4, <1>5, <1>9, <2>1 DEF HeadersTo
    <3> QED
      BY <3>1, <3>2 DEF HeadersTo
  <2>4. Position(k + 1)' /\ Refused(k + 1)' /\ Prompt'
    BY <1>2, <1>3, <1>4, <1>5, <1>6, <1>8, <1>9, <2>1, <2>3 DEF Position, Refused, Prompt
  <2> QED
    BY <1>5, <1>7, <1>8, <1>10, <2>2, <2>4 DEF HttpInv, At
<1> QED
  BY <1>11, <1>12

LEMMA BadRequestKeeps ==
  ASSUME HttpInv, badRequest
  PROVE  HttpInv'
<1>1. PICK k \in 0..Len(stream) : Delivered(k) /\ Position(k) /\ Refused(k)
  BY DEF HttpInv, At
<1>2. Types /\ Answered /\ Responses /\ Prompt
  BY DEF HttpInv
<1>3. /\ UNCHANGED <<unread, inputBuffer_, ok, parserVars, aborted, stream, calls, pipelined>>
      /\ pc = "parsed" /\ ~ok /\ pc' = "poll" /\ rejected' = TRUE
  BY DEF badRequest
<1>4. UNCHANGED <<state_, method_, version_, connection>>
  BY <1>3 DEF parserVars, requestVars
<1>5. /\ Answered' /\ Current' = Current /\ LastOf(Current)' = LastOf(Current)
      /\ \A n : AsksToClose(n)' = AsksToClose(n)
  BY <1>2, <1>3, SameStream
<1>6. connState' = "kDisconnecting"
  BY <1>2 DEF badRequest, shutdownAfter, Types, TypeOK
<1>7. PICK response \in [contentLength : BOOLEAN] :
        out' = IF connState = "kConnected" THEN Append(out, response) ELSE out
  BY DEF badRequest, send
<1>8. /\ out' \in Seq([contentLength : BOOLEAN])
      /\ Len(out') = IF connState = "kConnected" THEN Len(out) + 1 ELSE Len(out)
      /\ \A n \in 1..Len(out) : out'[n] = out[n]
  <2>1. out \in Seq([contentLength : BOOLEAN])
    BY <1>2 DEF Types
  <2>2. CASE connState = "kConnected"
    BY <1>7, <2>1, <2>2, AppendProperties
  <2>3. CASE connState # "kConnected"
    BY <1>7, <2>1, <2>3
  <2> QED
    BY <2>2, <2>3
<1>9. Types'
  BY <1>2, <1>3, <1>4, <1>6, <1>8 DEF Types, TypeOK
<1>10. Delivered(k)'
  <2>1. Parts' = Parts
    BY <1>3 DEF Parts
  <2> QED
    BY <1>1, <1>3, <2>1, SameParts
<1>11. Position(k)' /\ Refused(k)'
  BY <1>1, <1>3, <1>4, <1>5 DEF Position, HeadersTo, Refused
<1>12. Responses'
  <2>1. Kept' = Kept /\ Kept \in Int /\ \A n \in 1..Kept : n \in 1..Len(out)
    BY <1>2, <1>6, <1>8, Basics DEF Kept
  <2> QED
    BY <1>2, <1>3, <1>5, <1>6, <1>8, <2>1 DEF Responses
<1>13. Prompt'
  BY <1>3 DEF Prompt
<1> QED
  BY <1>3, <1>5, <1>9, <1>10, <1>11, <1>12, <1>13 DEF HttpInv, At

(* When the parser has got all, what it holds is the request of the stream *)
(* that is due, and the next one starts at the next line.                  *)
LEMMA GotAll ==
  ASSUME HttpInv, NEW k \in 0..Len(stream), Position(k), state_ = "kGotAll"
  PROVE  /\ LastOf(Current) = k
         /\ CompleteIn(stream, Len(calls) + 1)
         /\ RequestIn(stream, Len(calls) + 1)
              = [version |-> version_, connection |-> connection]
         /\ FirstIn(stream)[Len(calls) + 2] = k + 1
<1>1. /\ Types /\ stream \in Seq(Lines) /\ Len(stream) \in Nat /\ Len(calls) \in Nat
      /\ Len(stream) <= MaxLines
  BY Basics DEF HttpInv, Types
<1>2. /\ Len(calls) < k /\ HeadersTo(k - 1) /\ ~hasColon(stream[k])
  BY DEF Position
<1>3. Len(calls) + 1 \in 1..MaxLines /\ Len(calls) + 1 \in 1 .. MaxLines + 1
  BY <1>1, <1>2, MaxLinesAssumption
<1>4. PICK f : f = Current
  OBVIOUS
<1>5. f = FirstIn(stream)[Len(calls) + 1] /\ f \in Nat \ {0}
  BY <1>1, <1>3, <1>4, CurrentInStream, FirstInPositive
<1>6. /\ f <= k - 1 /\ version_ = versionOf(stream[f])
      /\ \A j \in f + 1 .. k - 1 : hasColon(stream[j])
      /\ connection = IF k - 1 = f THEN noHeader ELSE valueOf(stream[k - 1])
  BY <1>2, <1>4 DEF HeadersTo
<1>7. k \in f + 1 .. Len(stream)
  BY <1>1, <1>5, <1>6
<1>8. LastIn(stream, f) = k
  BY <1>1, <1>2, <1>5, <1>6, <1>7, LastInEnds
<1>9. LastOf(Current) = k
  BY <1>4, <1>8, CurrentInStream
<1>10. CompleteIn(stream, Len(calls) + 1)
  BY <1>5, <1>7, <1>8 DEF CompleteIn
<1>11. RequestIn(stream, Len(calls) + 1) = [version |-> version_, connection |-> connection]
  <2>1. (f + 1 .. k - 1 = {}) <=> k - 1 = f
    <3>1. CASE k - 1 = f
      BY <1>5, <3>1
    <3>2. CASE k - 1 # f
      <4>1. k - 1 \in f + 1 .. k - 1
        BY <1>5, <1>6, <1>7, <3>2
      <4> QED
        BY <3>2, <4>1
    <3> QED
      BY <3>1, <3>2
  <2>2. ConnectionIn(stream, Len(calls) + 1) = connection
    BY <1>5, <1>6, <1>8, <2>1 DEF ConnectionIn
  <2> QED
    BY <1>5, <1>6, <2>2 DEF RequestIn
<1>12. FirstIn(stream)[Len(calls) + 2] = k + 1
  <2>1. FirstIn(stream)[(Len(calls) + 1) + 1] = LastIn(stream, f) + 1
    BY <1>3, <1>5, FirstInUnfolds
  <2>2. (Len(calls) + 1) + 1 = Len(calls) + 2
    BY <1>1
  <2> QED
    BY <1>8, <2>1, <2>2
<1> QED
  BY <1>9, <1>10, <1>11, <1>12

LEMMA OnRequestKeeps ==
  ASSUME HttpInv, onRequest
  PROVE  HttpInv'
<1>1. PICK k \in 0..Len(stream) : Delivered(k) /\ Position(k) /\ Refused(k)
  BY DEF HttpInv, At
<1>2. Types /\ Answered /\ Responses /\ Prompt
  BY DEF HttpInv
<1> DEFINE request == [version |-> version_, connection |-> connection]
           c == Len(calls)
<1>3. /\ UNCHANGED <<unread, inputBuffer_, ok, aborted, stream, rejected, pipelined>>
      /\ pc = "parsed" /\ ok /\ state_ = "kGotAll" /\ pc' = "poll"
      /\ calls' = Append(calls, request)
      /\ state_' = "kExpectRequestLine" /\ method_' = "kInvalid"
      /\ version_' = "kUnknown" /\ connection' = noHeader
  BY DEF onRequest, reset
<1>4. PICK close \in httpCallback_(mustClose) :
        send(appendToBuffer(close)) /\ shutdownAfter(close)
  BY DEF onRequest
<1>5. /\ Len(stream) \in Nat /\ c \in Nat /\ Len(out) \in Nat
      /\ Len(inputBuffer_) \in Nat /\ Len(unread) \in Nat
      /\ Len(Parts) = Len(inputBuffer_) + Len(unread)
  BY <1>2, Basics
<1>6. /\ calls' \in Seq([version : {"kHttp10", "kHttp11"},
                         connection : {noHeader, "close", "Keep-Alive"}])
      /\ Len(calls') = c + 1 /\ calls'[c + 1] = request
      /\ \A n \in 1..c : calls'[n] = calls[n]
  <2>1. request \in [version : {"kHttp10", "kHttp11"},
                     connection : {noHeader, "close", "Keep-Alive"}]
    <3>1. stream[Current] \in RequestLines /\ version_ = versionOf(stream[Current])
      BY <1>1, <1>3 DEF Position, HeadersTo
    <3>2. version_ \in {"kHttp10", "kHttp11"}
      BY <3>1 DEF RequestLines, versionOf
    <3> QED
      BY <1>2, <3>2 DEF Types, TypeOK
  <2> HIDE DEF request
  <2> QED
    BY <1>2, <1>3, <2>1, AppendProperties DEF Types
<1>7. /\ LastOf(Current) = k /\ CompleteIn(stream, c + 1)
      /\ RequestIn(stream, c + 1) = request /\ FirstIn(stream)[c + 2] = k + 1
  BY <1>1, <1>3, GotAll
<1>8. Current' = k + 1
  <2>1. Len(calls') + 1 = c + 2
    BY <1>5, <1>6
  <2> QED
    BY <1>3, <1>7, <2>1, CurrentInStream
<1> HIDE DEF request, c
<1>9. \A n : AsksToClose(n)' = AsksToClose(n)
  BY <1>3, InStream
<1>10. Answered'
  <2> SUFFICES ASSUME NEW n \in 1 .. c + 1
               PROVE  IsComplete(n)' /\ calls'[n] = Request(n)'
    BY <1>6 DEF Answered
  <2>1. IsComplete(n)' = CompleteIn(stream, n) /\ Request(n)' = RequestIn(stream, n)
    BY <1>3, InStream
  <2>2. CASE n = c + 1
    BY <1>6, <1>7, <2>1, <2>2
  <2>3. CASE n \in 1..c
    <3>1. IsComplete(n) /\ calls[n] = Request(n)
      BY <1>2, <2>3 DEF Answered, c
    <3> QED
      BY <1>6, <2>1, <2>3, <3>1, InStream
  <2> QED
    BY <1>5, <2>2, <2>3
<1>11. close \in BOOLEAN /\ (~close => ~mustClose)
  BY <1>4 DEF httpCallback_, mustClose
<1>12. /\ out' = IF connState = "kConnected" THEN Append(out, [contentLength |-> ~close]) ELSE out
       /\ connState' = IF close /\ connState = "kConnected" THEN "kDisconnecting" ELSE connState
  BY <1>4 DEF send, shutdownAfter, appendToBuffer
<1>13. /\ out' \in Seq([contentLength : BOOLEAN])
       /\ Len(out') = IF connState = "kConnected" THEN Len(out) + 1 ELSE Len(out)
       /\ \A n \in 1..Len(out) : out'[n] = out[n]
       /\ connState = "kConnected" => out'[Len(out) + 1] = [contentLength |-> ~close]
  <2>1. out \in Seq([contentLength : BOOLEAN])
    BY <1>2 DEF Types
  <2>2. CASE connState = "kConnected"
    <3>1. PICK r \in [contentLength : BOOLEAN] : r = [contentLength |-> ~close]
      <4>1. PICK b \in BOOLEAN : b = ~close
        BY <1>11, Zenon
      <4>2. [contentLength |-> b] \in [contentLength : BOOLEAN]
        OBVIOUS
      <4> QED
        BY <4>1, <4>2, Zenon
    <3>2. out' = Append(out, r)
      BY <1>12, <2>2, <3>1
    <3> QED
      BY <2>1, <2>2, <3>1, <3>2, AppendProperties
  <2>3. CASE connState # "kConnected"
    BY <1>12, <2>1, <2>3
  <2> QED
    BY <2>2, <2>3
<1>14. Types'
  <2>1. connState' \in {"kConnected", "kDisconnecting"}
    BY <1>2, <1>12 DEF Types, TypeOK
  <2> QED
    BY <1>2, <1>3, <1>6, <1>13, <2>1 DEF Types, TypeOK
<1>15. Responses'
  <2>1. CASE connState = "kConnected" /\ ~close
    <3>1. connState' = "kConnected" /\ Kept' = Len(out) + 1 /\ Len(out) = c
      BY <1>2, <1>12, <1>13, <2>1 DEF Kept, Responses, c
    <3>2. ~AsksToClose(c + 1)
      <4>1. ~mustClose
        BY <1>11, <2>1
      <4>2. ~Closes(request)
        BY <4>1 DEF Closes, mustClose, request
      <4>3. AsksToClose(c + 1) = Closes(RequestIn(stream, c + 1))
        BY InStream
      <4> QED
        BY <1>7, <4>2, <4>3
    <3>3. out'[c + 1].contentLength
      BY <1>13, <2>1, <3>1
    <3>4. ASSUME NEW n \in 1..Len(out)
          PROVE  out'[n].contentLength /\ ~AsksToClose(n)
      BY <1>2, <1>13, <2>1 DEF Responses, Kept
    <3>5. ASSUME NEW n \in 1..Kept'
          PROVE  n \in 1..Len(out) \/ n = c + 1
      BY <1>5, <3>1
    <3>6. \A n \in 1..Kept' : out'[n].contentLength /\ ~AsksToClose(n)'
      BY <1>9, <3>2, <3>3, <3>4, <3>5
    <3> QED
      BY <1>2, <1>3, <1>5, <1>6, <1>13, <2>1, <3>1, <3>6 DEF Responses
  <2>2. CASE ~(connState = "kConnected" /\ ~close)
    <3>1. connState' # "kConnected" /\ Kept' = Kept
      BY <1>5, <1>11, <1>12, <1>13, <2>2 DEF Kept
    <3>2. Kept \in Int /\ Kept <= c /\ \A n \in 1..Kept : n \in 1..Len(out)
      BY <1>2, <1>5 DEF Kept, Responses, c
    <3>3. Kept' <= Len(calls')
      BY ONLY <1>5, <1>6, <3>1, <3>2
    <3>4. \A n \in 1..Kept : out[n].contentLength /\ ~AsksToClose(n)
      BY <1>2 DEF Responses
    <3>5. \A n \in 1..Kept' : out'[n].contentLength /\ ~AsksToClose(n)'
      BY ONLY <1>9, <1>13, <3>1, <3>2, <3>4
    <3> QED
      BY ONLY <3>1, <3>3, <3>5 DEF Responses
  <2> QED
    BY <2>1, <2>2
<1>16. Delivered(k)'
  <2>1. Parts' = Parts
    BY <1>3 DEF Parts
  <2> QED
    BY <1>1, <1>3, <2>1, SameParts
<1>17. Position(k)'
  <2>1. c < k
    BY <1>1, <1>3 DEF Position, c
  <2> QED
    BY <1>3, <1>5, <1>6, <1>8, <2>1 DEF Position
<1>18. Refused(k)'
  BY <1>1, <1>3 DEF Refused
<1>19. Prompt'
  <2> SUFFICES ASSUME ~pipelined, ~rejected
               PROVE  LastOf(Current)' >= Len(stream) /\ Len(inputBuffer_) < 2
    BY <1>3 DEF Prompt
  <2>1. k = Len(stream)
    BY <1>2, <1>5, <1>7 DEF Prompt
  <2>2. Len(inputBuffer_) < 2
    BY <1>1, <1>5, <2>1 DEF Delivered
  <2>3. LastOf(Current)' = LastIn(stream, k + 1)
    BY <1>3, <1>8, CurrentInStream
  <2>4. LastIn(stream, k + 1) = Len(stream) + 1
    <3>1. k + 1 \in Nat /\ \A m \in (k + 1) + 1 .. Len(stream) : FALSE
      BY <1>5, <2>1
    <3> QED
      BY <1>2, <3>1, LastInOpen DEF Types
  <2> QED
    BY <1>5, <2>2, <2>3, <2>4
<1> QED
  BY <1>3, <1>10, <1>14, <1>15, <1>16, <1>17, <1>18, <1>19 DEF HttpInv, At

-----------------------------------------------------------------------------
(***************************************************************************)
(* The steps of the client.                                                *)
(***************************************************************************)
(* The parts not retrieved, after one more has come. *)
LEMMA OneMorePart ==
  ASSUME Types, NEW part \in Lines \cup {EOL}, unread' = Append(unread, part),
         inputBuffer_' = inputBuffer_
  PROVE  /\ unread' \in Seq(Lines \cup {EOL})
         /\ Len(Parts') = Len(Parts) + 1 /\ Parts'[Len(Parts) + 1] = part
         /\ \A i \in 1..Len(Parts) : Parts'[i] = Parts[i]
<1>1. /\ inputBuffer_ \in Seq(Lines \cup {EOL}) /\ unread \in Seq(Lines \cup {EOL})
      /\ Parts \in Seq(Lines \cup {EOL})
  BY Basics DEF Types
<1>2. unread' \in Seq(Lines \cup {EOL})
  BY <1>1, AppendProperties
<1>3. Parts' = Append(Parts, part)
  <2>1. unread' = unread \o <<part>> /\ <<part>> \in Seq(Lines \cup {EOL})
    BY <1>1, AppendIsConcat
  <2>2. (inputBuffer_ \o unread) \o <<part>> = inputBuffer_ \o (unread \o <<part>>)
    BY <1>1, <2>1, ConcatAssociative
  <2>3. Parts' = Parts \o <<part>>
    BY <2>1, <2>2 DEF Parts
  <2> QED
    BY <1>1, <2>3, AppendIsConcat
<1> QED
  BY <1>1, <1>2, <1>3, AppendProperties

(* Whether the last line is complete can be seen from the number of parts. *)
LEMMA UnfinishedIs ==
  ASSUME Types, NEW k \in 0..Len(stream), Delivered(k)
  PROVE  Unfinished <=> Len(Parts) = 2 * (Len(stream) - k) - 1
<1> DEFINE m == Len(stream) - k
<1>1. /\ Len(stream) \in Nat /\ Len(Parts) \in Nat /\ m \in Nat
      /\ Parts \in Seq(Lines \cup {EOL})
  BY Basics, LenProperties
<1>2. Unfinished <=> Len(Parts) # 0 /\ Parts[Len(Parts)] # EOL
  <2>1. Unfinished <=> Parts # << >> /\ Parts[Len(Parts)] # EOL
    BY DEF Unfinished, Parts
  <2> QED
    BY <1>1, <2>1, EmptySeq
<1>3. /\ Len(Parts) = 2 * m \/ Len(Parts) = 2 * m - 1
      /\ \A j \in 1..m : /\ Parts[2 * j - 1] = stream[k + j]
                         /\ 2 * j <= Len(Parts) => Parts[2 * j] = EOL
  BY DEF Delivered
<1>4. m # 0 => k + m \in 1..Len(stream) /\ m \in 1..m
  BY <1>1
<1> HIDE DEF m
<1>5. CASE Len(Parts) = 2 * m
  <2>1. m # 0 => Parts[Len(Parts)] = EOL
    BY <1>1, <1>3, <1>4, <1>5
  <2>2. 2 * m # 2 * m - 1 /\ (m = 0 => Len(Parts) = 0)
    BY <1>1, <1>5
  <2> QED
    BY <1>2, <1>5, <2>1, <2>2 DEF m
<1>6. CASE Len(Parts) = 2 * m - 1
  <2>1. m # 0
    BY <1>1, <1>6
  <2>2. Parts[Len(Parts)] = stream[k + m]
    BY <1>3, <1>4, <1>6, <2>1
  <2>3. Parts[Len(Parts)] # EOL
    BY <1>4, <2>1, <2>2, Basics
  <2>4. Len(Parts) # 0
    BY <1>1, <1>6
  <2> QED
    BY <1>2, <1>6, <2>3, <2>4 DEF m
<1> QED
  BY <1>3, <1>5, <1>6

LEMMA EndsLineKeeps ==
  ASSUME HttpInv, clientEndsLine
  PROVE  HttpInv'
<1>1. PICK k \in 0..Len(stream) : Delivered(k) /\ Position(k) /\ Refused(k)
  BY DEF HttpInv, At
<1>2. Types /\ Answered /\ Responses /\ Prompt
  BY DEF HttpInv
<1>3. /\ UNCHANGED <<inputBuffer_, pc, ok, parserVars, connState, aborted, out, historyVars>>
      /\ Unfinished /\ unread' = Append(unread, EOL)
  BY DEF clientEndsLine
<1>4. UNCHANGED <<state_, method_, version_, connection, stream, calls, rejected, pipelined>>
  BY <1>3 DEF parserVars, requestVars, historyVars
<1>5. /\ Answered' /\ Current' = Current /\ LastOf(Current)' = LastOf(Current)
      /\ \A n : AsksToClose(n)' = AsksToClose(n)
  BY <1>2, <1>4, SameStream
<1>6. /\ unread' \in Seq(Lines \cup {EOL})
      /\ Len(Parts') = Len(Parts) + 1 /\ Parts'[Len(Parts) + 1] = EOL
      /\ \A i \in 1..Len(Parts) : Parts'[i] = Parts[i]
  BY <1>2, <1>3, OneMorePart
<1>7. Types'
  BY <1>2, <1>3, <1>4, <1>6 DEF Types, TypeOK
<1>8. Delivered(k)'
  <2>1. Len(Parts) = 2 * (Len(stream) - k) - 1
    BY <1>1, <1>2, <1>3, UnfinishedIs
  <2>2. Len(stream) \in Nat /\ Len(Parts) \in Nat
    BY <1>2, Basics
  <2>3. Len(Parts') = 2 * (Len(stream) - k)
    BY <1>6, <2>1, <2>2
  <2>4. ASSUME NEW j \in 1 .. Len(stream) - k
        PROVE  Parts'[2 * j - 1] = stream[k + j] /\ Parts'[2 * j] = EOL
    <3>1. /\ Parts[2 * j - 1] = stream[k + j]
          /\ 2 * j <= Len(Parts) => Parts[2 * j] = EOL
      BY <1>1 DEF Delivered
    <3>2. 2 * j - 1 \in 1..Len(Parts)
      BY <2>1, <2>2
    <3>3. (2 * j \in 1..Len(Parts) /\ 2 * j <= Len(Parts)) \/ 2 * j = Len(Parts) + 1
      BY <2>1, <2>2
    <3>4. Parts'[2 * j - 1] = stream[k + j]
      BY ONLY <1>6, <3>1, <3>2
    <3>5. Parts'[2 * j] = EOL
      BY ONLY <1>6, <3>1, <3>3
    <3> QED
      BY <3>4, <3>5
  <2> QED
    BY <1>4, <2>3, <2>4 DEF Delivered
<1>9. Position(k)' /\ Refused(k)'
  BY <1>1, <1>3, <1>4, <1>5 DEF Position, HeadersTo, Refused
<1>10. Responses' /\ Prompt'
  BY <1>2, <1>3, <1>4, <1>5 DEF Responses, Kept, Prompt
<1> QED
  BY <1>4, <1>5, <1>7, <1>8, <1>9, <1>10 DEF HttpInv, At

LEMMA BeginsLineKeeps ==
  ASSUME HttpInv, NEW line \in Lines, clientBeginsLine(line)
  PROVE  HttpInv'
<1>1. PICK k \in 0..Len(stream) : Delivered(k) /\ Position(k) /\ Refused(k)
  BY DEF HttpInv, At
<1>2. Types /\ Answered /\ Responses /\ Prompt
  BY DEF HttpInv
<1>3. /\ UNCHANGED <<inputBuffer_, pc, ok, parserVars, connState, aborted, out, calls, rejected>>
      /\ ~Unfinished /\ Len(stream) < MaxLines
      /\ unread' = Append(unread, line) /\ stream' = Append(stream, line)
      /\ pipelined' = (pipelined \/ Waiting)
  BY DEF clientBeginsLine
<1>4. UNCHANGED <<state_, method_, version_, connection>>
  BY <1>3 DEF parserVars, requestVars
<1>5. /\ Len(stream) \in Nat /\ Len(calls) \in Nat /\ Len(Parts) \in Nat
      /\ stream \in Seq(Lines) /\ Len(stream) <= MaxLines
  BY <1>2, Basics DEF Types
<1>6. /\ stream' \in Seq(Lines) /\ Len(stream') = Len(stream) + 1
      /\ \A i \in 1..Len(stream) : stream'[i] = stream[i]
      /\ stream'[Len(stream) + 1] = line
  BY <1>3, <1>5, AppendProperties
<1>7. /\ unread' \in Seq(Lines \cup {EOL})
      /\ Len(Parts') = Len(Parts) + 1 /\ Parts'[Len(Parts) + 1] = line
      /\ \A i \in 1..Len(Parts) : Parts'[i] = Parts[i]
  BY <1>2, <1>3, OneMorePart
<1>8. Len(calls) \in 0..MaxLines /\ Len(calls) <= k
  BY <1>1, <1>5, MaxLinesAssumption DEF Position
<1>9. /\ Current' = Current
      /\ \A n \in 1..Len(calls) : /\ CompleteIn(stream', n)
                                  /\ RequestIn(stream', n) = RequestIn(stream, n)
  <2>1. \A n \in 1..Len(calls) : CompleteIn(stream, n)
    BY <1>2, InStream DEF Answered
  <2>2. /\ FirstIn(stream')[Len(calls) + 1] = FirstIn(stream)[Len(calls) + 1]
        /\ \A n \in 1..Len(calls) : /\ CompleteIn(stream', n)
                                    /\ RequestIn(stream', n) = RequestIn(stream, n)
    BY <1>3, <1>5, <1>8, <2>1, CompleteStays
  <2> QED
    BY <1>3, <2>2, CurrentInStream
<1>10. Current \in Nat \ {0}
  <2>1. Len(calls) + 1 \in 1 .. MaxLines + 1
    BY <1>8, MaxLinesAssumption
  <2> QED
    BY <1>5, <2>1, CurrentInStream, FirstInPositive
<1>11. Types'
  <2>1. pipelined' \in BOOLEAN
    BY <1>2, <1>3, Zenon DEF Types, TypeOK
  <2>2. TypeOK'
    BY <1>2, <1>3, <1>4, <2>1 DEF Types, TypeOK
  <2>3. Len(stream') <= MaxLines
    BY <1>3, <1>5, <1>6, MaxLinesAssumption
  <2> QED
    BY <1>2, <1>3, <1>6, <1>7, <2>2, <2>3 DEF Types
<1>12. Answered'
  <2> SUFFICES ASSUME NEW n \in 1..Len(calls)
               PROVE  IsComplete(n)' /\ calls[n] = Request(n)'
    BY <1>3 DEF Answered
  <2>1. calls[n] = Request(n)
    BY <1>2 DEF Answered
  <2> QED
    BY <1>9, <2>1, InStream
<1>13. Responses'
  <2>1. Kept' = Kept /\ Kept <= Len(calls) /\ Kept \in Int
    BY <1>2, <1>3, Basics DEF Kept, Responses
  <2>2. ASSUME NEW n \in 1..Kept
        PROVE  AsksToClose(n)' = AsksToClose(n)
    <3>1. n \in 1..Len(calls)
      BY <1>5, <2>1
    <3> QED
      BY <1>9, <3>1, InStream
  <2> QED
    BY <1>2, <1>3, <2>1, <2>2 DEF Responses
<1>14. Delivered(k)'
  <2> DEFINE m == Len(stream) - k
  <2>1. Len(Parts) = 2 * m /\ m \in Nat
    <3>1. m \in Nat
      BY <1>5
    <3>2. Len(Parts) # 2 * m - 1
      BY <1>1, <1>2, <1>3, UnfinishedIs
    <3>3. Len(Parts) = 2 * m \/ Len(Parts) = 2 * m - 1
      BY <1>1 DEF Delivered
    <3> QED
      BY <3>1, <3>2, <3>3
  <2>2. Len(stream') - k = m + 1 /\ k + (m + 1) = Len(stream) + 1
    BY <1>5, <1>6
  <2>3. \A j \in 1..m : /\ Parts[2 * j - 1] = stream[k + j]
                        /\ 2 * j <= Len(Parts) => Parts[2 * j] = EOL
    BY <1>1 DEF Delivered
  <2>4. \A j \in 1..m : k + j \in 1..Len(stream)
    BY <1>5
  <2> HIDE DEF m
  <2>5. Len(Parts') = 2 * (m + 1) - 1
    BY <1>7, <2>1
  <2>6. ASSUME NEW j \in 1 .. m + 1
        PROVE  /\ Parts'[2 * j - 1] = stream'[k + j]
               /\ 2 * j <= Len(Parts') => Parts'[2 * j] = EOL
    <3>1. CASE j = m + 1
      <4>1. 2 * j - 1 = Len(Parts) + 1 /\ ~(2 * j <= Len(Parts')) /\ k + j = Len(stream) + 1
        BY <2>1, <2>2, <2>5, <3>1
      <4> QED
        BY <1>6, <1>7, <4>1
    <3>2. CASE j \in 1..m
      <4>1. 2 * j - 1 \in 1..Len(Parts) /\ 2 * j \in 1..Len(Parts) /\ 2 * j <= Len(Parts)
        BY <2>1, <3>2
      <4> QED
        BY <1>6, <1>7, <2>3, <2>4, <3>2, <4>1
    <3> QED
      BY <2>1, <3>1, <3>2
  <2> QED
    BY <2>2, <2>5, <2>6 DEF Delivered
<1>15. ASSUME NEW last \in 0..Len(stream), HeadersTo(last)
       PROVE  HeadersTo(last)'
  <2>1. /\ Current \in 1..Len(stream) /\ Current <= last
        /\ \A j \in Current + 1 .. last : j \in 1..Len(stream)
    BY <1>5, <1>10, <1>15 DEF HeadersTo
  <2>2. stream'[Current] = stream[Current] /\ \A j \in Current + 1 .. last : stream'[j] = stream[j]
    BY <1>6, <2>1
  <2>3. last # Current => stream'[last] = stream[last]
    BY <1>5, <1>6, <1>10, <2>1
  <2> QED
    BY <1>4, <1>9, <1>15, <2>2, <2>3 DEF HeadersTo
<1>16. Position(k)'
  <2>1. CASE state_ = "kGotAll"
    <3>1. k \in 1..Len(stream) /\ k - 1 \in 0..Len(stream)
      BY <1>1, <1>5, <2>1 DEF Position
    <3>2. HeadersTo(k - 1)' /\ ~hasColon(stream'[k])
      BY <1>1, <1>6, <1>15, <2>1, <3>1 DEF Position
    <3> QED
      BY <1>1, <1>3, <1>4, <2>1, <3>2 DEF Position
  <2>2. CASE state_ # "kGotAll"
    <3>1. HeadersTo(k) => HeadersTo(k)'
      BY <1>15
    <3> QED
      BY <1>1, <1>3, <1>4, <1>9, <2>2, <3>1 DEF Position
  <2> QED
    BY <2>1, <2>2
<1>17. Refused(k)'
  BY <1>1, <1>3, <1>4, <1>5, <1>6 DEF Refused
<1>18. Prompt'
  <2> SUFFICES ASSUME ~pipelined', ~rejected
               PROVE  /\ LastOf(Current)' >= Len(stream')
                      /\ pc = "poll" \/ (pc = "parsed" /\ ok /\ state_ # "kGotAll")
                           => Len(inputBuffer_) < 2
    BY <1>3, <1>4 DEF Prompt
  <2>1. ~pipelined /\ ~IsComplete(Len(calls) + 1)
    BY <1>3 DEF Waiting
  <2>2. ~CompleteIn(stream, Len(calls) + 1)
    BY <2>1, InStream
  <2>3. LastIn(stream, Current) > Len(stream)
    <3>1. LastIn(stream, Current) \in Nat
      BY <1>5, <1>10, LastInIs
    <3> QED
      BY <1>5, <2>2, <3>1, CurrentInStream DEF CompleteIn
  <2>4. LastIn(stream', Current) >= Len(stream) + 1
    BY <1>3, <1>5, <1>10, <2>3, LastInAppend
  <2> QED
    BY <1>2, <1>6, <1>9, <2>1, <2>4, CurrentInStream DEF Prompt
<1>19. k \in 0..Len(stream')
  BY <1>5, <1>6
<1> QED
  BY <1>11, <1>12, <1>13, <1>14, <1>16, <1>17, <1>18, <1>19 DEF HttpInv, At

-----------------------------------------------------------------------------
LEMMA HttpNext == HttpInv /\ [Next]_vars => HttpInv'
<1> SUFFICES ASSUME HttpInv, [Next]_vars PROVE HttpInv'
  OBVIOUS
<1>1. CASE needMore \/ setMethodAborts \/ onMessageReturns \/ UNCHANGED vars
  BY <1>1, QuietKeeps
<1>2. CASE onMessage
  BY <1>2, OnMessageKeeps
<1>3. CASE acceptRequestLine
  BY <1>3, AcceptKeeps
<1>4. CASE refuseRequestLine
  BY <1>4, RefuseKeeps
<1>5. CASE addHeader \/ endHeaders
  BY <1>5, HeaderKeeps
<1>6. CASE badRequest
  BY <1>6, BadRequestKeeps
<1>7. CASE onRequest
  BY <1>7, OnRequestKeeps
<1>8. CASE clientEndsLine
  BY <1>8, EndsLineKeeps
<1>9. ASSUME NEW line \in Lines, clientBeginsLine(line)
      PROVE  HttpInv'
  BY <1>9, BeginsLineKeeps
<1> QED
  BY <1>1, <1>2, <1>3, <1>4, <1>5, <1>6, <1>7, <1>8, <1>9 DEF Next, ServerStep

LEMMA HttpInvHolds == Spec => []HttpInv
  BY HttpInit, HttpNext, PTL DEF Spec

(* However the kernel cuts the client's lines, httpCallback_ is called     *)
(* with the requests that are in them, in order, each with its version and *)
(* its last Connection header, and only with those whose request line is   *)
(* well formed; a 400 is sent only where the next one's is not.            *)
THEOREM HttpRequestsOfTheStream == Spec => []RequestsAreThoseOfTheStream
<1>1. HttpInv => RequestsAreThoseOfTheStream
  <2> SUFFICES ASSUME HttpInv PROVE RequestsAreThoseOfTheStream
    OBVIOUS
  <2>1. PICK k \in 0..Len(stream) : Position(k) /\ Refused(k)
    BY DEF HttpInv, At
  <2>2. rejected => stream[FirstOf[Len(calls) + 1]] \notin RequestLines
    BY <2>1 DEF Position, Refused, Current
  <2>3. ASSUME NEW n \in 1..Len(calls)
        PROVE  stream[FirstOf[n]] \in RequestLines
    <3>1. calls[n].version \in {"kHttp10", "kHttp11"}
      <4> DEFINE Requests == [version : {"kHttp10", "kHttp11"},
                              connection : {noHeader, "close", "Keep-Alive"}]
      <4>1. calls \in Seq(Requests)
        BY DEF HttpInv, Types
      <4> HIDE DEF Requests
      <4>2. calls[n] \in Requests
        BY <4>1, ElementOfSeq
      <4> QED
        BY <4>2 DEF Requests
    <3>2. calls[n].version = versionOf(stream[FirstOf[n]])
      <4>1. calls[n] = Request(n)
        BY DEF HttpInv, Answered
      <4> QED
        BY <4>1 DEF Request
    <3> QED
      BY <3>1, <3>2 DEF versionOf, RequestLines
  <2> QED
    BY <2>2, <2>3 DEF HttpInv, Types, Answered, RequestsAreThoseOfTheStream
<1> QED
  BY <1>1, HttpInvHolds, PTL

(* Every response but the last has a Content-Length and answers a request  *)
(* that did not ask to close, pipelined requests and 400s included.        *)
THEOREM HttpOnlyTheLastCloses == Spec => []OnlyTheLastCloses
<1>1. HttpInv => OnlyTheLastCloses
  <2> SUFFICES ASSUME HttpInv, NEW n \in 1 .. Len(out) - 1
               PROVE  out[n].contentLength /\ ~AsksToClose(n)
    BY DEF OnlyTheLastCloses
  <2>1. Len(out) \in Nat
    BY Basics DEF HttpInv
  <2>2. n \in 1..Kept
    BY <2>1 DEF Kept
  <2> QED
    BY <2>2 DEF HttpInv, Responses
<1> QED
  BY <1>1, HttpInvHolds, PTL

(* When the server waits for input, a client that sends a request only     *)
(* after the last answer has no complete request left unanswered.          *)
THEOREM HttpNoRequestWaits == Spec => []NoRequestWaits
<1>1. HttpInv => NoRequestWaits
  <2> SUFFICES ASSUME HttpInv, pc = "poll", unread = << >>, ~Unfinished, ~pipelined, ~rejected
               PROVE  ~IsComplete(Len(calls) + 1)
    BY DEF NoRequestWaits, Waiting
  <2>1. PICK k \in 0..Len(stream) : Delivered(k) /\ Position(k)
    BY DEF HttpInv, At
  <2>2. /\ Types /\ Len(inputBuffer_) < 2
        /\ stream \in Seq(Lines) /\ Len(stream) \in Nat /\ Len(stream) <= MaxLines
        /\ Len(inputBuffer_) \in Nat /\ Len(calls) \in Nat
        /\ Len(Parts) = Len(inputBuffer_) + Len(unread)
    BY Basics DEF HttpInv, Prompt, Types
  <2>3. Len(Parts) < 2
    <3>1. Len(unread) = 0
      OBVIOUS
    <3> QED
      BY <2>2, <3>1
  <2>4. k = Len(stream)
    <3>1. Len(Parts) = 2 * (Len(stream) - k)
      BY <2>1, <2>2, UnfinishedIs DEF Delivered
    <3> QED
      BY <2>2, <2>3, <3>1
  <2>5. Current \in Nat /\ Current = FirstIn(stream)[Len(calls) + 1]
    <3>1. Len(calls) + 1 \in 1 .. MaxLines + 1
      BY <2>1, <2>2, MaxLinesAssumption DEF Position
    <3> QED
      BY <2>2, <3>1, CurrentInStream, FirstInPositive
  <2>6. \A j \in Current + 1 .. Len(stream) : hasColon(stream[j])
    <3>1. state_ \in {"kExpectRequestLine", "kExpectHeaders"}
      BY <2>1, <2>2 DEF Position, Types, TypeOK
    <3>2. CASE state_ = "kExpectRequestLine"
      <4>1. Current = Len(stream) + 1
        BY <2>1, <2>4, <3>2 DEF Position
      <4> QED
        BY <2>2, <4>1
    <3>3. CASE state_ = "kExpectHeaders"
      BY <2>1, <2>4, <3>3 DEF Position, HeadersTo
    <3> QED
      BY <3>1, <3>2, <3>3
  <2>7. LastIn(stream, Current) = Len(stream) + 1
    BY <2>2, <2>5, <2>6, LastInOpen
  <2>8. ~CompleteIn(stream, Len(calls) + 1)
    BY <2>2, <2>5, <2>7 DEF CompleteIn
  <2> QED
    BY <2>8, InStream
<1> QED
  BY <1>1, HttpInvHolds, PTL
=============================================================================
