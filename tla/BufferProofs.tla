---------------------------- MODULE BufferProofs ----------------------------
(***************************************************************************)
(* Buffer for any bytes, any sizes and any bound on the vector: the        *)
(* indices stay in order, the asserts hold, and the readable bytes are a   *)
(* queue to which each call adds exactly its own bytes.                    *)
(***************************************************************************)
EXTENDS Buffer, SequenceTheorems, TLAPS

(* The asserts hold because the indices are in order, and say that they    *)
(* stay so: the two are inductive together.                                *)
BufferInv == TypeOK /\ NoAssertFails

-----------------------------------------------------------------------------
(* A function on 1..n is a sequence of length n. *)
LEMMA FunctionIsSeq ==
  ASSUME NEW S, NEW n \in Nat, NEW f \in [1..n -> S]
  PROVE  f \in Seq(S) /\ Len(f) = n
<1>1. f \in Seq(S)
  BY SeqDef
<1>2. Len(f) \in Nat /\ 1..Len(f) = 1..n
  BY <1>1, LenProperties
<1> QED
  BY <1>1, <1>2

LEMMA ChunkIsSeq ==
  ASSUME NEW chunk \in Chunks
  PROVE  chunk \in Seq(Byte) /\ Len(chunk) \in Nat
<1>1. PICK n \in 0..MaxChunk : chunk \in [1..n -> Byte]
  BY DEF Chunks
<1>2. n \in Nat
  BY BufferAssumption
<1> QED
  BY <1>1, <1>2, FunctionIsSeq

LEMMA BufferFields ==
  ASSUME NEW b \in Buffers
  PROVE  /\ b.bytes \in Seq(Byte) /\ Len(b.bytes) \in Nat
         /\ b.reader \in Nat /\ b.writer \in Nat /\ b.failed \in BOOLEAN
         /\ b = [bytes |-> b.bytes, reader |-> b.reader, writer |-> b.writer,
                 failed |-> b.failed]
  BY LenProperties DEF Buffers

(* peek() and readableBytes() of a buffer whose indices are in order. *)
LEMMA ContentIsSeq ==
  ASSUME NEW b, WellFormed(b)
  PROVE  /\ Content(b) \in Seq(Byte)
         /\ Len(Content(b)) = b.writer - b.reader
         /\ \A i \in 1..(b.writer - b.reader) : Content(b)[i] = b.bytes[b.reader + i]
<1>1. /\ b.bytes \in Seq(Byte) /\ b.reader \in Nat /\ b.writer \in Nat
      /\ b.reader <= b.writer /\ b.writer <= Len(b.bytes)
      /\ Len(b.bytes) \in Nat
  BY BufferFields DEF WellFormed, Ordered
<1>2. \A i \in 1..(b.writer - b.reader) : b.bytes[b.reader + i] \in Byte
  <2> SUFFICES ASSUME NEW i \in 1..(b.writer - b.reader)
               PROVE  b.bytes[b.reader + i] \in Byte
    OBVIOUS
  <2>1. b.reader + i \in 1..Len(b.bytes)
    BY <1>1
  <2> QED
    BY <1>1, <2>1, ElementOfSeq
<1>3. Content(b) \in [1..(b.writer - b.reader) -> Byte]
  BY <1>2 DEF Content, readableBytes
<1>4. b.writer - b.reader \in Nat
  BY <1>1
<1> QED
  BY <1>3, <1>4, FunctionIsSeq DEF Content, readableBytes

LEMMA CopyIsSeq ==
  ASSUME NEW bytes \in Seq(Byte), NEW chunk \in Seq(Byte), NEW at \in Nat
  PROVE  /\ copy(bytes, chunk, at) \in Seq(Byte)
         /\ Len(copy(bytes, chunk, at)) = Len(bytes)
         /\ \A i \in 1..Len(bytes) :
              /\ i \in (at + 1)..(at + Len(chunk))
                   => copy(bytes, chunk, at)[i] = chunk[i - at]
              /\ i \notin (at + 1)..(at + Len(chunk))
                   => copy(bytes, chunk, at)[i] = bytes[i]
<1>1. Len(bytes) \in Nat /\ Len(chunk) \in Nat
  BY LenProperties
<1>2. ASSUME NEW i \in 1..Len(bytes)
      PROVE  (IF i \in (at + 1)..(at + Len(chunk)) THEN chunk[i - at] ELSE bytes[i])
               \in Byte
  <2>1. CASE i \in (at + 1)..(at + Len(chunk))
    <3>1. i - at \in 1..Len(chunk)
      BY <1>1, <2>1
    <3> QED
      BY <2>1, <3>1, ElementOfSeq
  <2>2. CASE i \notin (at + 1)..(at + Len(chunk))
    BY <2>2, ElementOfSeq
  <2> QED
    BY <2>1, <2>2
<1>3. copy(bytes, chunk, at) \in [1..Len(bytes) -> Byte]
  BY <1>2 DEF copy
<1> QED
  BY <1>1, <1>3, FunctionIsSeq DEF copy

LEMMA ResizeIsSeq ==
  ASSUME NEW bytes \in Seq(Byte), NEW size \in Nat
  PROVE  /\ resize(bytes, size) \in Seq(Byte)
         /\ Len(resize(bytes, size)) = size
         /\ \A i \in 1..size : i <= Len(bytes) => resize(bytes, size)[i] = bytes[i]
<1>1. Len(bytes) \in Nat
  BY LenProperties
<1>2. \A i \in 1..size : i <= Len(bytes) => bytes[i] \in Byte
  BY <1>1, ElementOfSeq
<1>3. resize(bytes, size) \in [1..size -> Byte]
  BY <1>2, BufferAssumption DEF resize
<1> QED
  BY <1>3, FunctionIsSeq DEF resize

(* An assert that holds changes nothing. *)
LEMMA AssertHolds ==
  ASSUME NEW b \in Buffers, ~b.failed, NEW condition, condition
  PROVE  assertThat(b, condition) = b
<1>1. (b.failed \/ ~condition) = FALSE
  BY Zenon
<1>2. b.failed = FALSE
  BY BufferFields, Zenon
<1>3. [b EXCEPT !.failed = FALSE] = b
  BY <1>2, BufferFields DEF Buffers
<1> QED
  BY <1>1, <1>3 DEF assertThat

-----------------------------------------------------------------------------
(* moveToFront, called when there is something to move, keeps the readable *)
(* bytes and gives back what was in front of them.                         *)
LEMMA MoveToFront ==
  ASSUME NEW b, WellFormed(b), ~b.failed, kCheapPrepend < b.reader
  PROVE  LET p == moveToFront(b)
         IN  /\ WellFormed(p) /\ ~p.failed
             /\ Content(p) = Content(b)
             /\ Len(p.bytes) = Len(b.bytes)
             /\ p.writer = kCheapPrepend + (b.writer - b.reader)
<1> DEFINE p == moveToFront(b)
<1>1. /\ b \in Buffers /\ b.bytes \in Seq(Byte) /\ Len(b.bytes) \in Nat
      /\ b.reader \in Nat /\ b.writer \in Nat
      /\ b.reader <= b.writer /\ b.writer <= Len(b.bytes)
      /\ kCheapPrepend \in Nat
      /\ kCheapPrepend <= Len(b.bytes)
  BY BufferFields, BufferAssumption DEF WellFormed, Ordered
<1>2. /\ Content(b) \in Seq(Byte) /\ Len(Content(b)) = b.writer - b.reader
  BY ContentIsSeq
<1>3. PICK bytes : bytes = copy(b.bytes, Content(b), kCheapPrepend)
  OBVIOUS
<1>a. /\ bytes \in Seq(Byte) /\ Len(bytes) = Len(b.bytes)
      /\ \A i \in 1..Len(b.bytes) :
           i \in (kCheapPrepend + 1)..(kCheapPrepend + Len(Content(b)))
             => bytes[i] = Content(b)[i - kCheapPrepend]
  <2> DEFINE copied == copy(b.bytes, Content(b), kCheapPrepend)
  <2>1. /\ copied \in Seq(Byte) /\ Len(copied) = Len(b.bytes)
        /\ \A i \in 1..Len(b.bytes) :
             i \in (kCheapPrepend + 1)..(kCheapPrepend + Len(Content(b)))
               => copied[i] = Content(b)[i - kCheapPrepend]
    <3>1. b.bytes \in Seq(Byte) /\ Content(b) \in Seq(Byte) /\ kCheapPrepend \in Nat
      BY <1>1, <1>2
    <3> QED
      BY ONLY <3>1, CopyIsSeq, Zenon
  <2>2. bytes = copied
    BY <1>3
  <2> QED
    BY ONLY <2>1, <2>2, Zenon
<1>b. assertThat(b, kCheapPrepend < b.reader) = b
  BY <1>1, AssertHolds
<1>4. p = [bytes |-> bytes, reader |-> kCheapPrepend,
           writer |-> kCheapPrepend + (b.writer - b.reader), failed |-> b.failed]
  <2>1. p = [b EXCEPT !.bytes = copy(b.bytes, Content(b), kCheapPrepend),
                      !.reader = kCheapPrepend,
                      !.writer = kCheapPrepend + readableBytes(b)]
    BY <1>b, Zenon DEF moveToFront
  <2> QED
    BY <1>1, <1>3, <2>1 DEF readableBytes, Buffers
<1>5. WellFormed(p) /\ ~p.failed
  BY <1>1, <1>a, <1>4, BufferFields DEF WellFormed, Ordered, Buffers
<1>6. Content(p) = Content(b)
  <2>1. /\ Content(p) \in Seq(Byte) /\ Len(Content(p)) = b.writer - b.reader
        /\ \A i \in 1..(b.writer - b.reader) :
             Content(p)[i] = bytes[kCheapPrepend + i]
    BY <1>1, <1>4, <1>5, ContentIsSeq
  <2>2. ASSUME NEW i \in 1..(b.writer - b.reader)
        PROVE  Content(p)[i] = Content(b)[i]
    <3>1. /\ kCheapPrepend + i \in 1..Len(b.bytes)
          /\ kCheapPrepend + i \in (kCheapPrepend + 1)..(kCheapPrepend + Len(Content(b)))
          /\ (kCheapPrepend + i) - kCheapPrepend = i
      BY <1>1, <1>2
    <3> QED
      BY <1>a, <2>1, <3>1
  <2> QED
    BY <1>2, <2>1, <2>2, SeqEqual
<1> QED
  BY <1>a, <1>4, <1>5, <1>6

(* resize to the end of the readable bytes or beyond keeps them. *)
LEMMA Resized ==
  ASSUME NEW b, WellFormed(b), NEW size \in Nat, b.writer <= size,
         Len(b.bytes) <= size
  PROVE  LET p == [b EXCEPT !.bytes = resize(@, size)]
         IN  /\ WellFormed(p) /\ p.failed = b.failed
             /\ Content(p) = Content(b)
             /\ Len(p.bytes) = size /\ p.writer = b.writer
<1> DEFINE p == [b EXCEPT !.bytes = resize(@, size)]
<1>1. /\ b \in Buffers /\ b.bytes \in Seq(Byte) /\ Len(b.bytes) \in Nat
      /\ b.reader \in Nat /\ b.writer \in Nat
      /\ b.reader <= b.writer /\ b.writer <= Len(b.bytes)
      /\ kCheapPrepend \in Nat /\ kCheapPrepend <= Len(b.bytes)
  BY BufferFields, BufferAssumption DEF WellFormed, Ordered
<1>2. PICK bytes : bytes = resize(b.bytes, size)
  OBVIOUS
<1>3. /\ bytes \in Seq(Byte) /\ Len(bytes) = size
      /\ \A i \in 1..size : i <= Len(b.bytes) => bytes[i] = b.bytes[i]
  BY <1>1, <1>2, ResizeIsSeq
<1>4. p = [bytes |-> bytes, reader |-> b.reader, writer |-> b.writer,
           failed |-> b.failed]
  BY <1>1, <1>2 DEF Buffers
<1> HIDE DEF p
<1>5. WellFormed(p)
  BY <1>1, <1>3, <1>4, BufferFields DEF WellFormed, Ordered, Buffers
<1>6. Content(p) = Content(b)
  <2>1. /\ Content(p) \in Seq(Byte) /\ Len(Content(p)) = b.writer - b.reader
        /\ \A i \in 1..(b.writer - b.reader) : Content(p)[i] = bytes[b.reader + i]
    BY <1>1, <1>4, <1>5, ContentIsSeq
  <2>2. /\ Content(b) \in Seq(Byte) /\ Len(Content(b)) = b.writer - b.reader
        /\ \A i \in 1..(b.writer - b.reader) : Content(b)[i] = b.bytes[b.reader + i]
    BY ContentIsSeq
  <2>3. ASSUME NEW i \in 1..(b.writer - b.reader)
        PROVE  Content(p)[i] = Content(b)[i]
    <3>1. b.reader + i \in 1..size /\ b.reader + i <= Len(b.bytes)
      BY <1>1
    <3> QED
      BY <1>3, <2>1, <2>2, <3>1
  <2> QED
    BY <2>1, <2>2, <2>3, SeqEqual
<1>7. p.failed = b.failed /\ Len(p.bytes) = size /\ p.writer = b.writer
  BY <1>3, <1>4
<1> QED
  BY <1>5, <1>6, <1>7 DEF p

(* ensureWritableBytes makes room: its assert and the one of makeSpace     *)
(* hold, and the readable bytes are the same.                              *)
LEMMA EnsureWritable ==
  ASSUME NEW b, WellFormed(b), ~b.failed, NEW len \in Nat
  PROVE  LET p == ensureWritableBytes(b, len)
         IN  /\ WellFormed(p) /\ ~p.failed
             /\ Content(p) = Content(b)
             /\ p.writer + len <= Len(p.bytes)
<1>1. /\ b \in Buffers /\ Len(b.bytes) \in Nat
      /\ b.reader \in Nat /\ b.writer \in Nat
      /\ b.reader <= b.writer /\ b.writer <= Len(b.bytes)
      /\ kCheapPrepend \in Nat /\ kCheapPrepend <= Len(b.bytes)
  BY BufferFields, BufferAssumption DEF WellFormed, Ordered
<1>2. PICK p : p = IF writableBytes(b) < len THEN makeSpace(b, len) ELSE b
  OBVIOUS
<1>3. /\ WellFormed(p) /\ ~p.failed
      /\ Content(p) = Content(b)
      /\ p.writer + len <= Len(p.bytes)
  <2>1. CASE ~(writableBytes(b) < len)
    <3>1. p = b
      BY <1>2, <2>1
    <3> QED
      BY <1>1, <2>1, <3>1 DEF writableBytes
  <2>2. CASE writableBytes(b) < len /\ needsMore(b, len)
    <3>1. p = [b EXCEPT !.bytes = resize(@, b.writer + len)]
      BY <1>2, <2>2, Zenon DEF makeSpace
    <3>2. /\ b.writer + len \in Nat /\ b.writer <= b.writer + len
          /\ Len(b.bytes) <= b.writer + len
      BY <1>1, <2>2 DEF writableBytes
    <3>3. /\ WellFormed(p) /\ p.failed = b.failed /\ Content(p) = Content(b)
          /\ Len(p.bytes) = b.writer + len /\ p.writer = b.writer
      BY <3>1, <3>2, Resized, Zenon
    <3> QED
      BY <1>1, <3>3
  <2>3. CASE writableBytes(b) < len /\ ~needsMore(b, len)
    <3>1. p = moveToFront(b)
      BY <1>2, <2>3, Zenon DEF makeSpace
    <3>2. kCheapPrepend < b.reader
      BY <1>1, <2>3 DEF writableBytes, needsMore, prependableBytes
    <3>3. /\ WellFormed(p) /\ ~p.failed /\ Content(p) = Content(b)
          /\ Len(p.bytes) = Len(b.bytes)
          /\ p.writer = kCheapPrepend + (b.writer - b.reader)
      BY <3>1, <3>2, MoveToFront, Zenon
    <3> QED
      BY <1>1, <2>3, <3>3 DEF writableBytes, needsMore, prependableBytes
  <2> QED
    BY <2>1, <2>2, <2>3
<1>4. p \in Buffers /\ p.writer \in Nat /\ Len(p.bytes) \in Nat
  BY <1>3, BufferFields DEF WellFormed, Ordered
<1>5. writableBytes(p) >= len
  BY <1>3, <1>4 DEF writableBytes
<1>6. assertThat(p, writableBytes(p) >= len) = p
  BY <1>3, <1>4, <1>5, AssertHolds
<1>7. ensureWritableBytes(b, len) = p
  BY <1>2, <1>6, Zenon DEF ensureWritableBytes
<1> QED
  BY <1>3, <1>7

(* What is copied behind the readable bytes, when it fits, joins them. *)
LEMMA Filled ==
  ASSUME NEW b, WellFormed(b), NEW chunk \in Seq(Byte),
         b.writer + Len(chunk) <= Len(b.bytes)
  PROVE  LET q == hasWritten([b EXCEPT !.bytes = copy(@, chunk, b.writer)],
                             Len(chunk))
         IN  /\ WellFormed(q) /\ q.failed = b.failed
             /\ Content(q) = Content(b) \o chunk
             /\ q = [bytes |-> copy(b.bytes, chunk, b.writer), reader |-> b.reader,
                     writer |-> b.writer + Len(chunk), failed |-> b.failed]
<1> DEFINE q == hasWritten([b EXCEPT !.bytes = copy(@, chunk, b.writer)], Len(chunk))
<1>1. /\ b \in Buffers /\ b.bytes \in Seq(Byte) /\ Len(b.bytes) \in Nat
      /\ b.reader \in Nat /\ b.writer \in Nat
      /\ b.reader <= b.writer /\ b.writer <= Len(b.bytes)
      /\ kCheapPrepend \in Nat /\ kCheapPrepend <= Len(b.bytes)
      /\ Len(chunk) \in Nat
  BY BufferFields, BufferAssumption, LenProperties DEF WellFormed, Ordered
<1>2. PICK bytes : bytes = copy(b.bytes, chunk, b.writer)
  OBVIOUS
<1>3. /\ bytes \in Seq(Byte) /\ Len(bytes) = Len(b.bytes)
      /\ \A i \in 1..Len(b.bytes) :
           /\ i \in (b.writer + 1)..(b.writer + Len(chunk))
                => bytes[i] = chunk[i - b.writer]
           /\ i \notin (b.writer + 1)..(b.writer + Len(chunk))
                => bytes[i] = b.bytes[i]
  <2>1. b.bytes \in Seq(Byte) /\ chunk \in Seq(Byte) /\ b.writer \in Nat
    BY <1>1
  <2> DEFINE copied == copy(b.bytes, chunk, b.writer)
  <2>2. /\ copied \in Seq(Byte) /\ Len(copied) = Len(b.bytes)
        /\ \A i \in 1..Len(b.bytes) :
             /\ i \in (b.writer + 1)..(b.writer + Len(chunk))
                  => copied[i] = chunk[i - b.writer]
             /\ i \notin (b.writer + 1)..(b.writer + Len(chunk))
                  => copied[i] = b.bytes[i]
    BY ONLY <2>1, CopyIsSeq, Zenon
  <2>3. bytes = copied
    BY <1>2
  <2> QED
    BY ONLY <2>2, <2>3, Zenon
<1>4. q = [bytes |-> bytes, reader |-> b.reader, writer |-> b.writer + Len(chunk),
           failed |-> b.failed]
  <2>1. PICK r : r = [b EXCEPT !.bytes = copy(@, chunk, b.writer)]
    OBVIOUS
  <2>2. r = [bytes |-> bytes, reader |-> b.reader, writer |-> b.writer,
             failed |-> b.failed]
    BY <1>1, <1>2, <2>1 DEF Buffers
  <2>3. q = [r EXCEPT !.writer = r.writer + Len(chunk)]
    BY <2>1, Zenon DEF hasWritten
  <2> HIDE DEF q
  <2> QED
    BY <2>2, <2>3
<1> HIDE DEF q
<1>5. WellFormed(q) /\ q.failed = b.failed
  BY <1>1, <1>3, <1>4, BufferFields DEF WellFormed, Ordered, Buffers
<1>6. Content(q) = Content(b) \o chunk
  <2>1. /\ Content(q) \in Seq(Byte)
        /\ Len(Content(q)) = (b.writer + Len(chunk)) - b.reader
        /\ \A i \in 1..((b.writer + Len(chunk)) - b.reader) :
             Content(q)[i] = bytes[b.reader + i]
    BY <1>1, <1>4, <1>5, ContentIsSeq
  <2>2. /\ Content(b) \in Seq(Byte) /\ Len(Content(b)) = b.writer - b.reader
        /\ \A i \in 1..(b.writer - b.reader) : Content(b)[i] = b.bytes[b.reader + i]
    BY ContentIsSeq
  <2>3. /\ Content(b) \o chunk \in Seq(Byte)
        /\ Len(Content(b) \o chunk) = (b.writer - b.reader) + Len(chunk)
        /\ \A i \in 1..((b.writer - b.reader) + Len(chunk)) :
             (Content(b) \o chunk)[i] =
               IF i <= b.writer - b.reader THEN Content(b)[i]
               ELSE chunk[i - (b.writer - b.reader)]
    BY <1>1, <2>2, ConcatProperties
  <2>4. ASSUME NEW i \in 1..((b.writer - b.reader) + Len(chunk))
        PROVE  Content(q)[i] = (Content(b) \o chunk)[i]
    <3>1. /\ b.reader + i \in 1..Len(b.bytes)
          /\ i \in 1..((b.writer + Len(chunk)) - b.reader)
      BY <1>1
    <3>2. CASE i <= b.writer - b.reader
      <4>1. /\ b.reader + i \notin (b.writer + 1)..(b.writer + Len(chunk))
            /\ i \in 1..(b.writer - b.reader)
        BY <1>1, <3>2
      <4> QED
        BY <1>3, <2>1, <2>2, <2>3, <3>1, <3>2, <4>1
    <3>3. CASE ~(i <= b.writer - b.reader)
      <4>1. /\ b.reader + i \in (b.writer + 1)..(b.writer + Len(chunk))
            /\ (b.reader + i) - b.writer = i - (b.writer - b.reader)
        BY <1>1, <3>3
      <4> QED
        BY <1>3, <2>1, <2>3, <3>1, <3>3, <4>1
    <3> QED
      BY <3>2, <3>3
  <2>5. (b.writer + Len(chunk)) - b.reader = (b.writer - b.reader) + Len(chunk)
    BY <1>1
  <2> QED
    BY <2>1, <2>3, <2>4, <2>5, SeqEqual
<1> QED
  BY <1>2, <1>4, <1>5, <1>6 DEF q

(* append, whatever has to be moved or grown for it. *)
LEMMA AppendTo ==
  ASSUME NEW b, WellFormed(b), ~b.failed, NEW chunk \in Seq(Byte)
  PROVE  LET q == appendTo(b, chunk)
         IN  WellFormed(q) /\ ~q.failed /\ Content(q) = Content(b) \o chunk
<1>1. PICK p : p = ensureWritableBytes(b, Len(chunk))
  OBVIOUS
<1>2. Len(chunk) \in Nat
  BY LenProperties
<1>3. /\ WellFormed(p) /\ ~p.failed /\ Content(p) = Content(b)
      /\ p.writer + Len(chunk) <= Len(p.bytes)
  BY <1>1, <1>2, EnsureWritable, Zenon
<1>4. PICK q : q = hasWritten([p EXCEPT !.bytes = copy(@, chunk, p.writer)], Len(chunk))
  OBVIOUS
<1>5. WellFormed(q) /\ q.failed = p.failed /\ Content(q) = Content(p) \o chunk
  BY <1>3, <1>4, Filled, Zenon
<1>6. appendTo(b, chunk) = q
  BY <1>1, <1>4, Zenon DEF appendTo
<1> QED
  BY <1>3, <1>5, <1>6, Zenon

-----------------------------------------------------------------------------
LEMMA InitCorrect ==
  ASSUME Init
  PROVE  BufferInv /\ Queue!Init
<1> DEFINE n == kCheapPrepend + kInitialSize
           bytes == [i \in 1..n |-> Zero]
<1>1. kCheapPrepend \in Nat /\ n \in Nat /\ kCheapPrepend <= n /\ Zero \in Byte
  BY BufferAssumption
<1>2. bytes \in [1..n -> Byte]
  BY <1>1
<1>3. bytes \in Seq(Byte) /\ Len(bytes) = n
  BY <1>1, <1>2, FunctionIsSeq, Zenon
<1>4. buffer = [bytes |-> bytes, reader |-> kCheapPrepend,
                writer |-> kCheapPrepend, failed |-> FALSE]
  BY DEF Init
<1> HIDE DEF bytes, n
<1>5. WellFormed(buffer) /\ ~buffer.failed
  BY <1>1, <1>3, <1>4 DEF WellFormed, Ordered, Buffers
<1>6. Content(buffer) = << >>
  BY <1>1, <1>4 DEF Content, readableBytes
<1>7. stale = FALSE /\ call = [none |-> TRUE]
  BY DEF Init
<1>8. BufferInv
  BY <1>5, <1>7, Zenon DEF BufferInv, TypeOK, NoAssertFails, WellFormed
<1> QED
  BY <1>6, <1>7, <1>8, Zenon DEF Queue!Init

(* The indices are in the vector where a call finds beginWrite() there,    *)
(* and wherever shrink has not been misused.                               *)
LEMMA InTheVector ==
  ASSUME BufferInv, Inside \/ ~stale
  PROVE  WellFormed(buffer) /\ ~buffer.failed
  BY Zenon DEF BufferInv, TypeOK, NoAssertFails, Inside, WellFormed

(* The invariant after a call that leaves the indices in the vector. *)
LEMMA InvAgain ==
  ASSUME WellFormed(buffer'), ~buffer'.failed, stale' \in BOOLEAN
  PROVE  BufferInv'
  BY Zenon DEF BufferInv, TypeOK, NoAssertFails, WellFormed

(* A call that puts chunk behind the readable bytes is a Write of chunk. *)
LEMMA IsWrite ==
  ASSUME BufferInv, NEW chunk,
         WellFormed(buffer'), ~buffer'.failed,
         Content(buffer') = Content(buffer) \o chunk,
         call' = [write |-> chunk], stale' = stale
  PROVE  BufferInv' /\ Queue!Write(chunk)
<1>1. stale \in BOOLEAN
  BY DEF BufferInv, TypeOK
<1>2. BufferInv'
  BY <1>1, InvAgain
<1>3. CASE stale
  BY <1>2, <1>3, Zenon DEF Queue!Write
<1>4. CASE ~stale
  BY <1>2, <1>4, Zenon DEF Queue!Write
<1> QED
  BY <1>2, <1>3, <1>4

LEMMA AppendCorrect ==
  ASSUME BufferInv, NEW chunk \in Chunks, append(chunk)
  PROVE  BufferInv' /\ Queue!Write(chunk)
<1>1. WellFormed(buffer) /\ ~buffer.failed /\ chunk \in Seq(Byte)
  BY ChunkIsSeq, InTheVector DEF append
<1>2. buffer' = appendTo(buffer, chunk) /\ call' = [write |-> chunk] /\ stale' = stale
  BY DEF append
<1>3. WellFormed(buffer') /\ ~buffer'.failed /\ Content(buffer') = Content(buffer) \o chunk
  BY <1>1, <1>2, AppendTo, Zenon
<1> QED
  BY <1>2, <1>3, IsWrite

(* What readv(2) puts into the writable cells and what it puts into        *)
(* extrabuf are, one behind the other, what was read.                      *)
LEMMA ReadFdCorrect ==
  ASSUME BufferInv, NEW chunk \in Chunks, readFd(chunk)
  PROVE  BufferInv' /\ Queue!Write(chunk)
<1> DEFINE writable == writableBytes(buffer)
           filled == SubSeq(chunk, 1, writable)
           extra == spilled(chunk, writable)
<1>1. WellFormed(buffer) /\ ~buffer.failed /\ chunk \in Seq(Byte) /\ Len(chunk) \in Nat
  BY ChunkIsSeq, InTheVector DEF readFd
<1>2. /\ buffer \in Buffers /\ buffer.bytes \in Seq(Byte) /\ Len(buffer.bytes) \in Nat
      /\ buffer.reader \in Nat /\ buffer.writer \in Nat
      /\ buffer.writer <= Len(buffer.bytes)
      /\ writable \in Nat /\ writable = Len(buffer.bytes) - buffer.writer
  BY <1>1, BufferFields DEF WellFormed, Ordered, writableBytes
<1>3. /\ WellFormed(buffer') /\ ~buffer'.failed
      /\ Content(buffer') = Content(buffer) \o chunk
  <2>1. CASE Len(chunk) <= writable
    <3>1. buffer' = hasWritten([buffer EXCEPT !.bytes = copy(@, chunk, buffer.writer)],
                               Len(chunk))
      BY <2>1, Zenon DEF readFd
    <3>2. buffer.writer + Len(chunk) <= Len(buffer.bytes)
      BY <1>1, <1>2, <2>1
    <3>3. /\ WellFormed(buffer') /\ buffer'.failed = buffer.failed
          /\ Content(buffer') = Content(buffer) \o chunk
      BY <1>1, <3>1, <3>2, Filled, Zenon
    <3> QED
      BY <1>1, <3>3, Zenon
  <2>2. CASE ~(Len(chunk) <= writable)
    <3>1. filled \in Seq(Byte) /\ Len(filled) = writable
      BY <1>1, <1>2, <2>2, SubSeqProperties
    <3>2. extra \in Seq(Byte)
      BY <1>1, <1>2, <2>2, SubSeqProperties DEF spilled
    <3> HIDE DEF filled, extra, writable
    <3>3. filled \o extra = chunk
      <4>1. SubSeq(chunk, 1, Len(chunk)) = chunk
        BY <1>1, SubSeqFull
      <4>2. filled \o extra = SubSeq(chunk, 1, Len(chunk))
        <5>1. /\ 1 \in 1..Len(chunk) + 1 /\ writable \in 1 - 1..Len(chunk)
              /\ Len(chunk) \in writable..Len(chunk)
          BY <1>1, <1>2, <2>2
        <5> QED
          BY <1>1, <5>1, ConcatAdjacentSubSeq, Zenon DEF filled, extra, spilled
      <4> QED
        BY <4>1, <4>2
    <3>4. PICK b : b = [buffer EXCEPT !.bytes = copy(@, filled, buffer.writer),
                                      !.writer = Len(buffer.bytes)]
      OBVIOUS
    <3>5. buffer' = appendTo(b, extra)
      BY <2>2, <3>4, Zenon DEF readFd, filled, extra, writable
    <3>6. PICK q : q = hasWritten([buffer EXCEPT !.bytes = copy(@, filled, buffer.writer)],
                                  Len(filled))
      OBVIOUS
    <3>7. buffer.writer + Len(filled) <= Len(buffer.bytes)
      BY <1>2, <3>1
    <3>8. /\ WellFormed(q) /\ q.failed = buffer.failed
          /\ Content(q) = Content(buffer) \o filled
          /\ q = [bytes |-> copy(buffer.bytes, filled, buffer.writer),
                  reader |-> buffer.reader,
                  writer |-> buffer.writer + Len(filled), failed |-> buffer.failed]
      BY <1>1, <3>1, <3>6, <3>7, Filled, Zenon
    <3>9. b = q
      <4>1. b = [bytes |-> copy(buffer.bytes, filled, buffer.writer),
                 reader |-> buffer.reader,
                 writer |-> Len(buffer.bytes), failed |-> buffer.failed]
        BY <1>2, <3>4 DEF Buffers
      <4>2. buffer.writer + Len(filled) = Len(buffer.bytes)
        BY <1>2, <3>1
      <4> QED
        BY <3>8, <4>1, <4>2, Zenon
    <3>10. /\ WellFormed(buffer') /\ ~buffer'.failed
           /\ Content(buffer') = (Content(buffer) \o filled) \o extra
      <4>1. WellFormed(b) /\ ~b.failed /\ Content(b) = Content(buffer) \o filled
        BY <1>1, <3>8, <3>9, Zenon
      <4> QED
        BY <4>1, <3>2, <3>5, AppendTo, Zenon
    <3>11. (Content(buffer) \o filled) \o extra = Content(buffer) \o (filled \o extra)
      <4>1. Content(buffer) \in Seq(Byte)
        BY <1>1, ContentIsSeq
      <4> QED
        BY <3>1, <3>2, <4>1, ConcatAssociative
    <3> QED
      BY <3>3, <3>10, <3>11, Zenon
  <2> QED
    BY <2>1, <2>2
<1>4. call' = [write |-> chunk] /\ stale' = stale
  BY DEF readFd
<1> QED
  BY <1>3, <1>4, IsWrite

(* retrieve drops bytes at the front. *)
LEMMA Dropped ==
  ASSUME NEW b, WellFormed(b), NEW len \in Nat, len <= readableBytes(b)
  PROVE  LET q == [b EXCEPT !.reader = @ + len]
         IN  /\ WellFormed(q) /\ q.failed = b.failed
             /\ Content(q) = SubSeq(Content(b), len + 1, Len(Content(b)))
<1>1. /\ b \in Buffers /\ b.bytes \in Seq(Byte) /\ Len(b.bytes) \in Nat
      /\ b.reader \in Nat /\ b.writer \in Nat
      /\ b.reader <= b.writer /\ b.writer <= Len(b.bytes)
      /\ b.reader + len <= b.writer
  BY BufferFields DEF WellFormed, Ordered, readableBytes
<1>2. PICK q : q = [b EXCEPT !.reader = @ + len]
  OBVIOUS
<1>3. q = [bytes |-> b.bytes, reader |-> b.reader + len, writer |-> b.writer,
           failed |-> b.failed]
  BY <1>1, <1>2 DEF Buffers
<1>4. WellFormed(q) /\ q.failed = b.failed
  BY <1>1, <1>3, BufferFields DEF WellFormed, Ordered, Buffers
<1>5. Content(q) = SubSeq(Content(b), len + 1, Len(Content(b)))
  <2>1. /\ Content(q) \in Seq(Byte)
        /\ Len(Content(q)) = b.writer - (b.reader + len)
        /\ \A i \in 1..(b.writer - (b.reader + len)) :
             Content(q)[i] = b.bytes[(b.reader + len) + i]
    <3>1. q.bytes = b.bytes /\ q.reader = b.reader + len /\ q.writer = b.writer
      BY <1>3
    <3>2. /\ Content(q) \in Seq(Byte)
          /\ Len(Content(q)) = q.writer - q.reader
          /\ \A i \in 1..(q.writer - q.reader) : Content(q)[i] = q.bytes[q.reader + i]
      BY <1>4, ContentIsSeq
    <3> QED
      BY <3>1, <3>2
  <2>2. /\ Content(b) \in Seq(Byte) /\ Len(Content(b)) = b.writer - b.reader
        /\ \A i \in 1..(b.writer - b.reader) : Content(b)[i] = b.bytes[b.reader + i]
    BY ContentIsSeq
  <2>3. PICK t : t = SubSeq(Content(b), len + 1, Len(Content(b)))
    OBVIOUS
  <2>4. /\ t \in Seq(Byte) /\ Len(t) = b.writer - (b.reader + len)
        /\ \A i \in 1..(b.writer - (b.reader + len)) : t[i] = Content(b)[len + i]
    <3>1. \A i \in (len + 1)..Len(Content(b)) : Content(b)[i] \in Byte
      BY <1>1, <2>2, ElementOfSeq
    <3>2. /\ SubSeq(Content(b), len + 1, Len(Content(b))) \in Seq(Byte)
          /\ Len(SubSeq(Content(b), len + 1, Len(Content(b)))) =
               IF len + 1 <= Len(Content(b)) THEN Len(Content(b)) - (len + 1) + 1 ELSE 0
          /\ \A i \in 1..(Len(Content(b)) - (len + 1) + 1) :
               SubSeq(Content(b), len + 1, Len(Content(b)))[i] = Content(b)[len + 1 + i - 1]
      <4>1. len + 1 \in Int /\ Len(Content(b)) \in Int
        BY <1>1, <2>2
      <4> QED
        BY ONLY <2>2, <3>1, <4>1, SubSeqProperties
    <3>3. /\ Len(Content(b)) - (len + 1) + 1 = b.writer - (b.reader + len)
          /\ \A i \in 1..(b.writer - (b.reader + len)) : len + 1 + i - 1 = len + i
      BY <1>1, <2>2
    <3>4. Len(t) = b.writer - (b.reader + len)
      BY <1>1, <2>2, <2>3, <3>2
    <3> QED
      BY <2>3, <3>2, <3>3, <3>4
  <2>5. ASSUME NEW i \in 1..(b.writer - (b.reader + len))
        PROVE  Content(q)[i] = t[i]
    <3>1. /\ len + i \in 1..(b.writer - b.reader)
          /\ b.reader + (len + i) = (b.reader + len) + i
      BY <1>1
    <3> QED
      BY <2>1, <2>2, <2>4, <3>1
  <2>6. Content(q) = t
    BY <2>1, <2>4, <2>5, SeqEqual
  <2> QED
    BY <2>3, <2>6
<1> QED
  BY <1>2, <1>4, <1>5, Zenon

LEMMA RetrieveCorrect ==
  ASSUME BufferInv, NEW len \in 0..MaxSize, retrieve(len)
  PROVE  BufferInv' /\ Queue!Read(len)
<1>1. /\ Ordered(buffer) /\ ~buffer.failed /\ stale \in BOOLEAN
      /\ len \in Nat /\ len <= readableBytes(buffer)
  BY BufferAssumption DEF BufferInv, TypeOK, NoAssertFails, retrieve
<1>2. /\ buffer' = [buffer EXCEPT !.reader = @ + len]
      /\ call' = [read |-> len] /\ stale' = stale
  BY DEF retrieve
<1>3. CASE stale
  <2>1. buffer' = [bytes |-> buffer.bytes, reader |-> buffer.reader + len,
                   writer |-> buffer.writer, failed |-> buffer.failed]
    BY <1>1, <1>2 DEF Ordered, Buffers
  <2>2. Ordered(buffer') /\ ~buffer'.failed
    <3>1. /\ buffer.bytes \in Seq(Byte) /\ buffer.reader \in Nat /\ buffer.writer \in Nat
          /\ buffer.failed \in BOOLEAN /\ kCheapPrepend <= Len(buffer.bytes)
      BY <1>1, BufferFields DEF Ordered
    <3>2. buffer.reader + len \in Nat /\ buffer.reader + len <= buffer.writer
      BY <1>1, <3>1 DEF readableBytes
    <3> QED
      BY <1>1, <2>1, <3>1, <3>2 DEF Ordered, Buffers
  <2>3. BufferInv'
    BY <1>2, <1>3, <2>2, Zenon DEF BufferInv, TypeOK, NoAssertFails
  <2>4. Queue!Read(len)
    BY <1>2, <1>3, Zenon DEF Queue!Read
  <2> QED
    BY <2>3, <2>4
<1>4. CASE ~stale
  <2>1. WellFormed(buffer)
    BY <1>4, InTheVector
  <2>2. /\ WellFormed(buffer') /\ buffer'.failed = buffer.failed
        /\ Content(buffer') = SubSeq(Content(buffer), len + 1, Len(Content(buffer)))
    BY <1>1, <1>2, <2>1, Dropped, Zenon
  <2>3. len <= Len(Content(buffer))
    BY <1>1, <2>1, ContentIsSeq DEF readableBytes
  <2>4. BufferInv'
    BY <1>1, <1>2, <2>2, InvAgain, Zenon
  <2>5. Queue!Read(len)
    BY <1>2, <1>4, <2>2, <2>3, Zenon DEF Queue!Read
  <2> QED
    BY <2>4, <2>5
<1> QED
  BY <1>3, <1>4

(* retrieveAll puts both indices to kCheapPrepend, wherever they were. *)
LEMMA RetrieveAllCorrect ==
  ASSUME BufferInv, retrieveAll
  PROVE  BufferInv' /\ Queue!Clear
<1>1. Ordered(buffer) /\ ~buffer.failed
  BY DEF BufferInv, TypeOK, NoAssertFails
<1>2. /\ buffer \in Buffers /\ buffer.bytes \in Seq(Byte) /\ Len(buffer.bytes) \in Nat
      /\ kCheapPrepend \in Nat /\ kCheapPrepend <= Len(buffer.bytes)
  BY <1>1, BufferFields, BufferAssumption DEF Ordered
<1>3. buffer' = [bytes |-> buffer.bytes, reader |-> kCheapPrepend,
                 writer |-> kCheapPrepend, failed |-> buffer.failed]
  BY <1>2 DEF retrieveAll, Buffers
<1>4. WellFormed(buffer') /\ ~buffer'.failed
  BY <1>1, <1>2, <1>3, BufferFields DEF WellFormed, Ordered, Buffers
<1>5. Content(buffer') = << >>
  BY <1>2, <1>3 DEF Content, readableBytes
<1>6. stale' = FALSE /\ call' = [clear |-> TRUE]
  BY DEF retrieveAll
<1>7. BufferInv'
  BY <1>4, <1>6, InvAgain
<1> QED
  BY <1>5, <1>6, <1>7, Zenon DEF Queue!Clear

(* prepend writes in front of the readable bytes, where there is room. *)
LEMMA Prepended ==
  ASSUME NEW b, WellFormed(b), NEW chunk \in Seq(Byte),
         Len(chunk) <= prependableBytes(b)
  PROVE  LET q == [b EXCEPT !.reader = b.reader - Len(chunk),
                            !.bytes = copy(@, chunk, b.reader - Len(chunk))]
         IN  /\ WellFormed(q) /\ q.failed = b.failed
             /\ Content(q) = chunk \o Content(b)
<1> DEFINE at == b.reader - Len(chunk)
<1>1. /\ b \in Buffers /\ b.bytes \in Seq(Byte) /\ Len(b.bytes) \in Nat
      /\ b.reader \in Nat /\ b.writer \in Nat
      /\ b.reader <= b.writer /\ b.writer <= Len(b.bytes)
      /\ kCheapPrepend \in Nat /\ kCheapPrepend <= Len(b.bytes)
      /\ Len(chunk) \in Nat /\ at \in Nat /\ at + Len(chunk) = b.reader
  BY BufferFields, BufferAssumption, LenProperties DEF WellFormed, Ordered, prependableBytes
<1> HIDE DEF at
<1>2. PICK q : q = [b EXCEPT !.reader = at, !.bytes = copy(@, chunk, at)]
  OBVIOUS
<1>3. PICK bytes : bytes = copy(b.bytes, chunk, at)
  OBVIOUS
<1>4. /\ bytes \in Seq(Byte) /\ Len(bytes) = Len(b.bytes)
      /\ \A i \in 1..Len(b.bytes) :
           /\ i \in (at + 1)..(at + Len(chunk)) => bytes[i] = chunk[i - at]
           /\ i \notin (at + 1)..(at + Len(chunk)) => bytes[i] = b.bytes[i]
  BY <1>1, <1>3, CopyIsSeq
<1>5. q = [bytes |-> bytes, reader |-> at, writer |-> b.writer, failed |-> b.failed]
  BY <1>1, <1>2, <1>3 DEF Buffers
<1>6. WellFormed(q) /\ q.failed = b.failed
  BY <1>1, <1>4, <1>5, BufferFields DEF WellFormed, Ordered, Buffers
<1>7. Content(q) = chunk \o Content(b)
  <2>1. /\ Content(q) \in Seq(Byte) /\ Len(Content(q)) = b.writer - at
        /\ \A i \in 1..(b.writer - at) : Content(q)[i] = bytes[at + i]
    <3>1. q.bytes = bytes /\ q.reader = at /\ q.writer = b.writer
      BY <1>5
    <3>2. /\ Content(q) \in Seq(Byte)
          /\ Len(Content(q)) = q.writer - q.reader
          /\ \A i \in 1..(q.writer - q.reader) : Content(q)[i] = q.bytes[q.reader + i]
      BY <1>6, ContentIsSeq
    <3> QED
      BY <3>1, <3>2
  <2>2. /\ Content(b) \in Seq(Byte) /\ Len(Content(b)) = b.writer - b.reader
        /\ \A i \in 1..(b.writer - b.reader) : Content(b)[i] = b.bytes[b.reader + i]
    BY ContentIsSeq
  <2>3. /\ chunk \o Content(b) \in Seq(Byte)
        /\ Len(chunk \o Content(b)) = Len(chunk) + (b.writer - b.reader)
        /\ \A i \in 1..(Len(chunk) + (b.writer - b.reader)) :
             (chunk \o Content(b))[i] =
               IF i <= Len(chunk) THEN chunk[i] ELSE Content(b)[i - Len(chunk)]
    <3>1. /\ chunk \o Content(b) \in Seq(Byte)
          /\ Len(chunk \o Content(b)) = Len(chunk) + Len(Content(b))
          /\ \A i \in 1..Len(chunk) + Len(Content(b)) :
               (chunk \o Content(b))[i] =
                 IF i <= Len(chunk) THEN chunk[i] ELSE Content(b)[i - Len(chunk)]
      BY <2>2, ConcatProperties, Zenon
    <3> QED
      BY <2>2, <3>1, Zenon
  <2>4. Len(chunk) + (b.writer - b.reader) = b.writer - at
    BY <1>1
  <2>5. ASSUME NEW i \in 1..(b.writer - at)
        PROVE  Content(q)[i] = (chunk \o Content(b))[i]
    <3>1. at + i \in 1..Len(b.bytes)
      BY <1>1
    <3>2. CASE i <= Len(chunk)
      <4>1. at + i \in (at + 1)..(at + Len(chunk)) /\ (at + i) - at = i
        BY <1>1, <3>2
      <4> QED
        BY <1>4, <2>1, <2>3, <2>4, <3>1, <3>2, <4>1
    <3>3. CASE ~(i <= Len(chunk))
      <4>1. /\ at + i \notin (at + 1)..(at + Len(chunk))
            /\ i - Len(chunk) \in 1..(b.writer - b.reader)
            /\ b.reader + (i - Len(chunk)) = at + i
        <5>1. Len(chunk) \in Nat /\ i \in Int /\ at \in Nat /\ at + Len(chunk) = b.reader
          BY <1>1
        <5>2. i > Len(chunk)
          BY <3>3, <5>1
        <5> QED
          BY <1>1, <5>1, <5>2
      <4>2. Content(q)[i] = b.bytes[at + i]
        BY <1>4, <2>1, <3>1, <4>1
      <4>3. (chunk \o Content(b))[i] = Content(b)[i - Len(chunk)]
        BY <2>3, <2>4, <3>3
      <4>4. Content(b)[i - Len(chunk)] = b.bytes[b.reader + (i - Len(chunk))]
        BY <2>2, <4>1
      <4> QED
        BY ONLY <4>1, <4>2, <4>3, <4>4
    <3> QED
      BY <3>2, <3>3
  <2> QED
    BY <2>1, <2>3, <2>4, <2>5, SeqEqual
<1> QED
  BY <1>2, <1>6, <1>7, Zenon DEF at

LEMMA PrependCorrect ==
  ASSUME BufferInv, NEW chunk \in Chunks, prepend(chunk)
  PROVE  BufferInv' /\ Queue!Prepend(chunk)
<1> DEFINE at == buffer.reader - Len(chunk)
<1>1. /\ Ordered(buffer) /\ ~buffer.failed /\ stale \in BOOLEAN
      /\ chunk \in Seq(Byte) /\ Len(chunk) \in Nat
      /\ Len(chunk) <= prependableBytes(buffer)
  BY ChunkIsSeq DEF BufferInv, TypeOK, NoAssertFails, prepend
<1>2. /\ buffer' = [buffer EXCEPT !.reader = at, !.bytes = copy(@, chunk, at)]
      /\ call' = [prepend |-> chunk] /\ stale' = stale
  BY Zenon DEF prepend
<1>3. CASE stale
  <2>1. /\ buffer \in Buffers /\ buffer.bytes \in Seq(Byte)
        /\ buffer.reader \in Nat /\ buffer.writer \in Nat
        /\ buffer.reader <= buffer.writer /\ kCheapPrepend <= Len(buffer.bytes)
        /\ buffer.failed \in BOOLEAN
    BY <1>1, BufferFields DEF Ordered
  <2>2. at \in Nat /\ at <= buffer.writer
    BY <1>1, <2>1 DEF prependableBytes
  <2> HIDE DEF at
  <2>3. PICK bytes : bytes = copy(buffer.bytes, chunk, at)
    OBVIOUS
  <2>4. bytes \in Seq(Byte) /\ Len(bytes) = Len(buffer.bytes)
    <3>1. buffer.bytes \in Seq(Byte) /\ chunk \in Seq(Byte) /\ at \in Nat
      BY <1>1, <2>1, <2>2
    <3>2. /\ copy(buffer.bytes, chunk, at) \in Seq(Byte)
          /\ Len(copy(buffer.bytes, chunk, at)) = Len(buffer.bytes)
      BY ONLY <3>1, CopyIsSeq, Zenon
    <3> QED
      BY <2>3, <3>2
  <2>5. buffer' = [bytes |-> bytes, reader |-> at, writer |-> buffer.writer,
                   failed |-> buffer.failed]
    BY <1>2, <2>1, <2>3 DEF Buffers
  <2>6. Ordered(buffer') /\ ~buffer'.failed
    BY <1>1, <2>1, <2>2, <2>4, <2>5 DEF Ordered, Buffers
  <2>7. BufferInv'
    BY <1>2, <1>3, <2>6, Zenon DEF BufferInv, TypeOK, NoAssertFails
  <2>8. Queue!Prepend(chunk)
    BY <1>2, <1>3, Zenon DEF Queue!Prepend
  <2> QED
    BY <2>7, <2>8
<1>4. CASE ~stale
  <2>1. WellFormed(buffer)
    BY <1>4, InTheVector
  <2>2. /\ WellFormed(buffer') /\ buffer'.failed = buffer.failed
        /\ Content(buffer') = chunk \o Content(buffer)
    BY <1>1, <1>2, <2>1, Prepended, Zenon
  <2>3. BufferInv'
    BY <1>1, <1>2, <2>2, InvAgain, Zenon
  <2>4. Queue!Prepend(chunk)
    BY <1>2, <1>4, <2>2, Zenon DEF Queue!Prepend
  <2> QED
    BY <2>3, <2>4
<1> QED
  BY <1>3, <1>4

(* shrink keeps the indices in order, and keeps the readable bytes when    *)
(* they were at kCheapPrepend; otherwise the buffer is stale.              *)
LEMMA ShrinkCorrect ==
  ASSUME BufferInv, NEW reserve \in 0..MaxSize, shrink(reserve)
  PROVE  BufferInv' /\ Queue!Shrink(reserve)
<1> DEFINE n == (kCheapPrepend + readableBytes(buffer)) + reserve
           zeros == [i \in 1..n |-> Zero]
<1>1. WellFormed(buffer) /\ ~buffer.failed
  BY InTheVector DEF shrink
<1>2. /\ buffer \in Buffers /\ buffer.bytes \in Seq(Byte) /\ Len(buffer.bytes) \in Nat
      /\ buffer.reader \in Nat /\ buffer.writer \in Nat
      /\ buffer.reader <= buffer.writer /\ buffer.writer <= Len(buffer.bytes)
      /\ kCheapPrepend \in Nat /\ reserve \in Nat /\ Zero \in Byte
  BY <1>1, BufferFields, BufferAssumption DEF WellFormed, Ordered
<1>3. /\ n \in Nat /\ kCheapPrepend <= n
      /\ buffer.reader = kCheapPrepend => buffer.writer <= n
  BY <1>2 DEF readableBytes
<1>4. zeros \in Seq(Byte) /\ Len(zeros) = n
  <2>1. zeros \in [1..n -> Byte]
    BY <1>2
  <2> QED
    BY <1>3, <2>1, FunctionIsSeq, Zenon
<1>5. /\ Content(buffer) \in Seq(Byte)
      /\ Len(Content(buffer)) = buffer.writer - buffer.reader
  BY <1>1, ContentIsSeq
<1>6. PICK bytes : bytes = copy(zeros, Content(buffer), kCheapPrepend)
  OBVIOUS
<1> HIDE DEF zeros, n
<1>7. /\ bytes \in Seq(Byte) /\ Len(bytes) = n
      /\ \A i \in 1..n :
           i \in (kCheapPrepend + 1)..(kCheapPrepend + Len(Content(buffer)))
             => bytes[i] = Content(buffer)[i - kCheapPrepend]
  <2> DEFINE copied == copy(zeros, Content(buffer), kCheapPrepend)
  <2>1. /\ copied \in Seq(Byte) /\ Len(copied) = Len(zeros)
        /\ \A i \in 1..Len(zeros) :
             i \in (kCheapPrepend + 1)..(kCheapPrepend + Len(Content(buffer)))
               => copied[i] = Content(buffer)[i - kCheapPrepend]
    <3>1. kCheapPrepend \in Nat /\ zeros \in Seq(Byte) /\ Content(buffer) \in Seq(Byte)
      BY <1>4, <1>5, BufferAssumption
    <3> QED
      BY ONLY <3>1, CopyIsSeq, Zenon
  <2>2. bytes = copied
    BY <1>6
  <2> QED
    BY ONLY <1>4, <2>1, <2>2, Zenon
<1>8. buffer' = [bytes |-> bytes, reader |-> buffer.reader, writer |-> buffer.writer,
                 failed |-> buffer.failed]
  <2>1. buffer' = [buffer EXCEPT !.bytes = bytes]
    BY <1>6, Zenon DEF shrink, n, zeros
  <2> QED
    BY <1>2, <2>1 DEF Buffers
<1>9. Ordered(buffer') /\ ~buffer'.failed
  <2>1. buffer.failed \in BOOLEAN
    BY <1>2, BufferFields
  <2> QED
    BY <1>1, <1>2, <1>3, <1>7, <1>8, <2>1 DEF Ordered, Buffers
<1>10. ASSUME buffer.reader = kCheapPrepend
       PROVE  WellFormed(buffer') /\ Content(buffer') = Content(buffer)
  <2>1. WellFormed(buffer')
    BY <1>3, <1>7, <1>8, <1>9, <1>10 DEF WellFormed
  <2>2. /\ Content(buffer') \in Seq(Byte)
        /\ Len(Content(buffer')) = buffer.writer - buffer.reader
        /\ \A i \in 1..(buffer.writer - buffer.reader) :
             Content(buffer')[i] = bytes[buffer.reader + i]
    BY <1>2, <1>8, <2>1, ContentIsSeq
  <2>3. ASSUME NEW i \in 1..(buffer.writer - buffer.reader)
        PROVE  Content(buffer')[i] = Content(buffer)[i]
    <3>1. /\ buffer.reader + i \in 1..n
          /\ buffer.reader + i
               \in (kCheapPrepend + 1)..(kCheapPrepend + Len(Content(buffer)))
          /\ (buffer.reader + i) - kCheapPrepend = i
      BY <1>2, <1>3, <1>5, <1>10
    <3> QED
      BY <1>7, <2>2, <3>1
  <2>4. Content(buffer') = Content(buffer)
    BY <1>5, <2>2, <2>3, SeqEqual
  <2> QED
    BY <2>1, <2>4
<1>11. /\ stale \in BOOLEAN /\ stale' = (stale \/ buffer.reader # kCheapPrepend)
       /\ call' = [shrink |-> reserve]
  BY DEF shrink, BufferInv, TypeOK
<1>12. CASE ~stale /\ buffer.reader = kCheapPrepend
  <2>1. stale' = FALSE
    BY <1>11, <1>12, Zenon
  <2>2. BufferInv'
    BY <1>9, <1>10, <1>12, <2>1, Zenon DEF BufferInv, TypeOK, NoAssertFails
  <2>3. Queue!Shrink(reserve)
    BY <1>10, <1>11, <1>12, <2>1, Zenon DEF Queue!Shrink
  <2> QED
    BY <2>2, <2>3
<1>13. CASE stale \/ buffer.reader # kCheapPrepend
  <2>1. stale' = TRUE
    BY <1>11, <1>13, Zenon
  <2>2. BufferInv'
    BY <1>9, <2>1, Zenon DEF BufferInv, TypeOK, NoAssertFails
  <2>3. Queue!Shrink(reserve)
    BY <1>11, <2>1, Zenon DEF Queue!Shrink
  <2> QED
    BY <2>2, <2>3
<1> QED
  BY <1>12, <1>13

-----------------------------------------------------------------------------
(* Every call keeps the invariant and is a step of the queue. *)
LEMMA BufferStep ==
  BufferInv /\ [Next]_vars => BufferInv' /\ [Queue!Next]_(Queue!vars)
<1> SUFFICES ASSUME BufferInv, [Next]_vars
             PROVE  BufferInv' /\ [Queue!Next]_(Queue!vars)
  OBVIOUS
<1>1. CASE UNCHANGED vars
  <2>1. buffer' = buffer /\ stale' = stale /\ call' = call
    BY <1>1 DEF vars
  <2>2. BufferInv'
    BY <2>1, Zenon DEF BufferInv, TypeOK, NoAssertFails
  <2>3. UNCHANGED Queue!vars
    BY <2>1, Zenon DEF Queue!vars
  <2> QED
    BY <2>2, <2>3
<1>2. ASSUME NEW chunk \in Chunks, append(chunk)
      PROVE  BufferInv' /\ Queue!Next
  BY <1>2, AppendCorrect DEF Queue!Next
<1>3. ASSUME NEW chunk \in Chunks, readFd(chunk)
      PROVE  BufferInv' /\ Queue!Next
  BY <1>3, ReadFdCorrect DEF Queue!Next
<1>4. ASSUME NEW chunk \in Chunks, prepend(chunk)
      PROVE  BufferInv' /\ Queue!Next
  BY <1>4, PrependCorrect DEF Queue!Next
<1>5. ASSUME NEW len \in 0..MaxSize, retrieve(len)
      PROVE  BufferInv' /\ Queue!Next
  BY <1>5, RetrieveCorrect DEF Queue!Next
<1>6. ASSUME NEW len \in 0..MaxSize, shrink(len)
      PROVE  BufferInv' /\ Queue!Next
  BY <1>6, ShrinkCorrect DEF Queue!Next
<1>7. ASSUME retrieveAll
      PROVE  BufferInv' /\ Queue!Next
  BY <1>7, RetrieveAllCorrect DEF Queue!Next
<1> QED
  BY <1>1, <1>2, <1>3, <1>4, <1>5, <1>6, <1>7, Zenon DEF Next

LEMMA BufferInvHolds == Spec => []BufferInv
<1>1. Init => BufferInv
  BY InitCorrect
<1> QED
  BY <1>1, BufferStep, PTL DEF Spec

(* Whatever the sequence of calls, readerIndex_ <= writerIndex_, and       *)
(* writerIndex_ <= buffer_.size() unless shrink() was called, with the     *)
(* reader elsewhere than at kCheapPrepend, since the last retrieveAll().   *)
THEOREM BufferTypeCorrect == Spec => []TypeOK
  BY BufferInvHolds, PTL DEF BufferInv

(* The asserts of makeSpace and ensureWritableBytes hold: when moving is   *)
(* enough there is something to move, and afterwards there is room.        *)
THEOREM BufferAssertsHold == Spec => []NoAssertFails
  BY BufferInvHolds, PTL DEF BufferInv

(* The readable bytes are a queue, to which append and readFd add exactly  *)
(* the bytes they were given, the ones that went through extrabuf too, and *)
(* prepend its own at the front: no move or growth loses, changes, repeats *)
(* or reorders a byte.  Only a shrink() with the reader elsewhere than at  *)
(* kCheapPrepend does, until the next retrieveAll().                       *)
THEOREM BufferImplementsByteQueue == Spec => ImplementsByteQueue
<1>1. Init => Queue!Init
  BY InitCorrect
<1> QED
  BY <1>1, BufferStep, BufferInvHolds, PTL DEF Spec, ImplementsByteQueue, Queue!Spec
=============================================================================
