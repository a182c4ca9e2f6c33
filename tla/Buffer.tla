------------------------------- MODULE Buffer -------------------------------
(***************************************************************************)
(* tractor::Buffer (include/tractor/Buffer.h, src/Buffer.cpp): a vector of *)
(* bytes with a reader and a writer index.                                 *)
(*                                                                         *)
(* A buffer is a record: bytes is buffer_ (bytes[i + 1] is the cell at     *)
(* offset i), reader and writer are readerIndex_ and writerIndex_, failed  *)
(* says that an assert has failed.                                         *)
(*                                                                         *)
(* shrink, which nothing calls, copies the readable bytes to kCheapPrepend *)
(* and leaves both indices, which may then be wrong and even outside the   *)
(* vector.  A call that would read or write cells outside the vector is    *)
(* undefined, and is not made in the model.                                *)
(***************************************************************************)
EXTENDS Naturals, Sequences

CONSTANTS
  Byte,            \* values of a byte
  Zero,            \* the byte vector::resize fills with
  kCheapPrepend,
  kInitialSize,
  ExtraSize,       \* sizeof extrabuf in readFd
  MaxChunk,        \* bound on the bytes written by one call
  MaxSize          \* bound on buffer_.size()

ASSUME BufferAssumption ==
  /\ Zero \in Byte
  /\ kCheapPrepend \in Nat /\ kInitialSize \in Nat /\ ExtraSize \in Nat
  /\ MaxChunk \in Nat /\ MaxSize \in Nat
  /\ kCheapPrepend + kInitialSize <= MaxSize

VARIABLES
  buffer,
  stale,           \* history: shrink was called with the reader elsewhere
                   \* than at kCheapPrepend, and no retrieveAll since
  call             \* history: the last call and its argument, see ByteQueue

vars == <<buffer, stale, call>>

Chunks == UNION {[1..n -> Byte] : n \in 0..MaxChunk}

readableBytes(b)    == b.writer - b.reader
writableBytes(b)    == Len(b.bytes) - b.writer
prependableBytes(b) == b.reader

(* The bytes between the indices: peek(), for readableBytes(). *)
Content(b) == [i \in 1..readableBytes(b) |-> b.bytes[b.reader + i]]

assertThat(b, condition) == [b EXCEPT !.failed = @ \/ ~condition]

(* std::copy of chunk to the cells from offset at on. *)
copy(bytes, chunk, at) ==
  [i \in 1..Len(bytes) |-> IF i \in (at + 1)..(at + Len(chunk))
                           THEN chunk[i - at] ELSE bytes[i]]

(* vector::resize *)
resize(bytes, size) ==
  [i \in 1..size |-> IF i <= Len(bytes) THEN bytes[i] ELSE Zero]

Init ==
  /\ buffer = [bytes |-> [i \in 1..(kCheapPrepend + kInitialSize) |-> Zero],
               reader |-> kCheapPrepend, writer |-> kCheapPrepend, failed |-> FALSE]
  /\ stale = FALSE
  /\ call = [none |-> TRUE]

-----------------------------------------------------------------------------
moveToFront_NotCopied(b) ==
  LET p == assertThat(b, kCheapPrepend < b.reader)
  IN  [p EXCEPT !.reader = kCheapPrepend,
                !.writer = kCheapPrepend + readableBytes(b)]

(* The readable bytes are moved down to kCheapPrepend. *)
moveToFront(b) ==
  LET p == assertThat(b, kCheapPrepend < b.reader)
  IN  [p EXCEPT !.bytes = copy(@, Content(b), kCheapPrepend),
                !.reader = kCheapPrepend,
                !.writer = kCheapPrepend + readableBytes(b)]

needsMore_IgnoresPrepend(b, len) ==
  writableBytes(b) + prependableBytes(b) < len

(* Whether moving the readable bytes to the front is not enough. *)
needsMore(b, len) ==
  writableBytes(b) + prependableBytes(b) < len + kCheapPrepend

makeSpace(b, len) ==
  IF needsMore(b, len) THEN [b EXCEPT !.bytes = resize(@, b.writer + len)]
                       ELSE moveToFront(b)

ensureWritableBytes(b, len) ==
  LET p == IF writableBytes(b) < len THEN makeSpace(b, len) ELSE b
  IN  assertThat(p, writableBytes(p) >= len)

hasWritten_WithTerminator(b, len) == [b EXCEPT !.writer = @ + len + 1]

hasWritten(b, len) == [b EXCEPT !.writer = @ + len]

appendTo(b, chunk) ==
  LET p == ensureWritableBytes(b, Len(chunk))
  IN  hasWritten([p EXCEPT !.bytes = copy(@, chunk, p.writer)], Len(chunk))

-----------------------------------------------------------------------------
(* Every call leaves buffer_ within the bound of the model. *)
Bounded == Len(buffer'.bytes) <= MaxSize

(* beginWrite() is in the vector or at its end. *)
Inside == buffer.writer <= Len(buffer.bytes)

append(chunk) ==
  /\ Inside
  /\ buffer' = appendTo(buffer, chunk)
  /\ Bounded
  /\ call' = [write |-> chunk]
  /\ UNCHANGED stale

spilled_ButLast(chunk, writable) == SubSeq(chunk, writable + 1, Len(chunk) - 1)

(* The n - writable bytes of a read that are in extrabuf. *)
spilled(chunk, writable) == SubSeq(chunk, writable + 1, Len(chunk))

(* readFd: readv(2) fills the writable cells, then extrabuf, which is      *)
(* appended.  The read may also fail; then nothing changes.                *)
readFd(chunk) ==
  LET writable == writableBytes(buffer)
      filled == SubSeq(chunk, 1, writable)
  IN  /\ Inside
      /\ Len(chunk) <= writable + ExtraSize
      /\ buffer' =
           IF Len(chunk) <= writable
           THEN hasWritten([buffer EXCEPT !.bytes = copy(@, chunk, buffer.writer)],
                           Len(chunk))
           ELSE appendTo([buffer EXCEPT !.bytes = copy(@, filled, buffer.writer),
                                        !.writer = Len(buffer.bytes)],
                         spilled(chunk, writable))
      /\ Bounded
      /\ call' = [write |-> chunk]
      /\ UNCHANGED stale

(* retrieve and retrieveUntil, by callers that keep to its assert. *)
retrieve(len) ==
  /\ len <= readableBytes(buffer)
  /\ buffer' = [buffer EXCEPT !.reader = @ + len]
  /\ call' = [read |-> len]
  /\ UNCHANGED stale

(* retrieveAll and retrieveAsString; what shrink did is made good. *)
retrieveAll ==
  /\ buffer' = [buffer EXCEPT !.reader = kCheapPrepend, !.writer = kCheapPrepend]
  /\ stale' = FALSE
  /\ call' = [clear |-> TRUE]

(* prepend, by callers that keep to its assert. *)
prepend(chunk) ==
  /\ buffer.reader <= Len(buffer.bytes)
  /\ Len(chunk) <= prependableBytes(buffer)
  /\ LET reader == buffer.reader - Len(chunk)
     IN  buffer' = [buffer EXCEPT !.reader = reader,
                                  !.bytes = copy(@, chunk, reader)]
  /\ call' = [prepend |-> chunk]
  /\ UNCHANGED stale

(* The readable bytes are copied to kCheapPrepend of a new vector; the     *)
(* indices stay.                                                           *)
shrink(reserve) ==
  /\ Inside
  /\ buffer' = [buffer EXCEPT !.bytes =
                  copy([i \in 1..(kCheapPrepend + readableBytes(buffer) + reserve)
                          |-> Zero], Content(buffer), kCheapPrepend)]
  /\ stale' = (stale \/ buffer.reader # kCheapPrepend)
  /\ Bounded
  /\ call' = [shrink |-> reserve]

Next ==
  \/ \E chunk \in Chunks : append(chunk) \/ readFd(chunk) \/ prepend(chunk)
  \/ \E len \in 0..MaxSize : retrieve(len) \/ shrink(len)
  \/ retrieveAll

Spec == Init /\ [][Next]_vars

-----------------------------------------------------------------------------
Buffers == [bytes : Seq(Byte), reader : Nat, writer : Nat, failed : BOOLEAN]

Ordered(b) ==
  /\ b \in Buffers
  /\ b.reader <= b.writer
  /\ kCheapPrepend <= Len(b.bytes)

WellFormed(b) == Ordered(b) /\ b.writer <= Len(b.bytes)

(* The unsigned subtractions do not wrap around: readableBytes() never,    *)
(* and writableBytes() as long as shrink was only called with the reader   *)
(* at kCheapPrepend; a retrieveAll() brings the indices back into the      *)
(* vector, whatever was called before.                                     *)
TypeOK ==
  /\ Ordered(buffer) /\ stale \in BOOLEAN
  /\ stale \/ WellFormed(buffer)

(* The asserts of makeSpace and ensureWritableBytes, which no caller can   *)
(* be blamed for: there is always something to move down, and afterwards   *)
(* always room.                                                            *)
NoAssertFails == ~buffer.failed

Queue == INSTANCE ByteQueue WITH
  Counts <- 0..MaxSize,
  content <- IF stale THEN << >> ELSE Content(buffer),
  intact <- ~stale

(* Through moves, growth, reads that spill into extrabuf and prepends, the *)
(* readable bytes behave as a queue: each call adds the very bytes it was  *)
(* given, or that read(2) gave it, at its end of the queue.  Only a shrink *)
(* with the reader elsewhere than at kCheapPrepend breaks this, until the  *)
(* next retrieveAll.                                                       *)
ImplementsByteQueue == Queue!Spec
=============================================================================
