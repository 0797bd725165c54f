-------------------------------- MODULE Buffer ---------------------------------
(***************************************************************************)
(* Buffer.h and Buffer.cpp: the bytes of inputBuffer_ and outputBuffer_ in a *)
(* vector, between two indices.                                            *)
(*                                                                         *)
(*   0          readerIndex        writerIndex           Len(store)        *)
(*   | prependable |     readable      |     writable       |              *)
(*                                                                         *)
(* The operations are operators from buffers to buffers; the byte that the *)
(* code has at index i is store[i + 1].  The asserted preconditions of      *)
(* retrieve(), unwrite() and prepend() are the callers' duty and bound the *)
(* arguments of the actions.                                               *)
(***************************************************************************)
EXTENDS Naturals, Sequences

CONSTANTS
    Byte,               \* the values of a char
    Zero,               \* what resize() fills a vector with
    kCheapPrepend,
    kInitialSize,
    ExtraBuf,           \* sizeof extrabuf of readFd()
    Data,               \* the byte strings the environment hands over
    MaxBytes            \* bound: the most bytes kept at a time

ASSUME BufferAssumption ==
    /\ Zero \in Byte
    /\ kCheapPrepend \in Nat
    /\ kInitialSize \in Nat
    /\ ExtraBuf \in Nat
    /\ Data \subseteq Seq(Byte)
    /\ MaxBytes \in Nat

VARIABLES
    buffer,             \* the vector buffer_, readerIndex_ and writerIndex_
    peak                \* history: the most readable bytes so far

vars == <<buffer, peak>>

Buffers == [store : Seq(Byte), readerIndex : Nat, writerIndex : Nat]

-------------------------------------------------------------------------------
ReadableBytes(b) == b.writerIndex - b.readerIndex
WritableBytes(b) == Len(b.store) - b.writerIndex
PrependableBytes(b) == b.readerIndex

\* What peek() and readableBytes() show.
Content(b) == SubSeq(b.store, b.readerIndex + 1, b.writerIndex)

With(store, readerIndex, writerIndex) ==
    [store |-> store, readerIndex |-> readerIndex, writerIndex |-> writerIndex]

\* Buffer(kInitialSize)
EmptyBuffer ==
    With([i \in 1 .. kCheapPrepend + kInitialSize |-> Zero], kCheapPrepend, kCheapPrepend)

\* Mutant: the bytes kept for prepending are forgotten.
FitsWithoutPrepend(b, len) ==
    WritableBytes(b) + PrependableBytes(b) >= len

\* Mutant: bytes are never moved.
FitsNever(b, len) == FALSE

\* The condition of makeSpace() to move instead of to grow.
FitsAfterMove(b, len) ==
    WritableBytes(b) + PrependableBytes(b) >= len + kCheapPrepend

\* buffer_.resize(size)
Resize(store, size) ==
    [i \in 1 .. size |-> IF i <= Len(store) THEN store[i] ELSE Zero]

Grow(b, len) ==
    With(Resize(b.store, b.writerIndex + len), b.readerIndex, b.writerIndex)

\* std::copy() of data into the store, from the index at on.
CopyTo(store, at, data) ==
    [i \in 1 .. Len(store) |->
       IF i \in at + 1 .. at + Len(data) THEN data[i - at] ELSE store[i]]

\* Readable data goes to the front.
MoveToFront(b) ==
    With(CopyTo(b.store, kCheapPrepend, Content(b)),
         kCheapPrepend, kCheapPrepend + ReadableBytes(b))

MakeSpace(b, len) ==
    IF FitsAfterMove(b, len) THEN MoveToFront(b) ELSE Grow(b, len)

EnsureWritableBytes(b, len) ==
    IF WritableBytes(b) < len THEN MakeSpace(b, len) ELSE b

\* The copy at beginWrite(), and hasWritten().
AppendToRoom(b, data) ==
    With(CopyTo(b.store, b.writerIndex, data),
         b.readerIndex, b.writerIndex + Len(data))

AppendTo(b, data) == AppendToRoom(EnsureWritableBytes(b, Len(data)), data)

RetrieveAllFrom(b) == With(b.store, kCheapPrepend, kCheapPrepend)

RetrieveFrom(b, len) ==
    IF len < ReadableBytes(b)
    THEN With(b.store, b.readerIndex + len, b.writerIndex)
    ELSE RetrieveAllFrom(b)

UnwriteFrom(b, len) == With(b.store, b.readerIndex, b.writerIndex - len)

PrependTo(b, data) ==
    With(CopyTo(b.store, b.readerIndex - Len(data), data),
         b.readerIndex - Len(data), b.writerIndex)

\* Mutant: writerIndex_ is moved by n even where n is more than the room.
ReadFdPastEnd(b, data) ==
    With(b.store, b.readerIndex, b.writerIndex + Len(data))

\* Mutant: all n bytes are appended, not the n - writable of extrabuf.
ReadFdTwice(b, data) ==
    IF Len(data) <= WritableBytes(b)
    THEN AppendToRoom(b, data)
    ELSE AppendTo(AppendToRoom(b, SubSeq(data, 1, WritableBytes(b))), data)

\* readFd(): readv() fills the room of the buffer first and extrabuf, if it is
\* offered, with the rest, which is appended.
ReadFdInto(b, data) ==
    IF Len(data) <= WritableBytes(b)
    THEN AppendToRoom(b, data)
    ELSE AppendTo(AppendToRoom(b, SubSeq(data, 1, WritableBytes(b))),
                  SubSeq(data, WritableBytes(b) + 1, Len(data)))

\* The most readv() can return: extrabuf is offered to small buffers only.
ReadFdMost(b) ==
    WritableBytes(b) + (IF WritableBytes(b) < ExtraBuf THEN ExtraBuf ELSE 0)

-------------------------------------------------------------------------------
Init == buffer = EmptyBuffer /\ peak = 0

\* Every action keeps the history.
Becomes(b) ==
    /\ buffer' = b
    /\ peak' = IF ReadableBytes(b) > peak THEN ReadableBytes(b) ELSE peak

\* append()
Extend(data) ==
    /\ ReadableBytes(buffer) + Len(data) <= MaxBytes
    /\ Becomes(AppendTo(buffer, data))

ReadFd(data) ==
    /\ ReadableBytes(buffer) + Len(data) <= MaxBytes
    /\ Len(data) <= ReadFdMost(buffer)
    /\ Becomes(ReadFdInto(buffer, data))

Retrieve(len) ==
    /\ len <= ReadableBytes(buffer)
    /\ Becomes(RetrieveFrom(buffer, len))

RetrieveAll == Becomes(RetrieveAllFrom(buffer))

Unwrite(len) ==
    /\ len <= ReadableBytes(buffer)
    /\ Becomes(UnwriteFrom(buffer, len))

Prepend(data) ==
    /\ ReadableBytes(buffer) + Len(data) <= MaxBytes
    /\ Len(data) <= PrependableBytes(buffer)
    /\ Becomes(PrependTo(buffer, data))

Next ==
    \/ \E data \in Data : Extend(data) \/ ReadFd(data) \/ Prepend(data)
    \/ \E len \in 0 .. MaxBytes : Retrieve(len) \/ Unwrite(len)
    \/ RetrieveAll

Spec == Init /\ [][Next]_vars

-------------------------------------------------------------------------------
\* The indices stay in order and inside the vector, whatever the operations:
\* the subtractions of unsigned numbers that give the three sizes never wrap.
TypeOK ==
    /\ buffer \in Buffers
    /\ buffer.readerIndex <= buffer.writerIndex
    /\ buffer.writerIndex <= Len(buffer.store)
    /\ peak \in Nat

\* assert(kCheapPrepend < readerIndex_) of makeSpace(): readable data is only
\* ever moved towards the front, so that copying it forwards in place is right
\* although the two ranges overlap.
MovesOnlyToFront ==
    \A len \in 0 .. MaxBytes :
        WritableBytes(buffer) < len /\ FitsAfterMove(buffer, len)
            => kCheapPrepend < buffer.readerIndex

\* The vector grows with what is kept, not with what has passed through: it is
\* never longer than twice the most bytes it had to keep, and the prepend area.
MemoryBounded ==
    Len(buffer.store) <=
        kCheapPrepend + (IF 2 * peak > kInitialSize THEN 2 * peak ELSE kInitialSize)

\* A Buffer is a stream of bytes: growing and moving lose, repeat and reorder
\* none.
Stream == INSTANCE ByteStream WITH content <- Content(buffer)

ImplementsStream == Stream!Spec
===============================================================================
