----------------------------- MODULE BufferProofs ------------------------------
(***************************************************************************)
(* Proofs about Buffer for any set of bytes, any initial and prepend size  *)
(* and any bound on what is kept.                                          *)
(***************************************************************************)
EXTENDS Buffer, SequenceTheorems, TLAPS

WellFormed(b) ==
    /\ b \in Buffers
    /\ b.readerIndex <= b.writerIndex
    /\ b.writerIndex <= Len(b.store)

\* The bytes of c lie in store from the index r on.
Holds(store, r, c) ==
    /\ r + Len(c) <= Len(store)
    /\ \A i \in 1 .. Len(c) : store[r + i] = c[i]

LEMMA WithIsWellFormed ==
    ASSUME NEW store \in Seq(Byte), NEW r \in Nat, NEW w \in Nat,
           r <= w, w <= Len(store)
    PROVE  /\ WellFormed(With(store, r, w))
           /\ With(store, r, w).store = store
           /\ With(store, r, w).readerIndex = r
           /\ With(store, r, w).writerIndex = w
           /\ ReadableBytes(With(store, r, w)) = w - r
           /\ WritableBytes(With(store, r, w)) = Len(store) - w
  BY DEF WellFormed, Buffers, With, ReadableBytes, WritableBytes

\* Two sequences of one length that agree everywhere are one.
LEMMA SameSequence ==
    ASSUME NEW S, NEW s \in Seq(S), NEW t \in Seq(S), Len(s) = Len(t),
           \A i \in 1 .. Len(s) : s[i] = t[i]
    PROVE  s = t
  OBVIOUS

LEMMA SubSeqHolds ==
    ASSUME NEW store \in Seq(Byte), NEW r \in Nat, NEW w \in Nat,
           r <= w, w <= Len(store)
    PROVE  /\ SubSeq(store, r + 1, w) \in Seq(Byte)
           /\ Len(SubSeq(store, r + 1, w)) = w - r
           /\ Holds(store, r, SubSeq(store, r + 1, w))
<1> DEFINE c == SubSeq(store, r + 1, w)
<1>1. \A i \in r + 1 .. w : store[i] \in Byte
  OBVIOUS
<1>2. /\ c \in Seq(Byte) /\ Len(c) = w - r
      /\ \A i \in 1 .. w - r : c[i] = store[r + i]
  BY <1>1
<1> HIDE DEF c
<1>3. Holds(store, r, c)
  BY <1>2 DEF Holds
<1>4. QED
  BY <1>2, <1>3 DEF c

\* The sizes of a well-formed buffer are natural numbers that add up.
LEMMA Sizes ==
    ASSUME NEW b, WellFormed(b)
    PROVE  /\ b.store \in Seq(Byte)
           /\ b.readerIndex \in Nat
           /\ b.writerIndex \in Nat
           /\ ReadableBytes(b) \in Nat
           /\ WritableBytes(b) \in Nat
           /\ b.writerIndex = b.readerIndex + ReadableBytes(b)
           /\ Len(b.store) = b.writerIndex + WritableBytes(b)
           /\ Content(b) \in Seq(Byte)
           /\ Len(Content(b)) = ReadableBytes(b)
           /\ Holds(b.store, b.readerIndex, Content(b))
<1>1. /\ b.store \in Seq(Byte) /\ b.readerIndex \in Nat /\ b.writerIndex \in Nat
      /\ b.readerIndex <= b.writerIndex /\ b.writerIndex <= Len(b.store)
  BY DEF WellFormed, Buffers
<1>2. /\ Content(b) \in Seq(Byte)
      /\ Len(Content(b)) = b.writerIndex - b.readerIndex
      /\ Holds(b.store, b.readerIndex, Content(b))
  BY <1>1, SubSeqHolds, Zenon DEF Content
<1>3. /\ ReadableBytes(b) = b.writerIndex - b.readerIndex
      /\ WritableBytes(b) = Len(b.store) - b.writerIndex
  BY DEF ReadableBytes, WritableBytes
<1>4. QED
  BY <1>1, <1>2, <1>3

\* A buffer contains what its store holds between its indices.
LEMMA ContentOfWith ==
    ASSUME NEW store \in Seq(Byte), NEW r \in Nat, NEW c \in Seq(Byte),
           Holds(store, r, c)
    PROVE  /\ WellFormed(With(store, r, r + Len(c)))
           /\ Content(With(store, r, r + Len(c))) = c
           /\ ReadableBytes(With(store, r, r + Len(c))) = Len(c)
           /\ WritableBytes(With(store, r, r + Len(c))) = Len(store) - (r + Len(c))
           /\ With(store, r, r + Len(c)).store = store
<1> DEFINE w == r + Len(c)
           b == With(store, r, w)
           d == Content(b)
<1>1. /\ w \in Nat /\ r <= w /\ w <= Len(store) /\ w - r = Len(c)
      /\ \A i \in 1 .. Len(c) : store[r + i] = c[i]
  BY DEF Holds
<1> HIDE DEF w
<1>2. /\ WellFormed(b) /\ b.store = store /\ b.readerIndex = r /\ b.writerIndex = w
      /\ ReadableBytes(b) = w - r /\ WritableBytes(b) = Len(store) - w
  <2>1. w \in Nat /\ r <= w /\ w <= Len(store)
    BY <1>1
  <2>2. QED
    BY <2>1, WithIsWellFormed
<1> HIDE DEF b
<1>3. /\ d \in Seq(Byte) /\ Len(d) = ReadableBytes(b)
      /\ Holds(store, r, d)
  BY <1>2, Sizes
<1> HIDE DEF d
<1>4. /\ Len(d) = Len(c)
      /\ \A i \in 1 .. Len(d) : d[i] = store[r + i]
  BY <1>1, <1>2, <1>3 DEF Holds
<1>5. d = c
  <2>1. \A i \in 1 .. Len(d) : d[i] = c[i]
    BY <1>1, <1>4
  <2>2. QED
    BY <1>3, <1>4, <2>1, SameSequence, Zenon
<1>6. QED
  BY <1>1, <1>2, <1>5, Zenon DEF b, d, w

\* std::copy() puts data at its place and nowhere else.
LEMMA CopyProperties ==
    ASSUME NEW store \in Seq(Byte), NEW at \in Nat, NEW data \in Seq(Byte),
           at + Len(data) <= Len(store)
    PROVE  /\ CopyTo(store, at, data) \in Seq(Byte)
           /\ Len(CopyTo(store, at, data)) = Len(store)
           /\ Holds(CopyTo(store, at, data), at, data)
           /\ \A i \in 1 .. Len(store) : i <= at \/ at + Len(data) < i
                => CopyTo(store, at, data)[i] = store[i]
<1> DEFINE e(i) == IF i \in at + 1 .. at + Len(data) THEN data[i - at] ELSE store[i]
           t == [i \in 1 .. Len(store) |-> e(i)]
<1>1. ASSUME NEW i \in 1 .. Len(store) PROVE e(i) \in Byte
  <2>1. CASE i \in at + 1 .. at + Len(data)
    <3>1. i - at \in 1 .. Len(data)
      BY <2>1
    <3>2. QED
      BY <2>1, <3>1
  <2>2. CASE i \notin at + 1 .. at + Len(data)
    BY <2>2
  <2>3. QED
    BY <2>1, <2>2
<1>2. ASSUME NEW i \in 1 .. Len(data) PROVE at + i \in 1 .. Len(store) /\ e(at + i) = data[i]
  OBVIOUS
<1>3. ASSUME NEW i \in 1 .. Len(store), i <= at \/ at + Len(data) < i
      PROVE  e(i) = store[i]
  BY <1>3
<1>4. CopyTo(store, at, data) = t
  BY DEF CopyTo
<1> HIDE DEF e
<1>5. t \in Seq(Byte) /\ Len(t) = Len(store)
  BY <1>1
<1>6. \A i \in 1 .. Len(store) : t[i] = e(i)
  OBVIOUS
<1> HIDE DEF t
<1>7. Holds(t, at, data)
  BY <1>2, <1>5, <1>6 DEF Holds
<1>8. QED
  BY <1>3, <1>4, <1>5, <1>6, <1>7

\* What does not overlap the place of the copy is kept.
LEMMA CopyKeeps ==
    ASSUME NEW store \in Seq(Byte), NEW at \in Nat, NEW data \in Seq(Byte),
           at + Len(data) <= Len(store),
           NEW r \in Nat, NEW c \in Seq(Byte), Holds(store, r, c),
           r + Len(c) <= at \/ at + Len(data) <= r
    PROVE  Holds(CopyTo(store, at, data), r, c)
<1> DEFINE t == CopyTo(store, at, data)
<1>1. /\ Len(t) = Len(store)
      /\ \A i \in 1 .. Len(store) : i <= at \/ at + Len(data) < i => t[i] = store[i]
  BY CopyProperties
<1> HIDE DEF t
<1>2. /\ r + Len(c) <= Len(store)
      /\ \A i \in 1 .. Len(c) : store[r + i] = c[i]
  BY DEF Holds
<1>3. ASSUME NEW i \in 1 .. Len(c) PROVE t[r + i] = c[i]
  <2>1. r + i \in 1 .. Len(store) /\ (r + i <= at \/ at + Len(data) < r + i)
    BY <1>2
  <2>2. QED
    BY <1>1, <1>2, <2>1
<1>4. QED
  BY <1>1, <1>2, <1>3 DEF Holds, t

LEMMA ConcatParts ==
    ASSUME NEW S, NEW s \in Seq(S), NEW t \in Seq(S)
    PROVE  /\ s \o t \in Seq(S)
           /\ Len(s \o t) = Len(s) + Len(t)
           /\ \A i \in 1 .. Len(s) : (s \o t)[i] = s[i]
           /\ \A i \in 1 .. Len(t) : (s \o t)[Len(s) + i] = t[i]
  OBVIOUS

\* Neighbours are held together.
LEMMA HoldsBoth ==
    ASSUME NEW store \in Seq(Byte), NEW r \in Nat,
           NEW c \in Seq(Byte), NEW d \in Seq(Byte),
           Holds(store, r, c), Holds(store, r + Len(c), d)
    PROVE  /\ c \o d \in Seq(Byte)
           /\ Len(c \o d) = Len(c) + Len(d)
           /\ Holds(store, r, c \o d)
<1> DEFINE e == c \o d
<1>1. /\ e \in Seq(Byte)
      /\ Len(e) = Len(c) + Len(d)
      /\ \A i \in 1 .. Len(c) : e[i] = c[i]
      /\ \A i \in 1 .. Len(d) : e[Len(c) + i] = d[i]
  BY ConcatParts
<1> HIDE DEF e
<1>2. /\ r + Len(c) + Len(d) <= Len(store)
      /\ \A i \in 1 .. Len(c) : store[r + i] = c[i]
      /\ \A i \in 1 .. Len(d) : store[r + Len(c) + i] = d[i]
  BY DEF Holds
<1>3. ASSUME NEW i \in 1 .. Len(e) PROVE store[r + i] = e[i]
  <2>1. CASE i <= Len(c)
    BY <1>1, <1>2, <2>1
  <2>2. CASE ~(i <= Len(c))
    <3>1. i - Len(c) \in 1 .. Len(d) /\ i = Len(c) + (i - Len(c))
      BY <1>1, <2>2
    <3>2. PICK j \in 1 .. Len(d) : i = Len(c) + j
      BY <3>1
    <3>3. r + i = r + Len(c) + j
      BY <3>2
    <3>4. QED
      BY <1>1, <1>2, <3>2, <3>3
  <2>3. QED
    BY <2>1, <2>2
<1>4. QED
  BY <1>1, <1>2, <1>3 DEF Holds, e

\* So are the parts of what is held.
LEMMA HoldsParts ==
    ASSUME NEW store \in Seq(Byte), NEW r \in Nat, NEW c \in Seq(Byte),
           NEW n \in 0 .. Len(c), Holds(store, r, c)
    PROVE  /\ SubSeq(c, 1, n) \in Seq(Byte) /\ Len(SubSeq(c, 1, n)) = n
           /\ SubSeq(c, n + 1, Len(c)) \in Seq(Byte)
           /\ Len(SubSeq(c, n + 1, Len(c))) = Len(c) - n
           /\ Holds(store, r, SubSeq(c, 1, n))
           /\ Holds(store, r + n, SubSeq(c, n + 1, Len(c)))
<1> DEFINE x == SubSeq(c, 1, n)
           y == SubSeq(c, n + 1, Len(c))
<1>1. n \in Nat /\ Len(c) \in Nat /\ n <= Len(c)
  OBVIOUS
<1>2. /\ x \in Seq(Byte) /\ Len(x) = n /\ \A i \in 1 .. n : x[i] = c[i]
  BY <1>1
<1>3. /\ y \in Seq(Byte) /\ Len(y) = Len(c) - n
      /\ \A i \in 1 .. Len(c) - n : y[i] = c[n + i]
  BY <1>1
<1> HIDE DEF x, y
<1>4. /\ r + Len(c) <= Len(store)
      /\ \A i \in 1 .. Len(c) : store[r + i] = c[i]
  BY DEF Holds
<1>5. Holds(store, r, x)
  BY <1>1, <1>2, <1>4, SMTT(20) DEF Holds
<1>6. Holds(store, r + n, y)
  <2>1. ASSUME NEW i \in 1 .. Len(c) - n PROVE store[r + n + i] = y[i]
    <3>1. n + i \in 1 .. Len(c) /\ r + n + i = r + (n + i)
      BY <1>1
    <3>2. store[r + (n + i)] = c[n + i]
      BY <1>4, <3>1
    <3>3. QED
      BY <1>3, <3>1, <3>2
  <2>2. QED
    BY <1>1, <1>3, <1>4, <2>1 DEF Holds
<1>7. QED
  BY <1>1, <1>2, <1>3, <1>5, <1>6 DEF x, y

\* resize() in makeSpace() makes exactly the room asked for.
LEMMA GrowMakesRoom ==
    ASSUME NEW b, WellFormed(b), NEW len \in Nat, WritableBytes(b) < len
    PROVE  /\ WellFormed(Grow(b, len))
           /\ Content(Grow(b, len)) = Content(b)
           /\ ReadableBytes(Grow(b, len)) = ReadableBytes(b)
           /\ WritableBytes(Grow(b, len)) = len
           /\ Len(Grow(b, len).store) = b.writerIndex + len
<1> DEFINE store == b.store
           r == b.readerIndex
           w == b.writerIndex
           c == Content(b)
           s == Resize(store, w + len)
<1>1. /\ store \in Seq(Byte) /\ r \in Nat /\ w \in Nat
      /\ c \in Seq(Byte) /\ Len(c) = ReadableBytes(b)
      /\ w = r + Len(c) /\ w <= Len(store) /\ Len(store) < w + len
      /\ Holds(store, r, c)
  BY Sizes
<1>2. Grow(b, len) = With(s, r, w)
  BY DEF Grow
<1> HIDE DEF store, r, w, c
<1>3. /\ s \in Seq(Byte)
      /\ Len(s) = w + len
      /\ \A i \in 1 .. w : s[i] = store[i]
  <2>1. store \in Seq(Byte) /\ w \in Nat /\ w <= Len(store) /\ w + len \in Nat
    BY <1>1
  <2>2. Zero \in Byte
    BY BufferAssumption
  <2>3. QED
    BY <2>1, <2>2 DEF Resize
<1> HIDE DEF s
<1>4. Holds(s, r, c)
  <2>1. /\ r \in Nat /\ w \in Nat /\ Len(c) \in Nat /\ w = r + Len(c)
        /\ \A i \in 1 .. Len(c) : store[r + i] = c[i]
    BY <1>1 DEF Holds
  <2>2. QED
    BY <1>3, <2>1, SMTT(20) DEF Holds
<1>5. /\ WellFormed(With(s, r, r + Len(c)))
      /\ Content(With(s, r, r + Len(c))) = c
      /\ ReadableBytes(With(s, r, r + Len(c))) = Len(c)
      /\ WritableBytes(With(s, r, r + Len(c))) = Len(s) - (r + Len(c))
      /\ With(s, r, r + Len(c)).store = s
  <2>1. r \in Nat /\ s \in Seq(Byte) /\ c \in Seq(Byte)
    BY <1>1, <1>3
  <2>2. QED
    BY <1>4, <2>1, ContentOfWith, Zenon
<1>6. Len(s) - (r + Len(c)) = len
  <2>1. Len(s) = w + len /\ w = r + Len(c) /\ w \in Nat
    BY <1>1, <1>3
  <2>2. QED
    BY <2>1
<1>7. QED
  BY <1>1, <1>2, <1>3, <1>5, <1>6, Zenon DEF c, w

\* makeSpace() moves only towards the front, and then there is room enough.
LEMMA MoveMakesRoom ==
    ASSUME NEW b, WellFormed(b), NEW len \in Nat, WritableBytes(b) < len,
           FitsAfterMove(b, len)
    PROVE  /\ kCheapPrepend < b.readerIndex
           /\ WellFormed(MoveToFront(b))
           /\ Content(MoveToFront(b)) = Content(b)
           /\ ReadableBytes(MoveToFront(b)) = ReadableBytes(b)
           /\ WritableBytes(MoveToFront(b)) >= len
           /\ Len(MoveToFront(b).store) = Len(b.store)
<1> DEFINE n == ReadableBytes(b)
           c == Content(b)
           k == kCheapPrepend
           s == CopyTo(b.store, k, c)
<1>1. /\ b.store \in Seq(Byte) /\ n \in Nat /\ c \in Seq(Byte) /\ Len(c) = n
      /\ b.readerIndex \in Nat /\ WritableBytes(b) \in Nat
      /\ Len(b.store) = b.readerIndex + n + WritableBytes(b)
  BY Sizes
<1>2. /\ k \in Nat
      /\ k < b.readerIndex
      /\ k + n + len <= Len(b.store)
  BY <1>1, BufferAssumption DEF FitsAfterMove, PrependableBytes
<1>3. MoveToFront(b) = With(s, k, k + n)
  BY DEF MoveToFront
<1> HIDE DEF n, c, k
<1>4. k + Len(c) <= Len(b.store)
  BY <1>1, <1>2
<1>5. s \in Seq(Byte) /\ Len(s) = Len(b.store) /\ Holds(s, k, c)
  BY <1>1, <1>2, <1>4, CopyProperties, Zenon
<1> HIDE DEF s
<1>6. /\ WellFormed(With(s, k, k + Len(c)))
      /\ Content(With(s, k, k + Len(c))) = c
      /\ ReadableBytes(With(s, k, k + Len(c))) = Len(c)
      /\ WritableBytes(With(s, k, k + Len(c))) = Len(s) - (k + Len(c))
      /\ With(s, k, k + Len(c)).store = s
  BY <1>1, <1>2, <1>5, ContentOfWith, Zenon
<1>7. Len(s) - (k + Len(c)) >= len
  BY <1>1, <1>2, <1>5
<1>8. QED
  BY <1>1, <1>2, <1>3, <1>5, <1>6, <1>7, Zenon DEF n, c, k

\* ensureWritableBytes(len): the bytes stay, there is room for len more, and
\* the vector grows only if what it holds and len together need it.
LEMMA EnsureMakesRoom ==
    ASSUME NEW b, WellFormed(b), NEW len \in Nat
    PROVE  /\ WellFormed(EnsureWritableBytes(b, len))
           /\ Content(EnsureWritableBytes(b, len)) = Content(b)
           /\ ReadableBytes(EnsureWritableBytes(b, len)) = ReadableBytes(b)
           /\ WritableBytes(EnsureWritableBytes(b, len)) >= len
           /\ Len(EnsureWritableBytes(b, len).store) >= Len(b.store)
           /\ \/ Len(EnsureWritableBytes(b, len).store) = Len(b.store)
              \/ Len(EnsureWritableBytes(b, len).store)
                   <= kCheapPrepend + 2 * (ReadableBytes(b) + len)
<1>1. CASE WritableBytes(b) < len /\ FitsAfterMove(b, len)
  <2>1. EnsureWritableBytes(b, len) = MoveToFront(b)
    BY <1>1 DEF EnsureWritableBytes, MakeSpace
  <2>2. Len(b.store) \in Nat
    BY Sizes
  <2>3. QED
    BY <1>1, <2>1, <2>2, MoveMakesRoom
<1>2. CASE WritableBytes(b) < len /\ ~FitsAfterMove(b, len)
  <2>1. EnsureWritableBytes(b, len) = Grow(b, len)
    BY <1>2 DEF EnsureWritableBytes, MakeSpace
  <2>2. /\ WellFormed(Grow(b, len))
        /\ Content(Grow(b, len)) = Content(b)
        /\ ReadableBytes(Grow(b, len)) = ReadableBytes(b)
        /\ WritableBytes(Grow(b, len)) = len
        /\ Len(Grow(b, len).store) = b.writerIndex + len
    BY <1>2, GrowMakesRoom
  <2>3. b.writerIndex + len <= kCheapPrepend + 2 * (ReadableBytes(b) + len)
    <3>1. /\ b.readerIndex \in Nat /\ ReadableBytes(b) \in Nat
          /\ WritableBytes(b) \in Nat
          /\ b.writerIndex = b.readerIndex + ReadableBytes(b)
      BY Sizes
    <3>2. WritableBytes(b) + b.readerIndex < len + kCheapPrepend
      BY <1>2, <3>1, BufferAssumption DEF FitsAfterMove, PrependableBytes
    <3>3. QED
      BY <3>1, <3>2, BufferAssumption
  <2>4. b.writerIndex + len >= Len(b.store)
    BY <1>2, Sizes
  <2>5. QED
    BY <2>1, <2>2, <2>3, <2>4
<1>3. CASE ~(WritableBytes(b) < len)
  <2>1. EnsureWritableBytes(b, len) = b
    BY <1>3 DEF EnsureWritableBytes
  <2>2. QED
    BY <1>3, <2>1, Sizes
<1>4. QED
  BY <1>1, <1>2, <1>3

\* The copy and hasWritten() of append(), where there is room.
LEMMA AppendToRoomAppends ==
    ASSUME NEW b, WellFormed(b), NEW data \in Seq(Byte),
           Len(data) <= WritableBytes(b)
    PROVE  /\ WellFormed(AppendToRoom(b, data))
           /\ Content(AppendToRoom(b, data)) = Content(b) \o data
           /\ ReadableBytes(AppendToRoom(b, data)) = ReadableBytes(b) + Len(data)
           /\ Len(AppendToRoom(b, data).store) = Len(b.store)
<1> DEFINE store == b.store
           r == b.readerIndex
           at == b.writerIndex
           n == ReadableBytes(b)
           room == WritableBytes(b)
           k == Len(data)
           c == Content(b)
           s == CopyTo(store, at, data)
           d == c \o data
<1>1. /\ store \in Seq(Byte) /\ r \in Nat /\ at \in Nat /\ n \in Nat
      /\ room \in Nat
      /\ at = r + n /\ Len(store) = at + room
      /\ c \in Seq(Byte) /\ Len(c) = n
      /\ Holds(store, r, c)
  BY Sizes
<1>2. k \in Nat /\ k <= room /\ Len(data) = k
  OBVIOUS
<1>3. AppendToRoom(b, data) = With(s, r, at + k)
  BY DEF AppendToRoom
<1> HIDE DEF store, r, at, n, room, k, c
<1>4. at + Len(data) <= Len(store) /\ r + Len(c) <= at /\ r + Len(c) = at
  <2>1. at + k <= Len(store) /\ r + n <= at
    BY <1>1, <1>2
  <2>2. QED
    BY <1>1, <1>2, <2>1, Zenon
<1>5. s \in Seq(Byte) /\ Len(s) = Len(store) /\ Holds(s, at, data)
  BY <1>1, <1>4, CopyProperties, Zenon
<1>6. Holds(s, r, c)
  BY <1>1, <1>4, CopyKeeps, Zenon
<1> HIDE DEF s
<1>7. Holds(s, r + Len(c), data)
  BY <1>4, <1>5, Zenon
<1>8. d \in Seq(Byte) /\ Len(d) = Len(c) + Len(data) /\ Holds(s, r, d)
  <2>1. r \in Nat /\ s \in Seq(Byte) /\ c \in Seq(Byte)
    BY <1>1, <1>5
  <2>2. QED
    BY <1>6, <1>7, <2>1, HoldsBoth
<1> HIDE DEF d
<1>9. /\ WellFormed(With(s, r, r + Len(d)))
      /\ Content(With(s, r, r + Len(d))) = d
      /\ ReadableBytes(With(s, r, r + Len(d))) = Len(d)
      /\ With(s, r, r + Len(d)).store = s
  <2>1. r \in Nat /\ s \in Seq(Byte) /\ d \in Seq(Byte) /\ Holds(s, r, d)
    BY <1>1, <1>5, <1>8
  <2>2. QED
    BY <2>1, ContentOfWith, Zenon
<1>10. at + k = r + Len(d) /\ Len(d) = n + k
  BY <1>1, <1>2, <1>8
<1>11. QED
  BY <1>3, <1>5, <1>9, <1>10, Zenon DEF c, d, n, k, store

\* append() adds the data at the end of the content, whether it finds room,
\* moves or grows.
LEMMA AppendAppends ==
    ASSUME NEW b, WellFormed(b), NEW data \in Seq(Byte)
    PROVE  /\ WellFormed(AppendTo(b, data))
           /\ Content(AppendTo(b, data)) = Content(b) \o data
           /\ ReadableBytes(AppendTo(b, data)) = ReadableBytes(b) + Len(data)
           /\ Len(AppendTo(b, data).store) >= Len(b.store)
           /\ \/ Len(AppendTo(b, data).store) = Len(b.store)
              \/ Len(AppendTo(b, data).store)
                   <= kCheapPrepend + 2 * (ReadableBytes(b) + Len(data))
<1> DEFINE e == EnsureWritableBytes(b, Len(data))
<1>1. Len(data) \in Nat
  OBVIOUS
<1>2. /\ WellFormed(e)
      /\ Content(e) = Content(b)
      /\ ReadableBytes(e) = ReadableBytes(b)
      /\ WritableBytes(e) >= Len(data)
      /\ Len(e.store) >= Len(b.store)
      /\ \/ Len(e.store) = Len(b.store)
         \/ Len(e.store) <= kCheapPrepend + 2 * (ReadableBytes(b) + Len(data))
  BY <1>1, EnsureMakesRoom
<1>3. AppendTo(b, data) = AppendToRoom(e, data)
  BY DEF AppendTo
<1> HIDE DEF e
<1>4. WritableBytes(e) \in Nat
  BY <1>2, Sizes
<1>5. Len(data) <= WritableBytes(e)
  BY <1>1, <1>2, <1>4
<1>6. /\ WellFormed(AppendToRoom(e, data))
      /\ Content(AppendToRoom(e, data)) = Content(e) \o data
      /\ ReadableBytes(AppendToRoom(e, data)) = ReadableBytes(e) + Len(data)
      /\ Len(AppendToRoom(e, data).store) = Len(e.store)
  BY <1>2, <1>5, AppendToRoomAppends
<1>7. QED
  BY <1>2, <1>3, <1>6

LEMMA SplitSeq ==
    ASSUME NEW S, NEW s \in Seq(S), NEW n \in 0 .. Len(s)
    PROVE  /\ SubSeq(s, 1, n) \in Seq(S)
           /\ SubSeq(s, n + 1, Len(s)) \in Seq(S)
           /\ Len(SubSeq(s, 1, n)) = n
           /\ Len(SubSeq(s, n + 1, Len(s))) = Len(s) - n
           /\ SubSeq(s, 1, n) \o SubSeq(s, n + 1, Len(s)) = s
<1>1. Len(s) \in Nat /\ n \in Nat /\ n <= Len(s)
  OBVIOUS
<1>2. SubSeq(s, 1, n) \in Seq(S) /\ Len(SubSeq(s, 1, n)) = n
  BY <1>1
<1>3. /\ SubSeq(s, n + 1, Len(s)) \in Seq(S)
      /\ Len(SubSeq(s, n + 1, Len(s))) = Len(s) - n
  BY <1>1
<1>4. SubSeq(s, 1, n) \o SubSeq(s, n + 1, Len(s)) = SubSeq(s, 1, Len(s))
  <2>1. 1 \in 1 .. Len(s) + 1 /\ n \in 1 - 1 .. Len(s) /\ Len(s) \in n .. Len(s)
    BY <1>1
  <2>2. QED
    BY <2>1, ConcatAdjacentSubSeq
<1>5. SubSeq(s, 1, Len(s)) = s
  BY SubSeqFull
<1>6. QED
  BY <1>2, <1>3, <1>4, <1>5

\* readFd() adds what readv() returned, across the buffer and extrabuf.
LEMMA ReadFdAppends ==
    ASSUME NEW b, WellFormed(b), NEW data \in Seq(Byte)
    PROVE  /\ WellFormed(ReadFdInto(b, data))
           /\ Content(ReadFdInto(b, data)) = Content(b) \o data
           /\ ReadableBytes(ReadFdInto(b, data)) = ReadableBytes(b) + Len(data)
           /\ Len(ReadFdInto(b, data).store) >= Len(b.store)
           /\ \/ Len(ReadFdInto(b, data).store) = Len(b.store)
              \/ Len(ReadFdInto(b, data).store)
                   <= kCheapPrepend + 2 * (ReadableBytes(b) + Len(data))
<1>1. CASE Len(data) <= WritableBytes(b)
  <2>1. Len(b.store) \in Nat
    BY Sizes
  <2>2. QED
    BY <1>1, <2>1, AppendToRoomAppends DEF ReadFdInto
<1>2. CASE ~(Len(data) <= WritableBytes(b))
  <2> DEFINE n == WritableBytes(b)
             x == SubSeq(data, 1, n)
             y == SubSeq(data, n + 1, Len(data))
             m == AppendToRoom(b, x)
  <2>1. /\ n \in Nat /\ ReadableBytes(b) \in Nat /\ Content(b) \in Seq(Byte)
    BY Sizes
  <2>2. n \in 0 .. Len(data)
    BY <1>2, <2>1
  <2>3. /\ x \in Seq(Byte) /\ Len(x) = n
        /\ y \in Seq(Byte) /\ Len(y) = Len(data) - n
        /\ x \o y = data
    BY <2>2, SplitSeq
  <2>4. ReadFdInto(b, data) = AppendTo(m, y)
    BY <1>2 DEF ReadFdInto
  <2> HIDE DEF x, y
  <2>5. /\ WellFormed(m)
        /\ Content(m) = Content(b) \o x
        /\ ReadableBytes(m) = ReadableBytes(b) + n
        /\ Len(m.store) = Len(b.store)
    <3>1. n <= WritableBytes(b) /\ Len(x) <= WritableBytes(b)
      BY <2>1, <2>3
    <3>2. QED
      BY <2>3, <3>1, AppendToRoomAppends
  <2> HIDE DEF m
  <2>6. /\ WellFormed(AppendTo(m, y))
        /\ Content(AppendTo(m, y)) = Content(m) \o y
        /\ ReadableBytes(AppendTo(m, y)) = ReadableBytes(m) + Len(y)
        /\ Len(AppendTo(m, y).store) >= Len(m.store)
        /\ \/ Len(AppendTo(m, y).store) = Len(m.store)
           \/ Len(AppendTo(m, y).store)
                <= kCheapPrepend + 2 * (ReadableBytes(m) + Len(y))
    BY <2>3, <2>5, AppendAppends
  <2>7. (Content(b) \o x) \o y = Content(b) \o data
    <3>1. \A p, q, u \in Seq(Byte) : (p \o q) \o u = p \o (q \o u)
      BY ConcatAssociative
    <3>2. QED
      BY <2>1, <2>3, <3>1, Zenon
  <2>8. ReadableBytes(m) + Len(y) = ReadableBytes(b) + Len(data)
    BY <2>1, <2>3, <2>5
  <2>9. QED
    BY <2>4, <2>5, <2>6, <2>7, <2>8
<1>3. QED
  BY <1>1, <1>2

\* retrieve() takes the first bytes away, and retrieveAll() all of them.
LEMMA RetrieveAllRetrieves ==
    ASSUME NEW b, WellFormed(b), kCheapPrepend <= Len(b.store)
    PROVE  /\ WellFormed(RetrieveAllFrom(b))
           /\ Content(RetrieveAllFrom(b)) = <<>>
           /\ Content(RetrieveAllFrom(b)) = SubSeq(Content(b), Len(Content(b)) + 1, Len(Content(b)))
           /\ RetrieveAllFrom(b).store = b.store
<1> DEFINE k == kCheapPrepend
           e == SubSeq(b.store, 1, 0)
           c == Content(b)
<1>1. /\ k \in Nat /\ b.store \in Seq(Byte) /\ c \in Seq(Byte) /\ k <= Len(b.store)
  BY BufferAssumption, Sizes
<1>2. e \in Seq(Byte) /\ Len(e) = 0 /\ e = <<>>
  BY <1>1
<1>3. SubSeq(c, Len(c) + 1, Len(c)) = <<>>
  <2> HIDE DEF c
  <2>1. Len(c) \in Nat
    BY <1>1
  <2>2. QED
    BY <1>1, <2>1
<1>4. RetrieveAllFrom(b) = With(b.store, k, k)
  BY DEF RetrieveAllFrom
<1> HIDE DEF k, e, c
<1>5. Holds(b.store, k, e)
  BY <1>1, <1>2 DEF Holds
<1>6. k + Len(e) = k
  BY <1>1, <1>2
<1>7. /\ WellFormed(With(b.store, k, k + Len(e)))
      /\ Content(With(b.store, k, k + Len(e))) = e
      /\ With(b.store, k, k + Len(e)).store = b.store
  BY <1>1, <1>2, <1>5, ContentOfWith, Zenon
<1>8. QED
  BY <1>2, <1>3, <1>4, <1>6, <1>7, Zenon DEF c

LEMMA RetrieveRetrieves ==
    ASSUME NEW b, WellFormed(b), kCheapPrepend <= Len(b.store),
           NEW len \in Nat, len <= ReadableBytes(b)
    PROVE  /\ WellFormed(RetrieveFrom(b, len))
           /\ Content(RetrieveFrom(b, len)) = SubSeq(Content(b), len + 1, Len(Content(b)))
           /\ RetrieveFrom(b, len).store = b.store
<1>1. CASE len < ReadableBytes(b)
  <2> DEFINE store == b.store
             r == b.readerIndex
             w == b.writerIndex
             c == Content(b)
             d == SubSeq(c, len + 1, Len(c))
  <2>1. /\ store \in Seq(Byte) /\ r \in Nat /\ c \in Seq(Byte)
        /\ Len(c) = ReadableBytes(b) /\ w = r + Len(c)
        /\ Holds(store, r, c)
    BY Sizes
  <2>2. RetrieveFrom(b, len) = With(store, r + len, w)
    BY <1>1 DEF RetrieveFrom
  <2> HIDE DEF store, r, w, c
  <2>3. len \in 0 .. Len(c)
    BY <2>1
  <2>4. d \in Seq(Byte) /\ Len(d) = Len(c) - len /\ Holds(store, r + len, d)
    BY <2>1, <2>3, HoldsParts
  <2> HIDE DEF d
  <2>5. r + len \in Nat /\ (r + len) + Len(d) = w
    BY <2>1, <2>4
  <2>6. /\ WellFormed(With(store, r + len, (r + len) + Len(d)))
        /\ Content(With(store, r + len, (r + len) + Len(d))) = d
        /\ With(store, r + len, (r + len) + Len(d)).store = store
    <3>1. store \in Seq(Byte) /\ d \in Seq(Byte) /\ r + len \in Nat
      BY <2>1, <2>4, <2>5
    <3>2. QED
      BY <2>4, <3>1, ContentOfWith, Zenon
  <2>7. QED
    BY <2>2, <2>5, <2>6, Zenon DEF d, c, store
<1>2. CASE ~(len < ReadableBytes(b))
  <2>1. len = Len(Content(b))
    BY <1>2, Sizes
  <2>2. RetrieveFrom(b, len) = RetrieveAllFrom(b)
    BY <1>2 DEF RetrieveFrom
  <2>3. QED
    BY <2>1, <2>2, RetrieveAllRetrieves
<1>3. QED
  BY <1>1, <1>2

\* unwrite() takes the last bytes away.
LEMMA UnwriteUnwrites ==
    ASSUME NEW b, WellFormed(b), NEW len \in Nat, len <= ReadableBytes(b)
    PROVE  /\ WellFormed(UnwriteFrom(b, len))
           /\ Content(UnwriteFrom(b, len)) = SubSeq(Content(b), 1, Len(Content(b)) - len)
           /\ UnwriteFrom(b, len).store = b.store
<1> DEFINE store == b.store
           r == b.readerIndex
           w == b.writerIndex
           c == Content(b)
           n == Len(c) - len
           d == SubSeq(c, 1, n)
<1>1. /\ store \in Seq(Byte) /\ r \in Nat /\ c \in Seq(Byte)
      /\ Len(c) = ReadableBytes(b) /\ w = r + Len(c)
      /\ Holds(store, r, c)
  BY Sizes
<1>2. UnwriteFrom(b, len) = With(store, r, w - len)
  BY DEF UnwriteFrom
<1> HIDE DEF store, r, w, c
<1>3. n \in 0 .. Len(c) /\ r + n = w - len
  BY <1>1
<1> HIDE DEF n
<1>4. d \in Seq(Byte) /\ Len(d) = n /\ Holds(store, r, d)
  BY <1>1, <1>3, HoldsParts
<1> HIDE DEF d
<1>5. /\ WellFormed(With(store, r, r + Len(d)))
      /\ Content(With(store, r, r + Len(d))) = d
      /\ With(store, r, r + Len(d)).store = store
  <2>1. store \in Seq(Byte) /\ d \in Seq(Byte) /\ r \in Nat
    BY <1>1, <1>4
  <2>2. QED
    BY <1>4, <2>1, ContentOfWith, Zenon
<1>6. QED
  BY <1>2, <1>3, <1>4, <1>5, Zenon DEF d, n, c, store

\* prepend() puts the data before what is there.
LEMMA PrependPrepends ==
    ASSUME NEW b, WellFormed(b), NEW data \in Seq(Byte),
           Len(data) <= PrependableBytes(b)
    PROVE  /\ WellFormed(PrependTo(b, data))
           /\ Content(PrependTo(b, data)) = data \o Content(b)
           /\ Len(PrependTo(b, data).store) = Len(b.store)
<1> DEFINE store == b.store
           r == b.readerIndex
           w == b.writerIndex
           c == Content(b)
           at == r - Len(data)
           s == CopyTo(store, at, data)
           d == data \o c
<1>1. /\ store \in Seq(Byte) /\ r \in Nat /\ c \in Seq(Byte)
      /\ w = r + Len(c) /\ Holds(store, r, c)
  BY Sizes
<1>2. Len(data) \in Nat /\ Len(data) <= r
  BY DEF PrependableBytes
<1>3. PrependTo(b, data) = With(s, at, w)
  BY DEF PrependTo
<1> HIDE DEF store, r, w, c
<1>4. at \in Nat /\ at + Len(data) = r /\ at + Len(data) <= r
  BY <1>1, <1>2
<1> HIDE DEF at
<1>5. at + Len(data) <= Len(store)
  <2>1. Len(store) \in Nat /\ Len(c) \in Nat /\ r + Len(c) <= Len(store)
    BY <1>1 DEF Holds
  <2>2. QED
    BY <1>1, <1>4, <2>1
<1>6. s \in Seq(Byte) /\ Len(s) = Len(store) /\ Holds(s, at, data)
  BY <1>1, <1>4, <1>5, CopyProperties, Zenon
<1>7. Holds(s, r, c)
  BY <1>1, <1>4, <1>5, CopyKeeps, Zenon
<1> HIDE DEF s
<1>8. Holds(s, at + Len(data), c)
  BY <1>4, <1>7, Zenon
<1>9. d \in Seq(Byte) /\ Len(d) = Len(data) + Len(c) /\ Holds(s, at, d)
  BY <1>1, <1>4, <1>6, <1>8, HoldsBoth
<1> HIDE DEF d
<1>10. at + Len(d) = w
  <2>1. Len(d) = Len(data) + Len(c) /\ Len(c) \in Nat /\ w = r + Len(c)
    BY <1>1, <1>9
  <2>2. at \in Nat /\ r = at + Len(data)
    BY <1>4
  <2>3. QED
    BY <1>2, <2>1, <2>2
<1>11. /\ WellFormed(With(s, at, at + Len(d)))
       /\ Content(With(s, at, at + Len(d))) = d
       /\ With(s, at, at + Len(d)).store = s
  <2>1. s \in Seq(Byte) /\ d \in Seq(Byte) /\ at \in Nat
    BY <1>4, <1>6, <1>9
  <2>2. QED
    BY <1>9, <2>1, ContentOfWith, Zenon
<1>12. QED
  BY <1>3, <1>6, <1>10, <1>11, Zenon DEF d, c, store

-------------------------------------------------------------------------------
\* Indices in order, with the room for prepending always there, and a vector
\* that was never longer than the history justifies.
IInv ==
    /\ WellFormed(buffer)
    /\ kCheapPrepend <= Len(buffer.store)
    /\ peak \in Nat
    /\ ReadableBytes(buffer) <= peak
    /\ MemoryBounded

\* What the buffer of a next state is like.
Follows(b) ==
    /\ WellFormed(b)
    /\ Len(b.store) >= Len(buffer.store)
    /\ \/ Len(b.store) = Len(buffer.store)
       \/ Len(b.store) <= kCheapPrepend + 2 * ReadableBytes(b)

LEMMA BoundGrows ==
    ASSUME NEW cheap \in Nat, NEW initial \in Nat, NEW p \in Nat, NEW q \in Nat,
           NEW l \in Nat, NEW old \in Nat, NEW n \in Nat,
           p <= q, n <= q, l = old \/ l <= cheap + 2 * n,
           old <= cheap + (IF 2 * p > initial THEN 2 * p ELSE initial)
    PROVE  l <= cheap + (IF 2 * q > initial THEN 2 * q ELSE initial)
<1>1. CASE l <= cheap + 2 * n
  <2>1. l <= cheap + 2 * q
    BY <1>1
  <2>2. QED
    BY <2>1
<1>2. CASE l = old
  BY <1>2
<1>3. QED
  BY <1>1, <1>2

LEMMA BecomesKeeps ==
    ASSUME IInv, NEW b, Follows(b), Becomes(b)
    PROVE  IInv'
<1> DEFINE n == ReadableBytes(b)
           l == Len(b.store)
           old == Len(buffer.store)
<1>1. n \in Nat /\ l \in Nat /\ old \in Nat
  BY Sizes DEF Follows, IInv
<1>2. /\ kCheapPrepend \in Nat /\ kInitialSize \in Nat
      /\ kCheapPrepend <= old /\ peak \in Nat
      /\ old <= kCheapPrepend + (IF 2 * peak > kInitialSize THEN 2 * peak ELSE kInitialSize)
  BY BufferAssumption DEF IInv, MemoryBounded
<1>3. l >= old /\ (l = old \/ l <= kCheapPrepend + 2 * n)
  BY DEF Follows
<1>4. buffer' = b /\ peak' = IF n > peak THEN n ELSE peak
  BY DEF Becomes
<1>5. ReadableBytes(buffer)' = n /\ Len(buffer.store)' = l
  BY <1>4 DEF ReadableBytes
<1>6. WellFormed(buffer)'
  BY <1>4 DEF Follows, WellFormed
<1> HIDE DEF n, l, old
<1>7. peak' \in Nat /\ n <= peak' /\ peak <= peak'
  BY <1>1, <1>2, <1>4
<1>8. l <= kCheapPrepend + (IF 2 * peak' > kInitialSize THEN 2 * peak' ELSE kInitialSize)
  BY <1>1, <1>2, <1>3, <1>7, BoundGrows, Zenon
<1>9. kCheapPrepend <= l
  BY <1>1, <1>2, <1>3
<1>10. QED
  BY <1>5, <1>6, <1>7, <1>8, <1>9 DEF IInv, MemoryBounded

LEMMA InitHolds == Init => IInv /\ Stream!Init
<1> SUFFICES ASSUME Init PROVE IInv /\ Stream!Init
  OBVIOUS
<1> DEFINE k == kCheapPrepend
           store == [i \in 1 .. k + kInitialSize |-> Zero]
           e == SubSeq(store, 1, 0)
<1>1. k \in Nat /\ kInitialSize \in Nat /\ Zero \in Byte
  BY BufferAssumption
<1>2. store \in Seq(Byte) /\ Len(store) = k + kInitialSize
  BY <1>1
<1>3. buffer = With(store, k, k) /\ peak = 0
  BY DEF Init, EmptyBuffer
<1> HIDE DEF k, store
<1>4. e \in Seq(Byte) /\ Len(e) = 0 /\ e = <<>>
  BY <1>2
<1> HIDE DEF e
<1>5. Holds(store, k, e) /\ k + Len(e) = k
  BY <1>1, <1>2, <1>4 DEF Holds
<1>6. /\ WellFormed(With(store, k, k + Len(e)))
      /\ Content(With(store, k, k + Len(e))) = e
      /\ ReadableBytes(With(store, k, k + Len(e))) = Len(e)
      /\ With(store, k, k + Len(e)).store = store
  BY <1>1, <1>2, <1>4, <1>5, ContentOfWith, Zenon
<1>7. /\ WellFormed(buffer) /\ Content(buffer) = <<>>
      /\ ReadableBytes(buffer) = 0 /\ buffer.store = store
  BY <1>3, <1>4, <1>5, <1>6, Zenon
<1>8. k <= Len(buffer.store) /\ MemoryBounded
  BY <1>1, <1>2, <1>3, <1>7 DEF MemoryBounded, k
<1>9. QED
  BY <1>3, <1>7, <1>8 DEF IInv, Stream!Init, k

\* Each operation leads to a buffer that follows, and is a step of the stream.
LEMMA ExtendStep ==
    ASSUME IInv, NEW data \in Data, Extend(data)
    PROVE  IInv' /\ Content(buffer') = Content(buffer) \o data
<1>1. WellFormed(buffer) /\ data \in Seq(Byte)
  BY BufferAssumption DEF IInv
<1>2. Follows(AppendTo(buffer, data)) /\ Content(AppendTo(buffer, data)) = Content(buffer) \o data
  BY <1>1, AppendAppends DEF Follows
<1>3. Becomes(AppendTo(buffer, data))
  BY DEF Extend
<1>4. QED
  BY <1>2, <1>3, BecomesKeeps DEF Becomes

LEMMA ReadFdStep ==
    ASSUME IInv, NEW data \in Data, ReadFd(data)
    PROVE  IInv' /\ Content(buffer') = Content(buffer) \o data
<1>1. WellFormed(buffer) /\ data \in Seq(Byte)
  BY BufferAssumption DEF IInv
<1>2. Follows(ReadFdInto(buffer, data)) /\ Content(ReadFdInto(buffer, data)) = Content(buffer) \o data
  BY <1>1, ReadFdAppends DEF Follows
<1>3. Becomes(ReadFdInto(buffer, data))
  BY DEF ReadFd
<1>4. QED
  BY <1>2, <1>3, BecomesKeeps DEF Becomes

LEMMA PrependStep ==
    ASSUME IInv, NEW data \in Data, Prepend(data)
    PROVE  IInv' /\ Content(buffer') = data \o Content(buffer)
<1>1. /\ WellFormed(buffer) /\ data \in Seq(Byte)
      /\ Len(data) <= PrependableBytes(buffer)
  BY BufferAssumption DEF IInv, Prepend
<1>2. Follows(PrependTo(buffer, data)) /\ Content(PrependTo(buffer, data)) = data \o Content(buffer)
  <2>1. Len(buffer.store) \in Nat
    BY <1>1, Sizes
  <2>2. QED
    BY <1>1, <2>1, PrependPrepends DEF Follows
<1>3. Becomes(PrependTo(buffer, data))
  BY DEF Prepend
<1>4. QED
  BY <1>2, <1>3, BecomesKeeps DEF Becomes

LEMMA RetrieveStep ==
    ASSUME IInv, NEW len \in Nat, Retrieve(len)
    PROVE  /\ IInv'
           /\ len \in 0 .. Len(Content(buffer))
           /\ Content(buffer') = SubSeq(Content(buffer), len + 1, Len(Content(buffer)))
<1>1. /\ WellFormed(buffer) /\ kCheapPrepend <= Len(buffer.store)
      /\ len <= ReadableBytes(buffer)
  BY DEF IInv, Retrieve
<1>2. /\ Len(buffer.store) \in Nat
      /\ len \in 0 .. Len(Content(buffer))
  BY <1>1, Sizes
<1>3. /\ Follows(RetrieveFrom(buffer, len))
      /\ Content(RetrieveFrom(buffer, len))
           = SubSeq(Content(buffer), len + 1, Len(Content(buffer)))
  BY <1>1, <1>2, RetrieveRetrieves DEF Follows
<1>4. Becomes(RetrieveFrom(buffer, len))
  BY DEF Retrieve
<1>5. QED
  BY <1>2, <1>3, <1>4, BecomesKeeps DEF Becomes

LEMMA RetrieveAllStep ==
    ASSUME IInv, RetrieveAll
    PROVE  /\ IInv'
           /\ Content(buffer')
                = SubSeq(Content(buffer), Len(Content(buffer)) + 1, Len(Content(buffer)))
<1>1. WellFormed(buffer) /\ kCheapPrepend <= Len(buffer.store)
  BY DEF IInv
<1>2. Len(buffer.store) \in Nat
  BY <1>1, Sizes
<1>3. /\ Follows(RetrieveAllFrom(buffer))
      /\ Content(RetrieveAllFrom(buffer))
           = SubSeq(Content(buffer), Len(Content(buffer)) + 1, Len(Content(buffer)))
  BY <1>1, <1>2, RetrieveAllRetrieves DEF Follows
<1>4. Becomes(RetrieveAllFrom(buffer))
  BY DEF RetrieveAll
<1>5. QED
  BY <1>3, <1>4, BecomesKeeps DEF Becomes

LEMMA UnwriteStep ==
    ASSUME IInv, NEW len \in Nat, Unwrite(len)
    PROVE  /\ IInv'
           /\ len \in 0 .. Len(Content(buffer))
           /\ Content(buffer') = SubSeq(Content(buffer), 1, Len(Content(buffer)) - len)
<1>1. WellFormed(buffer) /\ len <= ReadableBytes(buffer)
  BY DEF IInv, Unwrite
<1>2. /\ Len(buffer.store) \in Nat
      /\ len \in 0 .. Len(Content(buffer))
  BY <1>1, Sizes
<1>3. /\ Follows(UnwriteFrom(buffer, len))
      /\ Content(UnwriteFrom(buffer, len))
           = SubSeq(Content(buffer), 1, Len(Content(buffer)) - len)
  BY <1>1, <1>2, UnwriteUnwrites DEF Follows
<1>4. Becomes(UnwriteFrom(buffer, len))
  BY DEF Unwrite
<1>5. QED
  BY <1>2, <1>3, <1>4, BecomesKeeps DEF Becomes

LEMMA NextHolds ==
    ASSUME IInv, [Next]_vars
    PROVE  IInv' /\ [Stream!Next]_(Content(buffer))
<1>1. ASSUME NEW data \in Data, Extend(data)
      PROVE  IInv' /\ Stream!Next
  BY <1>1, ExtendStep DEF Stream!Next, Stream!Extend
<1>2. ASSUME NEW data \in Data, ReadFd(data)
      PROVE  IInv' /\ Stream!Next
  BY <1>2, ReadFdStep DEF Stream!Next, Stream!Extend
<1>3. ASSUME NEW data \in Data, Prepend(data)
      PROVE  IInv' /\ Stream!Next
  BY <1>3, PrependStep DEF Stream!Next, Stream!Prepend
<1>4. ASSUME NEW len \in 0 .. MaxBytes, Retrieve(len)
      PROVE  IInv' /\ Stream!Next
  BY <1>4, RetrieveStep, BufferAssumption DEF Stream!Next, Stream!Retrieve
<1>5. ASSUME NEW len \in 0 .. MaxBytes, Unwrite(len)
      PROVE  IInv' /\ Stream!Next
  BY <1>5, UnwriteStep, BufferAssumption DEF Stream!Next, Stream!Unwrite
<1>6. CASE RetrieveAll
  <2>1. Len(Content(buffer)) \in 0 .. Len(Content(buffer))
    BY Sizes DEF IInv
  <2>2. QED
    BY <1>6, <2>1, RetrieveAllStep DEF Stream!Next, Stream!Retrieve
<1>7. CASE UNCHANGED vars
  BY <1>7 DEF vars, IInv, WellFormed, ReadableBytes, MemoryBounded, Content
<1>8. QED
  BY <1>1, <1>2, <1>3, <1>4, <1>5, <1>6, <1>7 DEF Next

LEMMA IInvariant == Spec => []IInv
<1>1. Init => IInv
  BY InitHolds
<1>2. IInv /\ [Next]_vars => IInv'
  BY NextHolds
<1>3. QED
  BY <1>1, <1>2, PTL DEF Spec

\* The indices of a Buffer are always in order and inside its vector, for every
\* initial size, prepend size and extrabuf.
THEOREM TypeCorrect == Spec => []TypeOK
<1>1. IInv => TypeOK
  BY DEF IInv, TypeOK, WellFormed
<1>2. QED
  BY <1>1, IInvariant, PTL

\* makeSpace() moves readable data only towards the front.
THEOREM MovesToFront == Spec => []MovesOnlyToFront
<1>1. IInv => MovesOnlyToFront
  BY MoveMakesRoom, BufferAssumption DEF IInv, MovesOnlyToFront
<1>2. QED
  BY <1>1, IInvariant, PTL

\* The vector of a Buffer is bounded by the most bytes it had to keep.
THEOREM MemoryStaysBounded == Spec => []MemoryBounded
<1>1. IInv => MemoryBounded
  BY DEF IInv
<1>2. QED
  BY <1>1, IInvariant, PTL

\* A Buffer implements the stream of bytes, for every set of bytes.
THEOREM ImplementsByteStream == Spec => ImplementsStream
<1>1. Init => Stream!Init
  BY InitHolds
<1>2. IInv /\ [Next]_vars => [Stream!Next]_(Content(buffer))
  BY NextHolds
<1>3. QED
  BY <1>1, <1>2, IInvariant, PTL DEF Spec, ImplementsStream, Stream!Spec
===============================================================================
