------------------------- MODULE SocketBufferProofs -------------------------
(***************************************************************************)
(* Proofs about SocketBuffer.tla, for any streams and any sizes: the       *)
(* buffer keeps to its ranges, it cuts the stream into the requests that   *)
(* RequestStream.tla promises, and it refuses a line only when the bytes   *)
(* seen so far cannot begin one.                                           *)
(***************************************************************************)
EXTENDS SocketBuffer, ProofBasics, SequenceTheorems

-----------------------------------------------------------------------------
(* The inductive invariant.                                                *)

Bytes == RS!Bytes

InHead == phase \in {"RequestLine", "Headers"}

\* A buffer is what a recv() returned, or -1 and nothing.
Filled(d, p, sz) ==
    /\ d \in Seq(Bytes)
    /\ Len(d) <= DataSize
    /\ p \in 0 .. Len(d)
    /\ sz = Len(d) \/ (sz = -1 /\ d = <<>>)

BufferInv ==
    /\ wire \in Seq(Bytes)
    /\ Filled(data, pos, size)
    /\ limitLeft \in 0 .. (HeadLimit + BodyLimit)
    /\ cause \in {"none", "limit", "recv", "line"}
    /\ lostBody \in BOOLEAN

\* What a head may still receive and what it has received are its limit at most.
HeadInv ==
    /\ headBytes \in 0 .. HeadLimit
    /\ InHead => headBytes + limitLeft <= HeadLimit
    /\ phase = "Body" => headBytes = 0

\* A line that is being read can still become one; the '\r' that ended it is
\* next in the buffer until buffer_accept has taken it.
LineInv ==
    /\ line \in Seq(Bytes)
    /\ Len(line) < LineSize
    /\ \A i \in 1 .. Len(line) : line[i] # "R" /\ line[i] # "Z"
    /\ accepting \in 0 .. 2
    /\ phase = "Body" => line = <<>> /\ accepting = 0
    /\ accepting = 2 => pos < size /\ data[pos + 1] = "R"

RequestInv ==
    /\ phase \in {"RequestLine", "Headers", "Body", "Closed", "Crashed"}
    /\ path \in {"test", "page"}
    /\ contentLength \in {0, BodyLength}
    /\ body \in Seq(Bytes)
    /\ Len(body) <= contentLength
    /\ phase # "Body" => body = <<>>

\* A failed recv() goes unnoticed only by buffer_read_amount, and the next line
\* is the first read to meet what it left.
FailedInv ==
    size < 0 /\ ~Ended =>
        /\ lostBody
        /\ phase = "RequestLine"
        /\ line = <<>>
        /\ accepting = 0
        /\ cause = "recv"

SocketInv == BufferInv /\ HeadInv /\ LineInv /\ RequestInv /\ FailedInv

-----------------------------------------------------------------------------
(* What buffer_peek returns.                                               *)

\* The bytes of a buffer that have not been consumed.
Ahead(d, p, sz) == IF sz < 0 THEN <<>> ELSE SubSeq(d, p + 1, sz)

\* A peek gets what recv() has returned without losing a byte, charges the
\* limit with at least that much, and only fails with nothing buffered.
PeekTold(r) ==
    /\ Filled(r.data, r.pos, r.size)
    /\ r.wire \in Seq(Bytes)
    /\ r.limit \in 0 .. limitLeft
    /\ r.got \in Int
    /\ r.got + r.limit <= limitLeft
    /\ Ahead(r.data, r.pos, r.size) \o r.wire = Buffered \o wire
    /\ r.ok \in BOOLEAN
    /\ r.ok => /\ r.pos < r.size
               /\ SubSeq(r.data, r.pos + 1, r.size)
                    = Buffered \o SubSeq(wire, 1, Len(wire) - Len(r.wire))
    /\ ~r.ok => r.why \in {"limit", "recv"} /\ r.size - r.pos <= 0
    /\ ~r.ok /\ r.size < 0 => r.why = "recv"
    /\ r.ok => r.why = "none"
    /\ pos < size => r.data = data /\ r.pos = pos /\ r.size = size /\ r.ok

LEMMA FilledAhead ==
  ASSUME NEW d, NEW p, NEW sz, Filled(d, p, sz)
  PROVE  /\ Ahead(d, p, sz) \in Seq(Bytes)
         /\ sz >= 0 => Len(Ahead(d, p, sz)) = sz - p
         /\ sz >= 0 => \A i \in 1 .. sz - p : Ahead(d, p, sz)[i] = d[p + i]
<1> d \in Seq(Bytes) /\ Len(d) \in Nat /\ sz \in Int
  BY DEF Filled
<1>1. CASE sz < 0
  <2>1. <<>> \in Seq(Bytes)
    BY EmptySeq
  <2> QED
    BY <1>1, <2>1 DEF Ahead
<1>2. CASE sz >= 0
  <2>1. d \in Seq(Bytes) /\ sz = Len(d) /\ p \in 0 .. Len(d) /\ Len(d) \in Nat
    BY <1>2 DEF Filled
  <2>2. /\ SubSeq(d, p + 1, sz) \in Seq(Bytes)
        /\ Len(SubSeq(d, p + 1, sz)) = IF p + 1 <= sz THEN sz - (p + 1) + 1 ELSE 0
        /\ \A i \in 1 .. sz - (p + 1) + 1 : SubSeq(d, p + 1, sz)[i] = d[(p + 1) + i - 1]
    <3>1. p + 1 \in Int /\ sz \in Int /\ \A i \in p + 1 .. sz : d[i] \in Bytes
      BY <2>1, LenProperties
    <3> QED
      BY <3>1, SubSeqProperties
  <2>3. \A i \in 1 .. sz - p : (p + 1) + i - 1 = p + i
    BY <2>1
  <2> DEFINE a == SubSeq(d, p + 1, sz)
  <2>4. a = Ahead(d, p, sz)
    <3>1. ~(sz < 0)
      BY <1>2
    <3> QED
      BY <3>1, Zenon DEF Ahead
  <2>5. a \in Seq(Bytes) /\ Len(a) = sz - p
    BY <2>1, <2>2
  <2>6. \A i \in 1 .. sz - p : a[i] = d[p + i]
    BY <2>1, <2>2, <2>3
  <2> QED
    BY <2>4, <2>5, <2>6
<1> QED
  BY <1>1, <1>2

\* buffer_fill_read when the limit allows n bytes and recv() returns k.
LEMMA FillTold ==
  ASSUME BufferInv, size - pos = 0, NEW n \in Nat \ {0}, n <= DataSize, n <= limitLeft,
         NEW k \in Int, k = -1 \/ (k = 0 /\ wire = <<>>) \/ (k >= 1 /\ k <= n /\ k <= Len(wire))
  PROVE  PeekTold(Peeked(k > 0, SubSeq(wire, 1, k), 0, k, limitLeft - n, Beyond(k), k,
                         IF k > 0 THEN "none" ELSE "recv"))
<1> DEFINE d == SubSeq(wire, 1, k)
           w == Beyond(k)
           why == IF k > 0 THEN "none" ELSE "recv"
           r == Peeked(k > 0, d, 0, k, limitLeft - n, w, k, why)
<1>1. /\ r.data = d /\ r.pos = 0 /\ r.size = k /\ r.wire = w /\ r.got = k
      /\ r.limit = limitLeft - n /\ r.ok = (k > 0) /\ r.why = why
  BY DEF Peeked
<1> HIDE DEF r
<1>2. wire \in Seq(Bytes) /\ Len(wire) \in Nat /\ limitLeft \in Int
  BY SizesAssumption DEF BufferInv
<1>3. Buffered = <<>>
  <2>1. CASE size < 0
    BY <2>1 DEF Buffered
  <2>2. CASE ~(size < 0)
    <3>1. data \in Seq(Bytes) /\ pos \in Int /\ size \in Int /\ size < pos + 1
      BY DEF BufferInv, Filled
    <3>2. SubSeq(data, pos + 1, size) = <<>>
      BY <3>1, SubSeqEmpty
    <3> QED
      BY <2>2, <3>2 DEF Buffered
  <2> QED
    BY <2>1, <2>2
<1>4. CASE k > 0
  <2>1. /\ d \in Seq(Bytes) /\ Len(d) = k
        /\ w \in Seq(Bytes) /\ Len(w) = Len(wire) - k
        /\ w = SubSeq(wire, k + 1, Len(wire))
    <3>1. w = SubSeq(wire, k + 1, Len(wire))
      BY <1>4 DEF Beyond
    <3>2. 1 \in Int /\ k + 1 \in Int /\ Len(wire) \in Int
          /\ (\A i \in 1 .. k : wire[i] \in Bytes)
          /\ (\A i \in k + 1 .. Len(wire) : wire[i] \in Bytes)
      BY <1>2, <1>4
    <3>3. d \in Seq(Bytes) /\ Len(d) = IF 1 <= k THEN k - 1 + 1 ELSE 0
      BY <3>2, SubSeqProperties
    <3>4. SubSeq(wire, k + 1, Len(wire)) \in Seq(Bytes)
          /\ Len(SubSeq(wire, k + 1, Len(wire))) = IF k + 1 <= Len(wire) THEN Len(wire) - (k + 1) + 1 ELSE 0
      BY <3>2, SubSeqProperties
    <3> QED
      BY <1>2, <1>4, <3>1, <3>3, <3>4
  <2>2. SubSeq(d, 1, k) = d
    BY <2>1, SubSeqFull
  <2>3. d \o w = wire
    <3>1. 1 \in 1 .. Len(wire) + 1 /\ k \in 1 - 1 .. Len(wire) /\ Len(wire) \in k .. Len(wire)
      BY <1>2, <1>4
    <3>2. d \o SubSeq(wire, k + 1, Len(wire)) = SubSeq(wire, 1, Len(wire))
      BY <1>2, <3>1, ConcatAdjacentSubSeq
    <3> QED
      BY <1>2, <2>1, <3>2, SubSeqFull
  <2>4. Buffered \o wire = wire /\ <<>> \o d = d
    BY <1>2, <1>3, <2>1, ConcatEmptySeq
  <2>5. SubSeq(wire, 1, Len(wire) - Len(w)) = d
    <3>1. Len(wire) - Len(w) = k
      BY <1>2, <2>1
    <3> QED
      BY <3>1
  <2> HIDE DEF d, w
  <2>6. Filled(r.data, r.pos, r.size)
    BY <1>1, <1>4, <2>1, SizesAssumption DEF Filled
  <2>7. Ahead(r.data, r.pos, r.size) \o r.wire = Buffered \o wire
    <3>1. Ahead(d, 0, k) = d
      BY <1>4, <2>2 DEF Ahead
    <3> QED
      BY <1>1, <2>3, <2>4, <3>1
  <2>8. SubSeq(r.data, r.pos + 1, r.size)
          = Buffered \o SubSeq(wire, 1, Len(wire) - Len(r.wire))
    <3>1. SubSeq(r.data, r.pos + 1, r.size) = d
      BY <1>1, <2>2
    <3> QED
      BY <1>1, <1>3, <2>4, <2>5, <3>1
  <2> HIDE DEF why
  <2>9. why = "none"
    BY <1>4 DEF why
  <2>10. PeekTold(r)
    <3>1. ~(pos < size)
      BY DEF BufferInv, Filled
    <3>2. r.wire \in Seq(Bytes) /\ r.limit \in 0 .. limitLeft /\ r.got \in Int
          /\ r.got + r.limit <= limitLeft /\ r.pos < r.size
      BY <1>1, <1>2, <1>4, <2>1
    <3>3. r.ok /\ r.ok \in BOOLEAN /\ r.why = "none"
      BY <1>1, <1>4, <2>9, Zenon
    <3> QED
      BY <2>6, <2>7, <2>8, <3>1, <3>2, <3>3, Zenon DEF PeekTold
  <2> QED
    BY <2>10 DEF r, d, w, why
<1>5. CASE ~(k > 0)
  <2>1. d = <<>>
    BY <1>2, <1>5, SubSeqEmpty
  <2>2. w = wire
    <3>1. (IF k < 0 THEN 0 ELSE k) + 1 = 1
      BY <1>5
    <3> QED
      BY <1>2, <3>1, SubSeqFull DEF Beyond
  <2>3. <<>> \in Seq(Bytes) /\ Len(<<>>) = 0
    BY EmptySeq
  <2> HIDE DEF d, w
  <2>4. Ahead(d, 0, k) = <<>>
    <3>1. CASE k < 0
      BY <3>1 DEF Ahead
    <3>2. CASE k = 0
      BY <3>2, SubSeqEmpty DEF Ahead
    <3> QED
      BY <1>5, <3>1, <3>2
  <2>5. Buffered \o wire = wire /\ <<>> \o wire = wire
    BY <1>2, <1>3, ConcatEmptySeq
  <2>6. Filled(r.data, r.pos, r.size)
    BY <1>1, <1>5, <2>1, <2>3, SizesAssumption DEF Filled
  <2>7. Ahead(r.data, r.pos, r.size) \o r.wire = Buffered \o wire
    BY <1>1, <2>2, <2>4, <2>5
  <2> HIDE DEF why
  <2>8. why = "recv"
    BY <1>5 DEF why
  <2>9. ~(pos < size)
    BY DEF BufferInv, Filled
  <2>10. PeekTold(r)
    <3>1. r.wire \in Seq(Bytes) /\ r.limit \in 0 .. limitLeft /\ r.got \in Int
          /\ r.got + r.limit <= limitLeft /\ r.size - r.pos <= 0
      BY <1>1, <1>2, <1>5, <2>2
    <3>2. ~r.ok /\ r.ok \in BOOLEAN /\ r.why = "recv"
      <4>1. (k > 0) = FALSE
        BY <1>5
      <4> QED
        BY <1>1, <2>8, <4>1, Zenon
    <3>3. r.why \in {"limit", "recv"}
      BY <3>2
    <3> QED
      BY <2>6, <2>7, <2>9, <3>1, <3>2, <3>3, Zenon DEF PeekTold
  <2> QED
    BY <2>10 DEF r, d, w, why
<1> QED
  BY <1>4, <1>5

\* A read that is refused, or one that finds something in the buffer.
LEMMA UnchangedTold ==
  ASSUME BufferInv, NEW ok \in BOOLEAN, NEW why,
         ok => why = "none" /\ pos < size,
         ~ok => why = "limit" /\ size - pos = 0
  PROVE  PeekTold(Unchanged(ok, why))
<1> DEFINE r == Unchanged(ok, why)
<1>1. /\ r.data = data /\ r.pos = pos /\ r.size = size /\ r.wire = wire /\ r.got = 0
      /\ r.limit = limitLeft /\ r.ok = ok /\ r.why = why
  BY DEF Unchanged, Peeked
<1> HIDE DEF r
<1>2. /\ wire \in Seq(Bytes) /\ Len(wire) \in Nat /\ limitLeft \in Nat
      /\ Filled(data, pos, size) /\ data \in Seq(Bytes) /\ pos \in Nat /\ size \in Int
  BY SizesAssumption DEF BufferInv, Filled
<1>3. Ahead(r.data, r.pos, r.size) \o r.wire = Buffered \o wire
  BY <1>1, Zenon DEF Ahead, Buffered
<1>4. ASSUME ok
      PROVE  SubSeq(r.data, r.pos + 1, r.size) = Buffered \o SubSeq(wire, 1, Len(wire) - Len(r.wire))
  <2>1. Len(wire) - Len(r.wire) = 0
    BY <1>1, <1>2
  <2>2. SubSeq(wire, 1, Len(wire) - Len(r.wire)) = <<>>
    <3>1. 1 \in Int /\ 0 \in Int /\ 0 < 1
      OBVIOUS
    <3> QED
      BY <2>1, <3>1, SubSeqEmpty
  <2>3. ~(size < 0)
    BY <1>2, <1>4
  <2>4. Buffered = Ahead(data, pos, size) /\ Buffered = SubSeq(data, pos + 1, size)
    BY <2>3, Zenon DEF Buffered, Ahead
  <2>5. Buffered \in Seq(Bytes)
    BY <1>2, <2>4, FilledAhead
  <2>6. Buffered \o <<>> = Buffered
    BY <2>5, ConcatEmptySeq
  <2> QED
    BY <1>1, <2>2, <2>4, <2>6
<1>5. /\ r.limit \in 0 .. limitLeft /\ r.got \in Int /\ r.got + r.limit <= limitLeft
      /\ (ok => r.pos < r.size) /\ (~ok => r.size - r.pos <= 0 /\ ~(r.size < 0) /\ ~(pos < size))
  BY <1>1, <1>2
<1>6. r.why \in {"limit", "recv"} \/ ok
  BY <1>1
<1> QED
  <2>1. PeekTold(r)
    BY <1>1, <1>2, <1>3, <1>4, <1>5, <1>6, Zenon DEF PeekTold
  <2> QED
    BY <2>1 DEF r

LEMMA PeekLoses ==
  ASSUME BufferInv, size - pos >= 0, NEW r \in Peek
  PROVE  PeekTold(r)
<1> DEFINE n == Least(DataSize, limitLeft)
<1>1. limitLeft \in Nat /\ DataSize \in Nat \ {0} /\ size \in Int /\ pos \in Nat
      /\ wire \in Seq(Bytes) /\ Len(wire) \in Nat
  BY SizesAssumption DEF BufferInv, Filled
<1>2. n \in Nat /\ n <= DataSize /\ n <= limitLeft
  BY <1>1 DEF Least
<1>3. CASE BufferLeft # 0
  <2>1. r = Unchanged(TRUE, "none")
    BY <1>3 DEF Peek
  <2>2. pos < size
    BY <1>1, <1>3 DEF BufferLeft
  <2> QED
    BY <2>1, <2>2, UnchangedTold
<1>4. CASE BufferLeft = 0 /\ n <= 0
  <2>1. r = Unchanged(FALSE, "limit")
    BY <1>4 DEF Peek, FillRead
  <2> QED
    BY <1>4, <2>1, UnchangedTold DEF BufferLeft
<1>5. CASE BufferLeft = 0 /\ ~(n <= 0)
  <2>1. PICK k \in RecvResults(n) :
          r = Peeked(k > 0, SubSeq(wire, 1, k), 0, k, limitLeft - n, Beyond(k), k,
                     IF k > 0 THEN "none" ELSE "recv")
    BY <1>5 DEF Peek, FillRead
  <2>2. k \in Int /\ (k = -1 \/ (k = 0 /\ wire = <<>>) \/ (k >= 1 /\ k <= n /\ k <= Len(wire)))
    <3> HIDE DEF n
    <3>1. CASE k \in (IF RecvMayFail THEN {-1} ELSE {})
      BY <3>1
    <3>2. CASE k \in (IF wire = <<>> THEN {0} ELSE 1 .. Least(n, Len(wire)))
      <4>1. CASE wire = <<>>
        BY <3>2, <4>1
      <4>2. CASE wire # <<>>
        BY <1>1, <1>2, <3>2, <4>2 DEF Least
      <4> QED
        BY <4>1, <4>2
    <3> QED
      BY <3>1, <3>2 DEF RecvResults
  <2> HIDE DEF n
  <2>3. n \in Nat \ {0} /\ size - pos = 0
    BY <1>2, <1>5 DEF BufferLeft
  <2> QED
    BY <1>2, <2>1, <2>2, <2>3, FillTold
<1> QED
  BY <1>3, <1>4, <1>5

-----------------------------------------------------------------------------
(* What is taken of a block.                                               *)

LEMMA LengthBeforeCRIs ==
  ASSUME NEW s \in Seq(Bytes)
  PROVE  /\ LengthBeforeCR(s) \in 0 .. Len(s)
         /\ \A j \in 1 .. LengthBeforeCR(s) : s[j] # "R"
         /\ LengthBeforeCR(s) < Len(s) => s[LengthBeforeCR(s) + 1] = "R"
<1> DEFINE P(i) == s[i] = "R" /\ \A j \in 1 .. i - 1 : s[j] # "R"
           n == LengthBeforeCR(s)
<1>1. Len(s) \in Nat
  OBVIOUS
<1>2. CASE \E i \in 1 .. Len(s) : s[i] = "R"
  <2>1. \E i \in 1 .. Len(s) : P(i)
    <3> DEFINE T == {i \in Nat : i \in 1 .. Len(s) /\ s[i] = "R"}
    <3>1. T \subseteq Nat /\ T # {}
      BY <1>1, <1>2
    <3>2. \E m \in T : \A t \in T : m <= t
      BY <3>1, LeastNatural
    <3> QED
      BY <1>1, <3>2
  <2>2. n = (CHOOSE i \in 1 .. Len(s) : P(i)) - 1
    BY <1>2 DEF LengthBeforeCR
  <2> DEFINE c == CHOOSE i \in 1 .. Len(s) : P(i)
  <2>3. c \in 1 .. Len(s) /\ P(c)
    BY <2>1
  <2>4. n = c - 1
    BY <2>2
  <2> HIDE DEF c, n
  <2> QED
    BY <1>1, <2>3, <2>4 DEF n
<1>3. CASE ~(\E i \in 1 .. Len(s) : s[i] = "R")
  <2>1. n = Len(s)
    BY <1>3 DEF LengthBeforeCR
  <2> QED
    BY <1>1, <1>3, <2>1
<1> QED
  BY <1>2, <1>3

\* Of what is ahead, the first bytes can be set apart.
LEMMA AheadSplits ==
  ASSUME NEW d, NEW p, NEW sz, Filled(d, p, sz), NEW m \in Nat, p + m <= sz
  PROVE  /\ SubSeq(d, p + 1, p + m) \in Seq(Bytes)
         /\ Len(SubSeq(d, p + 1, p + m)) = m
         /\ \A i \in 1 .. m : SubSeq(d, p + 1, p + m)[i] = d[p + i]
         /\ Filled(d, p + m, sz)
         /\ Ahead(d, p, sz) = SubSeq(d, p + 1, p + m) \o Ahead(d, p + m, sz)
<1>1. d \in Seq(Bytes) /\ Len(d) \in Nat /\ p \in 0 .. Len(d) /\ sz = Len(d)
  BY DEF Filled
<1>2. p + 1 \in Int /\ p + m \in Int /\ \A i \in p + 1 .. p + m : d[i] \in Bytes
  BY <1>1
<1> DEFINE a == SubSeq(d, p + 1, p + m)
<1>3. /\ a \in Seq(Bytes)
      /\ Len(a) = IF p + 1 <= p + m THEN (p + m) - (p + 1) + 1 ELSE 0
      /\ \A i \in 1 .. (p + m) - (p + 1) + 1 : a[i] = d[(p + 1) + i - 1]
  BY <1>2, SubSeqProperties
<1>4. a = Ahead(d, p, p + m)
  <2>1. ~(p + m < 0)
    BY <1>1
  <2> QED
    BY <2>1, Zenon DEF Ahead
<1>5. a \o SubSeq(d, (p + m) + 1, sz) = SubSeq(d, p + 1, sz)
  <2>1. p + 1 \in 1 .. Len(d) + 1 /\ p + m \in (p + 1) - 1 .. Len(d) /\ sz \in p + m .. Len(d)
    BY <1>1
  <2> QED
    BY <1>1, <2>1, ConcatAdjacentSubSeq
<1>6. Ahead(d, p, sz) = SubSeq(d, p + 1, sz) /\ Ahead(d, p + m, sz) = SubSeq(d, (p + m) + 1, sz)
  <2>1. ~(sz < 0)
    BY <1>1
  <2> QED
    BY <2>1, Zenon DEF Ahead
<1>7. Len(a) = m
  BY <1>1, <1>3
<1>8. \A i \in 1 .. m : a[i] = d[p + i]
  <2>1. \A i \in 1 .. m : (p + 1) + i - 1 = p + i /\ i \in 1 .. (p + m) - (p + 1) + 1
    BY <1>1
  <2> QED
    BY <1>3, <2>1
<1>9. Filled(d, p + m, sz)
  BY <1>1 DEF Filled
<1> QED
  BY <1>3, <1>5, <1>6, <1>7, <1>8, <1>9

LEMMA BlockIs ==
  ASSUME NEW r, Filled(r.data, r.pos, r.size), r.size >= 0, NEW k \in Nat
  PROVE  LET n == Len(Block(r, k))
         IN  /\ Block(r, k) \in Seq(Bytes)
             /\ n \in Nat
             /\ n = Least(k, r.size - r.pos)
             /\ \A i \in 1 .. n : Block(r, k)[i] = r.data[r.pos + i]
             /\ Filled(r.data, r.pos + n, r.size)
             /\ Ahead(r.data, r.pos, r.size) = Block(r, k) \o Ahead(r.data, r.pos + n, r.size)
<1> DEFINE d == r.data
           p == r.pos
           sz == r.size
           m == Least(k, sz - p)
<1>1. p \in Nat /\ sz \in Nat /\ p <= sz
  BY DEF Filled
<1> HIDE DEF d, p, sz
<1>2. m \in Nat /\ p + m <= sz
  BY <1>1 DEF Least
<1>3. Filled(d, p, sz)
  BY DEF d, p, sz
<1>4. Block(r, k) = SubSeq(d, p + 1, p + m)
  BY DEF Block, d, p, sz
<1> HIDE DEF m
<1>5. Len(Block(r, k)) = m /\ Block(r, k) \in Seq(Bytes)
      /\ (\A i \in 1 .. m : Block(r, k)[i] = d[p + i])
      /\ Filled(d, p + m, sz)
      /\ Ahead(d, p, sz) = Block(r, k) \o Ahead(d, p + m, sz)
  <2>1. /\ SubSeq(d, p + 1, p + m) \in Seq(Bytes)
        /\ Len(SubSeq(d, p + 1, p + m)) = m
        /\ \A i \in 1 .. m : SubSeq(d, p + 1, p + m)[i] = d[p + i]
        /\ Filled(d, p + m, sz)
        /\ Ahead(d, p, sz) = SubSeq(d, p + 1, p + m) \o Ahead(d, p + m, sz)
    BY <1>2, <1>3, AheadSplits, Zenon
  <2> QED
    BY <1>4, <2>1, Zenon
<1> QED
  BY <1>2, <1>5 DEF d, p, sz, m

\* The text that buffer_read_line copies out of one block.
LEMMA ScanTold ==
  ASSUME SocketInv, accepting = 0, NEW r, PeekTold(r), r.ok
  PROVE  LET block == Block(r, LineSize - Len(line))
             n == LengthBeforeCR(block)
             text == SubSeq(block, 1, n)
         IN  /\ block \in Seq(Bytes) /\ n \in 0 .. Len(block)
             /\ Len(block) = Least(LineSize - Len(line), r.size - r.pos)
             /\ \A i \in 1 .. Len(block) : block[i] = r.data[r.pos + i]
             /\ text \in Seq(Bytes)
             /\ Len(text) = n
             /\ \A i \in 1 .. n : text[i] # "R" /\ text[i] = r.data[r.pos + i]
             /\ n < Len(block) => r.data[r.pos + n + 1] = "R" /\ r.pos + n < r.size
             /\ Filled(r.data, r.pos + n, r.size)
             /\ Ahead(r.data, r.pos, r.size) = text \o Ahead(r.data, r.pos + n, r.size)
<1> DEFINE block == Block(r, LineSize - Len(line))
           n == LengthBeforeCR(block)
           text == SubSeq(block, 1, n)
<1>0. block = Block(r, LineSize - Len(line)) /\ n = LengthBeforeCR(block) /\ text = SubSeq(block, 1, n)
  OBVIOUS
<1> HIDE DEF block, n, text
<1> DEFINE k == LineSize - Len(line)
<1>1. k \in Nat
  BY SizesAssumption DEF SocketInv, LineInv
<1>2. /\ Filled(r.data, r.pos, r.size) /\ r.pos < r.size
  BY DEF PeekTold
<1>3. r.pos \in Nat /\ r.size \in Nat
  BY <1>2 DEF Filled
<1>4. /\ block \in Seq(Bytes) /\ Len(block) \in Nat /\ Len(block) = Least(k, r.size - r.pos)
      /\ \A i \in 1 .. Len(block) : block[i] = r.data[r.pos + i]
  <2> HIDE DEF k
  <2>1. r.size >= 0
    BY <1>3
  <2> QED
    BY <1>0, <1>1, <1>2, <2>1, BlockIs DEF k
<1>5. Len(block) <= r.size - r.pos
  BY <1>1, <1>3, <1>4 DEF Least
<1>6. /\ n \in 0 .. Len(block)
      /\ \A j \in 1 .. n : block[j] # "R"
      /\ n < Len(block) => block[n + 1] = "R"
  BY <1>0, <1>4, LengthBeforeCRIs
<1>7. /\ text \in Seq(Bytes) /\ Len(text) = n
      /\ \A i \in 1 .. n : text[i] = block[i]
  <2>1. 1 \in Int /\ n \in Int /\ \A i \in 1 .. n : block[i] \in Bytes
    BY <1>4, <1>6
  <2>2. /\ SubSeq(block, 1, n) \in Seq(Bytes)
        /\ Len(SubSeq(block, 1, n)) = IF 1 <= n THEN n - 1 + 1 ELSE 0
        /\ \A i \in 1 .. n - 1 + 1 : SubSeq(block, 1, n)[i] = block[1 + i - 1]
    BY <2>1, SubSeqProperties
  <2> QED
    BY <1>0, <1>4, <1>6, <2>2
<1> DEFINE a == SubSeq(r.data, r.pos + 1, r.pos + n)
<1>8. /\ a \in Seq(Bytes) /\ Len(a) = n
      /\ \A i \in 1 .. n : a[i] = r.data[r.pos + i]
      /\ Filled(r.data, r.pos + n, r.size)
      /\ Ahead(r.data, r.pos, r.size) = a \o Ahead(r.data, r.pos + n, r.size)
  <2>1. n \in Nat /\ r.pos + n <= r.size
    BY <1>3, <1>4, <1>5, <1>6
  <2> DEFINE d == r.data
             p == r.pos
             sz == r.size
  <2>2. Filled(d, p, sz) /\ p + n <= sz
    BY <1>2, <2>1
  <2> HIDE DEF d, p, sz
  <2>3. /\ SubSeq(d, p + 1, p + n) \in Seq(Bytes)
        /\ Len(SubSeq(d, p + 1, p + n)) = n
        /\ \A i \in 1 .. n : SubSeq(d, p + 1, p + n)[i] = d[p + i]
        /\ Filled(d, p + n, sz)
        /\ Ahead(d, p, sz) = SubSeq(d, p + 1, p + n) \o Ahead(d, p + n, sz)
    <3>1. ASSUME NEW m \in Nat, p + m <= sz
          PROVE  /\ SubSeq(d, p + 1, p + m) \in Seq(Bytes)
                 /\ Len(SubSeq(d, p + 1, p + m)) = m
                 /\ \A i \in 1 .. m : SubSeq(d, p + 1, p + m)[i] = d[p + i]
                 /\ Filled(d, p + m, sz)
                 /\ Ahead(d, p, sz) = SubSeq(d, p + 1, p + m) \o Ahead(d, p + m, sz)
      BY ONLY <2>2, <3>1, AheadSplits
    <3> QED
      BY <2>1, <2>2, <3>1
  <2> QED
    BY <2>3 DEF d, p, sz, a
<1> HIDE DEF a
<1>9. text = a
  <2>1. \A i \in 1 .. n : text[i] = a[i]
    <3> TAKE i \in 1 .. n
    <3>1. i \in 1 .. Len(block)
      BY <1>4, <1>6
    <3>2. text[i] = block[i] /\ a[i] = r.data[r.pos + i] /\ block[i] = r.data[r.pos + i]
      BY <1>4, <1>7, <1>8, <3>1, Zenon
    <3> QED
      BY <3>2
  <2> QED
    BY <1>7, <1>8, <2>1, SeqEqual
<1>10. n < Len(block) => r.data[r.pos + n + 1] = "R" /\ r.pos + n < r.size
  <2> SUFFICES ASSUME n < Len(block) PROVE r.data[r.pos + n + 1] = "R" /\ r.pos + n < r.size
    OBVIOUS
  <2>1. n + 1 \in 1 .. Len(block) /\ r.pos + (n + 1) = r.pos + n + 1
    BY <1>3, <1>4, <1>6
  <2> QED
    BY <1>3, <1>4, <1>5, <1>6, <2>1
<1>11. \A i \in 1 .. n : text[i] # "R" /\ text[i] = r.data[r.pos + i]
  BY <1>6, <1>7, <1>8, <1>9
<1>12. Ahead(r.data, r.pos, r.size) = text \o Ahead(r.data, r.pos + n, r.size)
  BY <1>8, <1>9
<1> QED
  BY <1>4, <1>6, <1>7, <1>8, <1>10, <1>11, <1>12 DEF block, n, text

-----------------------------------------------------------------------------
(* The invariant is kept.                                                  *)

LEMMA SocketInit == Init => SocketInv
<1> SUFFICES ASSUME Init PROVE SocketInv
  OBVIOUS
<1>1. <<>> \in Seq(Bytes) /\ Len(<<>>) = 0
  BY EmptySeq
<1>2. BufferInv
  <2>1. wire \in Seq(Bytes)
    BY StreamsAssumption DEF Init, Bytes
  <2>2. Filled(<<>>, 0, 0)
    BY <1>1, SizesAssumption DEF Filled
  <2>3. limitLeft \in 0 .. (HeadLimit + BodyLimit)
    BY SizesAssumption DEF Init
  <2> QED
    BY <2>1, <2>2, <2>3 DEF Init, BufferInv
<1>3. HeadInv /\ LineInv /\ RequestInv /\ FailedInv
  BY <1>1, SizesAssumption DEF Init, HeadInv, LineInv, RequestInv, FailedInv
<1> QED
  BY <1>2, <1>3 DEF SocketInv

\* What the buffer holds once m bytes of a peek have been consumed.
LEMMA ReceivedTold ==
  ASSUME BufferInv, NEW r, PeekTold(r), NEW m, NEW limit, NEW why,
         Filled(r.data, r.pos + m, r.size),
         limit \in 0 .. (HeadLimit + BodyLimit),
         why \in {"none", "limit", "recv", "line"},
         wire' = r.wire, data' = r.data, pos' = r.pos + m, size' = r.size,
         limitLeft' = limit, cause' = why, lostBody' \in BOOLEAN
  PROVE  BufferInv'
BY DEF BufferInv, PeekTold

\* A connection that is closed keeps nothing of its line.
LEMMA ClosedKeeps ==
  ASSUME SocketInv, InHead, NEW r, PeekTold(r), NEW why, why \in {"none", "limit", "recv", "line"},
         wire' = r.wire, data' = r.data, pos' = r.pos, size' = r.size,
         limitLeft' = r.limit, cause' = why, CountHead(r), CloseConnection
  PROVE  SocketInv'
<1>1. BufferInv /\ r.limit \in 0 .. limitLeft /\ limitLeft \in 0 .. (HeadLimit + BodyLimit)
      /\ r.got \in Int /\ r.got + r.limit <= limitLeft
      /\ Filled(r.data, r.pos, r.size)
  BY DEF SocketInv, BufferInv, PeekTold
<1>2. BufferInv'
  <2>1. r.limit \in 0 .. (HeadLimit + BodyLimit)
    BY <1>1, SizesAssumption
  <2>2. r.pos + 0 = r.pos
    BY <1>1 DEF Filled
  <2>3. lostBody' \in BOOLEAN
    BY <1>1 DEF CloseConnection, BufferInv
  <2> QED
    BY <1>1, <2>1, <2>2, <2>3, ReceivedTold
<1>3. HeadInv'
  BY <1>1, SizesAssumption DEF SocketInv, HeadInv, CountHead, CloseConnection, InHead
<1>4. LineInv'
  <2>1. <<>> \in Seq(Bytes) /\ Len(<<>>) = 0
    BY EmptySeq
  <2> QED
    BY <2>1, SizesAssumption DEF CloseConnection, LineInv
<1>5. RequestInv'
  BY DEF SocketInv, RequestInv, CloseConnection, request, InHead
<1>6. FailedInv'
  BY DEF FailedInv, CloseConnection, Ended
<1> QED
  BY <1>2, <1>3, <1>4, <1>5, <1>6 DEF SocketInv

LEMMA ScanKeeps == SocketInv /\ ScanLine => SocketInv'
<1> SUFFICES ASSUME SocketInv, ScanLine PROVE SocketInv'
  OBVIOUS
<1>1. InHead /\ accepting = 0 /\ size - pos >= 0 /\ BufferInv
  BY DEF ScanLine, ReadingLine, InHead, BufferLeft, SocketInv
<1> DEFINE block(r) == Block(r, LineSize - Len(line))
           n(r) == LengthBeforeCR(block(r))
           text(r) == SubSeq(block(r), 1, n(r))
           bad(r) == TooLong(n(r)) \/ \E i \in 1 .. n(r) : text(r)[i] = "Z"
<1>2. PICK r \in Peek :
        /\ CountHead(r)
        /\ \/ ~r.ok /\ Fail(r)
           \/ r.ok /\ bad(r) /\ Fail([r EXCEPT !.why = "line"])
           \/ /\ r.ok /\ ~bad(r)
              /\ Received(r, n(r), r.limit)
              /\ line' = line \o text(r)
              /\ accepting' = IF n(r) < Len(block(r)) THEN 2 ELSE 0
              /\ UNCHANGED <<phase, request, body, served, lostBody>>
  BY DEF ScanLine
<1>3. PeekTold(r)
  BY <1>1, PeekLoses
<1>4. CASE ~r.ok /\ Fail(r)
  <2>1. /\ wire' = r.wire /\ data' = r.data /\ pos' = r.pos + 0 /\ size' = r.size
        /\ limitLeft' = r.limit /\ cause' = r.why /\ CloseConnection
    BY <1>4 DEF Fail, Received
  <2>2. pos' = r.pos
    BY <1>3, <2>1 DEF PeekTold, Filled
  <2>3. r.why \in {"none", "limit", "recv", "line"}
    BY <1>3, <1>4 DEF PeekTold
  <2> QED
    BY <1>1, <1>2, <1>3, <2>1, <2>2, <2>3, ClosedKeeps
<1>5. CASE r.ok /\ Fail([r EXCEPT !.why = "line"])
  <2>1. /\ wire' = r.wire /\ data' = r.data /\ pos' = r.pos + 0 /\ size' = r.size
        /\ limitLeft' = r.limit /\ cause' = "line" /\ CloseConnection
    BY <1>5 DEF Fail, Received
  <2>2. pos' = r.pos
    BY <1>3, <2>1 DEF PeekTold, Filled
  <2> QED
    BY <1>1, <1>2, <1>3, <2>1, <2>2, ClosedKeeps
<1>6. CASE /\ r.ok /\ ~bad(r)
           /\ Received(r, n(r), r.limit)
           /\ line' = line \o text(r)
           /\ accepting' = IF n(r) < Len(block(r)) THEN 2 ELSE 0
           /\ UNCHANGED <<phase, request, body, served, lostBody>>
  <2> DEFINE b == block(r)
             m == n(r)
             t == text(r)
  <2>1. /\ b \in Seq(Bytes) /\ m \in 0 .. Len(b)
        /\ Len(b) = Least(LineSize - Len(line), r.size - r.pos)
        /\ t \in Seq(Bytes)
        /\ Len(t) = m
        /\ \A i \in 1 .. m : t[i] # "R" /\ t[i] = r.data[r.pos + i]
        /\ m < Len(b) => r.data[r.pos + m + 1] = "R" /\ r.pos + m < r.size
        /\ Filled(r.data, r.pos + m, r.size)
    <3>1. r.ok /\ accepting = 0
      BY <1>1, <1>6
    <3> QED
      BY <1>3, <3>1, ScanTold
  <2>2. /\ ~TooLong(m) /\ (\A i \in 1 .. m : t[i] # "Z")
        /\ wire' = r.wire /\ data' = r.data /\ pos' = r.pos + m /\ size' = r.size
        /\ limitLeft' = r.limit /\ cause' = r.why /\ line' = line \o t
        /\ accepting' = IF m < Len(b) THEN 2 ELSE 0
        /\ UNCHANGED <<phase, request, body, served, lostBody>>
    BY <1>6 DEF Received
  <2> HIDE DEF b, m, t
  <2>3. /\ r.limit \in 0 .. limitLeft /\ limitLeft \in 0 .. (HeadLimit + BodyLimit)
        /\ r.got \in Int /\ r.got + r.limit <= limitLeft /\ r.why = "none"
        /\ r.pos \in Nat /\ r.size >= 0 /\ r.size \in Nat
    <3>1. /\ r.limit \in 0 .. limitLeft /\ r.got \in Int /\ r.got + r.limit <= limitLeft
          /\ r.why = "none" /\ r.pos < r.size /\ Filled(r.data, r.pos, r.size)
      BY <1>3, <1>6 DEF PeekTold
    <3>2. limitLeft \in 0 .. (HeadLimit + BodyLimit)
      BY <1>1 DEF BufferInv
    <3> QED
      BY <3>1, <3>2 DEF Filled
  <2>4. BufferInv'
    <3>1. r.limit \in 0 .. (HeadLimit + BodyLimit)
      BY <2>3, SizesAssumption
    <3>2. lostBody' \in BOOLEAN
      BY <1>1, <2>2 DEF BufferInv
    <3>3. r.why \in {"none", "limit", "recv", "line"}
      BY <2>3
    <3> QED
      BY <1>1, <1>3, <2>1, <2>2, <3>1, <3>2, <3>3, ReceivedTold
  <2>5. HeadInv'
    <3>1. headBytes \in 0 .. HeadLimit /\ headBytes + limitLeft <= HeadLimit /\ phase # "Body"
      BY <1>1 DEF SocketInv, HeadInv, InHead
    <3>2. headBytes' = headBytes + IF r.got > 0 THEN r.got ELSE 0
      BY <1>2 DEF CountHead
    <3>3. headBytes' \in 0 .. HeadLimit /\ headBytes' + r.limit <= HeadLimit
      BY <2>3, <3>1, <3>2, SizesAssumption
    <3> QED
      BY <2>2, <3>1, <3>3 DEF HeadInv
  <2>6. LineInv'
    <3>1. /\ line \in Seq(Bytes) /\ Len(line) \in Nat /\ Len(line) < LineSize
          /\ \A i \in 1 .. Len(line) : line[i] # "R" /\ line[i] # "Z"
      BY DEF SocketInv, LineInv
    <3>2. /\ line \o t \in Seq(Bytes)
          /\ Len(line \o t) = Len(line) + Len(t)
          /\ \A i \in 1 .. Len(line) + Len(t) : (line \o t)[i] =
                 IF i <= Len(line) THEN line[i] ELSE t[i - Len(line)]
      BY <2>1, <3>1, ConcatProperties
    <3>3. m \in Nat /\ Len(line \o t) < LineSize
      BY <2>1, <2>2, <3>1, <3>2, SizesAssumption DEF TooLong
    <3>4. ASSUME NEW i \in 1 .. Len(line \o t)
          PROVE  (line \o t)[i] # "R" /\ (line \o t)[i] # "Z"
      <4>1. CASE i <= Len(line)
        BY <3>1, <3>2, <4>1
      <4>2. CASE ~(i <= Len(line))
        <5>1. i - Len(line) \in 1 .. m
          BY <2>1, <3>1, <3>2, <3>3, <4>2
        <5>2. (line \o t)[i] = t[i - Len(line)]
          BY <3>1, <3>2, <4>2
        <5> QED
          BY <2>1, <2>2, <5>1, <5>2
      <4> QED
        BY <4>1, <4>2
    <3>5. accepting' = 2 => pos' < size' /\ data'[pos' + 1] = "R"
      BY <2>1, <2>2
    <3>6. accepting' \in 0 .. 2
      BY <2>2
    <3>7. phase' # "Body"
      BY <1>1, <2>2 DEF InHead
    <3> QED
      BY <2>2, <3>2, <3>3, <3>4, <3>5, <3>6, <3>7 DEF LineInv
  <2>7. RequestInv'
    BY <2>2 DEF SocketInv, RequestInv, request
  <2>8. FailedInv'
    BY <2>2, <2>3 DEF FailedInv
  <2> QED
    BY <2>4, <2>5, <2>6, <2>7, <2>8 DEF SocketInv
<1> QED
  BY <1>2, <1>4, <1>5, <1>6

\* buffer_accept never gets an empty block.
LEMMA AcceptTold ==
  ASSUME SocketInv, accepting > 0, NEW r, PeekTold(r), r.ok
  PROVE  LET block == Block(r, accepting)
             n == Len(block)
         IN  /\ block \in Seq(Bytes) /\ n \in 1 .. accepting
             /\ n = Least(accepting, r.size - r.pos)
             /\ \A i \in 1 .. n : block[i] = r.data[r.pos + i]
             /\ Filled(r.data, r.pos + n, r.size)
             /\ Ahead(r.data, r.pos, r.size) = block \o Ahead(r.data, r.pos + n, r.size)
<1>1. accepting \in Nat
  BY DEF SocketInv, LineInv
<1>2. Filled(r.data, r.pos, r.size) /\ r.pos < r.size
  BY DEF PeekTold
<1>3. r.pos \in Nat /\ r.size \in Nat /\ r.size >= 0
  BY <1>2 DEF Filled
<1> DEFINE block == Block(r, accepting)
           n == Len(block)
<1>4. /\ block \in Seq(Bytes) /\ n \in Nat /\ n = Least(accepting, r.size - r.pos)
      /\ \A i \in 1 .. n : block[i] = r.data[r.pos + i]
      /\ Filled(r.data, r.pos + n, r.size)
      /\ Ahead(r.data, r.pos, r.size) = block \o Ahead(r.data, r.pos + n, r.size)
  BY <1>1, <1>2, <1>3, BlockIs
<1> HIDE DEF block, n
<1>5. n \in 1 .. accepting
  BY <1>1, <1>2, <1>3, <1>4 DEF Least
<1> QED
  BY <1>4, <1>5 DEF block, n

\* The step that ends a line, whatever the line was.
LEMMA EndLineKeeps ==
  ASSUME SocketInv, InHead, NEW r, PeekTold(r), r.ok, NEW n, Filled(r.data, r.pos + n, r.size),
         EndLine(r, n)
  PROVE  SocketInv'
<1> DEFINE p == IF phase = "RequestLine" THEN PathIn(line, path) ELSE path
           length == IF phase = "RequestLine" THEN 0 ELSE LengthIn(line, contentLength)
<1>1. /\ line' = <<>> /\ accepting' = 0 /\ path' = p /\ contentLength' = length
      /\ IF line = <<>>
         THEN EndHead(r, n, p)
         ELSE phase' = "Headers" /\ Received(r, n, r.limit) /\ CountHead(r) /\ UNCHANGED served
      /\ UNCHANGED <<body, lostBody>>
  BY DEF EndLine
<1>2. p \in {"test", "page"} /\ length \in {0, BodyLength}
  BY DEF SocketInv, RequestInv, PathIn, LengthIn
<1> HIDE DEF p, length
<1>3. /\ r.limit \in 0 .. limitLeft /\ limitLeft \in 0 .. (HeadLimit + BodyLimit)
      /\ r.got \in Int /\ r.got + r.limit <= limitLeft
      /\ r.why = "none" /\ r.pos < r.size /\ BufferInv
      /\ headBytes \in 0 .. HeadLimit /\ headBytes + limitLeft <= HeadLimit
      /\ body = <<>>
  BY DEF PeekTold, SocketInv, BufferInv, HeadInv, RequestInv, InHead
<1>4. r.size \in Nat
  <2>1. Filled(r.data, r.pos, r.size)
    BY DEF PeekTold
  <2> QED
    BY <1>3, <2>1 DEF Filled
<1>5. \E limit : /\ Received(r, n, limit)
                 /\ limit \in 0 .. (HeadLimit + BodyLimit)
                 /\ headBytes' \in 0 .. HeadLimit
                 /\ phase' \in {"RequestLine", "Headers", "Body"}
                 /\ phase' # "Body" => headBytes' + limit <= HeadLimit
                 /\ phase' = "Body" => headBytes' = 0
  <2>1. CASE line = <<>>
    <3>1. headBytes' = 0
          /\ \/ phase' = "Body" /\ Received(r, n, BodyLimit)
             \/ phase' = "RequestLine" /\ Received(r, n, HeadLimit)
      BY <1>1, <2>1 DEF EndHead
    <3> QED
      BY <3>1, SizesAssumption
  <2>2. CASE line # <<>>
    <3>1. phase' = "Headers" /\ Received(r, n, r.limit)
          /\ headBytes' = headBytes + IF r.got > 0 THEN r.got ELSE 0
      BY <1>1, <2>2 DEF CountHead
    <3>2. r.limit \in 0 .. (HeadLimit + BodyLimit)
          /\ headBytes' \in 0 .. HeadLimit /\ headBytes' + r.limit <= HeadLimit
      BY <1>3, <3>1, SizesAssumption
    <3> QED
      BY <3>1, <3>2
  <2> QED
    BY <2>1, <2>2
<1>6. PICK limit : /\ Received(r, n, limit)
                   /\ limit \in 0 .. (HeadLimit + BodyLimit)
                   /\ headBytes' \in 0 .. HeadLimit
                   /\ phase' \in {"RequestLine", "Headers", "Body"}
                   /\ phase' # "Body" => headBytes' + limit <= HeadLimit
                   /\ phase' = "Body" => headBytes' = 0
  BY <1>5
<1>7. /\ wire' = r.wire /\ data' = r.data /\ pos' = r.pos + n /\ size' = r.size
      /\ limitLeft' = limit /\ cause' = r.why
  BY <1>6 DEF Received
<1>8. BufferInv'
  <2>1. lostBody' \in BOOLEAN /\ r.why \in {"none", "limit", "recv", "line"}
    BY <1>1, <1>3 DEF BufferInv
  <2> QED
    BY <1>3, <1>6, <1>7, <2>1, ReceivedTold
<1>9. HeadInv'
  BY <1>6, <1>7 DEF HeadInv, InHead
<1>10. LineInv'
  <2>1. <<>> \in Seq(Bytes) /\ Len(<<>>) = 0
    BY EmptySeq
  <2> QED
    BY <1>1, <2>1, SizesAssumption DEF LineInv
<1>11. RequestInv'
  <2>1. <<>> \in Seq(Bytes) /\ Len(<<>>) = 0
    BY EmptySeq
  <2>2. body' = <<>> /\ Len(body') = 0
    BY <1>1, <1>3, <2>1
  <2> QED
    BY <1>1, <1>2, <1>6, <2>1, <2>2, SizesAssumption DEF RequestInv
<1>12. FailedInv'
  BY <1>4, <1>7 DEF FailedInv
<1> QED
  BY <1>8, <1>9, <1>10, <1>11, <1>12 DEF SocketInv

LEMMA AcceptKeeps == SocketInv /\ AcceptLineEnd => SocketInv'
<1> SUFFICES ASSUME SocketInv, AcceptLineEnd PROVE SocketInv'
  OBVIOUS
<1>1. InHead /\ accepting > 0 /\ size - pos >= 0 /\ BufferInv
  BY DEF AcceptLineEnd, ReadingLine, InHead, BufferLeft, SocketInv
<1> DEFINE block(r) == Block(r, accepting)
           n(r) == Len(block(r))
<1>2. PICK r \in Peek :
        \/ ~r.ok /\ CountHead(r) /\ Fail(r)
        \/ r.ok /\ block(r) # Expected(n(r)) /\ CountHead(r) /\ Fail([r EXCEPT !.why = "line"])
        \/ /\ r.ok /\ block(r) = Expected(n(r)) /\ n(r) < accepting
           /\ CountHead(r)
           /\ Received(r, n(r), r.limit)
           /\ accepting' = accepting - n(r)
           /\ UNCHANGED <<phase, line, request, body, served, lostBody>>
        \/ r.ok /\ block(r) = Expected(n(r)) /\ n(r) = accepting /\ EndLine(r, n(r))
  BY DEF AcceptLineEnd
<1>3. PeekTold(r)
  BY <1>1, PeekLoses
<1>4. CASE ~r.ok /\ CountHead(r) /\ Fail(r)
  <2>1. /\ wire' = r.wire /\ data' = r.data /\ pos' = r.pos + 0 /\ size' = r.size
        /\ limitLeft' = r.limit /\ cause' = r.why /\ CloseConnection
    BY <1>4 DEF Fail, Received
  <2>2. pos' = r.pos
    BY <1>3, <2>1 DEF PeekTold, Filled
  <2>3. r.why \in {"none", "limit", "recv", "line"}
    BY <1>3, <1>4 DEF PeekTold
  <2> QED
    BY <1>1, <1>3, <1>4, <2>1, <2>2, <2>3, ClosedKeeps
<1>5. CASE r.ok /\ CountHead(r) /\ Fail([r EXCEPT !.why = "line"])
  <2>1. /\ wire' = r.wire /\ data' = r.data /\ pos' = r.pos + 0 /\ size' = r.size
        /\ limitLeft' = r.limit /\ cause' = "line" /\ CloseConnection
    BY <1>5 DEF Fail, Received
  <2>2. pos' = r.pos
    BY <1>3, <2>1 DEF PeekTold, Filled
  <2> QED
    BY <1>1, <1>3, <1>5, <2>1, <2>2, ClosedKeeps
<1>6. CASE /\ r.ok /\ n(r) < accepting
           /\ CountHead(r)
           /\ Received(r, n(r), r.limit)
           /\ accepting' = accepting - n(r)
           /\ UNCHANGED <<phase, line, request, body, served, lostBody>>
  <2> DEFINE m == n(r)
  <2>1. m \in 1 .. accepting /\ Filled(r.data, r.pos + m, r.size)
    BY <1>1, <1>3, <1>6, AcceptTold
  <2>2. /\ wire' = r.wire /\ data' = r.data /\ pos' = r.pos + m /\ size' = r.size
        /\ limitLeft' = r.limit /\ cause' = r.why /\ m < accepting
        /\ accepting' = accepting - m
        /\ UNCHANGED <<phase, line, request, body, served, lostBody>>
    BY <1>6 DEF Received
  <2> HIDE DEF m
  <2>3. /\ r.limit \in 0 .. limitLeft /\ limitLeft \in 0 .. (HeadLimit + BodyLimit)
        /\ r.got \in Int /\ r.got + r.limit <= limitLeft /\ r.why = "none" /\ r.size \in Nat
    <3>1. /\ r.limit \in 0 .. limitLeft /\ r.got \in Int /\ r.got + r.limit <= limitLeft
          /\ r.why = "none" /\ r.pos < r.size /\ Filled(r.data, r.pos, r.size)
      BY <1>3, <1>6 DEF PeekTold
    <3>2. limitLeft \in 0 .. (HeadLimit + BodyLimit)
      BY <1>1 DEF BufferInv
    <3> QED
      BY <3>1, <3>2 DEF Filled
  <2>4. BufferInv'
    <3>1. r.limit \in 0 .. (HeadLimit + BodyLimit)
      BY <2>3, SizesAssumption
    <3>2. lostBody' \in BOOLEAN
      BY <1>1, <2>2 DEF BufferInv
    <3>3. r.why \in {"none", "limit", "recv", "line"}
      BY <2>3
    <3> QED
      BY <1>1, <1>3, <2>1, <2>2, <3>1, <3>2, <3>3, ReceivedTold
  <2>5. HeadInv'
    <3>1. headBytes \in 0 .. HeadLimit /\ headBytes + limitLeft <= HeadLimit /\ phase # "Body"
      BY <1>1 DEF SocketInv, HeadInv, InHead
    <3>2. headBytes' = headBytes + IF r.got > 0 THEN r.got ELSE 0
      BY <1>6 DEF CountHead
    <3>3. headBytes' \in 0 .. HeadLimit /\ headBytes' + r.limit <= HeadLimit
      BY <2>3, <3>1, <3>2, SizesAssumption
    <3> QED
      BY <2>2, <3>1, <3>3 DEF HeadInv
  <2>6. LineInv'
    <3>1. accepting \in 0 .. 2
      BY DEF SocketInv, LineInv
    <3>2. accepting' \in 0 .. 1
      BY <2>1, <2>2, <3>1
    <3>3. phase' # "Body"
      BY <1>1, <2>2 DEF InHead
    <3> QED
      BY <2>2, <3>2, <3>3 DEF LineInv, SocketInv
  <2>7. RequestInv'
    BY <2>2 DEF SocketInv, RequestInv, request
  <2>8. FailedInv'
    BY <2>2, <2>3 DEF FailedInv
  <2> QED
    BY <2>4, <2>5, <2>6, <2>7, <2>8 DEF SocketInv
<1>7. CASE r.ok /\ EndLine(r, n(r))
  <2>1. Filled(r.data, r.pos + n(r), r.size)
    BY <1>1, <1>3, <1>7, AcceptTold
  <2> QED
    BY <1>1, <1>3, <1>7, <2>1, EndLineKeeps
<1> QED
  BY <1>2, <1>4, <1>5, <1>6, <1>7

LEMMA BodyKeeps == SocketInv /\ ReadBody => SocketInv'
<1> SUFFICES ASSUME SocketInv, ReadBody PROVE SocketInv'
  OBVIOUS
<1>1. phase = "Body" /\ UNCHANGED <<line, accepting, request, headBytes>>
  BY DEF ReadBody
<1>2. /\ BufferInv /\ size \in Nat /\ size - pos >= 0 /\ headBytes = 0
      /\ Filled(data, pos, size) /\ limitLeft \in 0 .. (HeadLimit + BodyLimit)
      /\ line = <<>> /\ accepting = 0
      /\ body \in Seq(Bytes) /\ Len(body) \in Nat /\ contentLength \in Nat
      /\ Len(body) <= contentLength
  <2>1. ~(size < 0)
    BY <1>1 DEF SocketInv, FailedInv, Ended
  <2>2. Filled(data, pos, size) /\ BufferInv /\ headBytes = 0 /\ line = <<>> /\ accepting = 0
    BY <1>1 DEF SocketInv, BufferInv, HeadInv, LineInv
  <2>3. size \in Nat /\ size - pos >= 0
    BY <2>1, <2>2 DEF Filled
  <2>4. /\ body \in Seq(Bytes) /\ Len(body) \in Nat /\ contentLength \in Nat
        /\ Len(body) <= contentLength
    BY SizesAssumption DEF SocketInv, RequestInv
  <2> QED
    BY <2>2, <2>3, <2>4 DEF BufferInv
\* An answer, after which the buffer is told to receive another head.
<1>3. ASSUME NEW d, NEW p, NEW sz, NEW w, NEW why, NEW lost,
             Filled(d, p, sz), w \in Seq(Bytes), lost \in BOOLEAN,
             why \in {"none", "limit", "recv", "line"},
             sz < 0 => lost /\ why = "recv",
             data' = d, pos' = p, size' = sz, wire' = w, limitLeft' = HeadLimit, cause' = why,
             lostBody' = lost, body' = <<>>, phase' = "RequestLine"
      PROVE  SocketInv'
  <2>1. BufferInv'
    BY <1>3, SizesAssumption DEF BufferInv
  <2>2. HeadInv'
    BY <1>1, <1>2, <1>3, SizesAssumption DEF HeadInv, InHead
  <2>3. LineInv'
    BY <1>1, <1>2, <1>3 DEF SocketInv, LineInv
  <2>4. RequestInv'
    <3>1. <<>> \in Seq(Bytes) /\ Len(<<>>) = 0
      BY EmptySeq
    <3> QED
      BY <1>1, <1>2, <1>3, <3>1 DEF SocketInv, RequestInv, request
  <2>5. FailedInv'
    BY <1>1, <1>2, <1>3 DEF FailedInv, Ended
  <2> QED
    BY <2>1, <2>2, <2>3, <2>4, <2>5 DEF SocketInv
<1>4. CASE AnswerTest(Unchanged(TRUE, "none"), 0, body) /\ UNCHANGED lostBody
  <2>1. /\ data' = data /\ pos' = pos + 0 /\ size' = size /\ wire' = wire
        /\ limitLeft' = HeadLimit /\ cause' = "none" /\ lostBody' = lostBody
        /\ body' = <<>> /\ phase' = "RequestLine"
    BY <1>4 DEF AnswerTest, Received, Unchanged, Peeked
  <2>2. pos' = pos /\ ~(size < 0)
    BY <1>2, <2>1 DEF Filled
  <2>3. wire \in Seq(Bytes) /\ lostBody \in BOOLEAN
    BY <1>2 DEF BufferInv
  <2> QED
    BY <1>2, <1>3, <2>1, <2>2, <2>3
<1>5. CASE /\ Len(body) < contentLength
           /\ \E r \in Peek :
                LET block == Block(r, contentLength - Len(body))
                IN  \/ ~r.ok /\ AnswerTest(r, 0, body) /\ lostBody' = TRUE
                    \/ /\ r.ok
                       /\ Received(r, Len(block), r.limit)
                       /\ body' = body \o block
                       /\ UNCHANGED <<phase, served, lostBody>>
  <2> DEFINE block(r) == Block(r, contentLength - Len(body))
  <2>1. PICK r \in Peek :
          \/ ~r.ok /\ AnswerTest(r, 0, body) /\ lostBody' = TRUE
          \/ /\ r.ok
             /\ Received(r, Len(block(r)), r.limit)
             /\ body' = body \o block(r)
             /\ UNCHANGED <<phase, served, lostBody>>
    BY <1>5
  <2>2. PeekTold(r)
    BY <1>2, PeekLoses
  <2>3. CASE ~r.ok /\ AnswerTest(r, 0, body) /\ lostBody' = TRUE
    <3>1. /\ data' = r.data /\ pos' = r.pos + 0 /\ size' = r.size /\ wire' = r.wire
          /\ limitLeft' = HeadLimit /\ cause' = r.why /\ lostBody' = TRUE
          /\ body' = <<>> /\ phase' = "RequestLine"
      BY <2>3 DEF AnswerTest, Received
    <3>2. /\ Filled(r.data, r.pos, r.size) /\ r.wire \in Seq(Bytes)
          /\ r.why \in {"none", "limit", "recv", "line"}
          /\ r.size < 0 => r.why = "recv"
      BY <2>2, <2>3 DEF PeekTold
    <3>3. pos' = r.pos
      BY <3>1, <3>2 DEF Filled
    <3> QED
      BY <1>3, <3>1, <3>2, <3>3
  <2>4. CASE /\ r.ok
             /\ Received(r, Len(block(r)), r.limit)
             /\ body' = body \o block(r)
             /\ UNCHANGED <<phase, served, lostBody>>
    <3> DEFINE k == contentLength - Len(body)
               b == block(r)
               m == Len(b)
    <3>1. /\ data' = r.data /\ pos' = r.pos + m /\ size' = r.size /\ wire' = r.wire
          /\ limitLeft' = r.limit /\ cause' = r.why /\ body' = body \o b
          /\ UNCHANGED <<phase, lostBody>>
      BY <2>4 DEF Received
    <3>2. /\ Filled(r.data, r.pos, r.size) /\ r.limit \in 0 .. limitLeft
          /\ r.why = "none" /\ r.pos < r.size
      BY <2>2, <2>4 DEF PeekTold
    <3>3. r.pos \in Nat /\ r.size \in Nat /\ r.size >= 0 /\ k \in Nat
      BY <1>2, <3>2 DEF Filled
    <3>4. /\ b \in Seq(Bytes) /\ m \in Nat /\ m = Least(k, r.size - r.pos)
          /\ Filled(r.data, r.pos + m, r.size)
      BY <3>2, <3>3, BlockIs
    <3> HIDE DEF b, m
    <3>5. m <= k /\ Len(b) = m
      BY <3>3, <3>4 DEF Least, m
    <3>6. BufferInv'
      <4>1. r.limit \in 0 .. (HeadLimit + BodyLimit)
        BY <1>2, <3>2, SizesAssumption
      <4>2. lostBody' \in BOOLEAN /\ r.why \in {"none", "limit", "recv", "line"}
        BY <1>2, <3>1, <3>2 DEF BufferInv
      <4> QED
        BY <1>2, <2>2, <3>1, <3>4, <4>1, <4>2, ReceivedTold
    <3>7. HeadInv' /\ FailedInv'
      BY <1>1, <1>2, <3>1, <3>3, SizesAssumption DEF HeadInv, InHead, FailedInv
    <3>8. LineInv'
      BY <1>1, <1>2, <3>1 DEF SocketInv, LineInv
    <3>9. RequestInv'
      <4>1. body \o b \in Seq(Bytes) /\ Len(body \o b) = Len(body) + Len(b)
        BY <1>2, <3>4, ConcatProperties
      <4>2. Len(body \o b) <= contentLength
        BY <1>2, <3>4, <3>5, <4>1
      <4> QED
        BY <1>1, <3>1, <4>1, <4>2 DEF SocketInv, RequestInv, request
    <3> QED
      BY <3>6, <3>7, <3>8, <3>9 DEF SocketInv
  <2> QED
    BY <2>1, <2>3, <2>4
<1> QED
  BY <1>4, <1>5 DEF ReadBody

LEMMA GarbledKeeps == SocketInv /\ GarbledRead => SocketInv'
BY DEF GarbledRead, SocketInv, BufferInv, HeadInv, LineInv, RequestInv, FailedInv, Ended, InHead,
       buffer, request

LEMMA SocketStep == SocketInv /\ [Next]_vars => SocketInv'
<1>1. CASE UNCHANGED vars
  BY <1>1 DEF vars, buffer, request, SocketInv, BufferInv, HeadInv, LineInv, RequestInv,
              FailedInv, Ended, InHead
<1> QED
  BY <1>1, ScanKeeps, AcceptKeeps, BodyKeeps, GarbledKeeps DEF Next

\* What is buffered, what a head may still receive and what has been read of a
\* line and a body keep to one another, however the bytes arrive.
THEOREM SocketInvariant == Spec => []SocketInv
BY SocketInit, SocketStep, PTL DEF Spec

\* No state of a connection leaves its range: the buffer and the line stay
\* inside their arrays, and a head inside its limit.
THEOREM SocketTypes == Spec => []TypeOK
<1>1. SocketInv => TypeOK
  <2> SUFFICES ASSUME SocketInv PROVE TypeOK
    OBVIOUS
  <2>1. size \in -1 .. DataSize /\ Len(data) <= DataSize /\ pos \in 0 .. Len(data)
    BY SizesAssumption DEF SocketInv, BufferInv, Filled
  <2> QED
    BY <2>1 DEF SocketInv, BufferInv, HeadInv, LineInv, RequestInv, TypeOK
<1> QED
  BY <1>1, SocketInvariant, PTL

\* Only buffer_read_amount hides a failed recv() from the reads after it.
THEOREM FailureIsHiddenByBodies == Spec => []FailedBufferNotReused
<1>1. SocketInv => FailedBufferNotReused
  BY DEF SocketInv, FailedInv, FailedBufferNotReused
<1> QED
  BY <1>1, SocketInvariant, PTL

-----------------------------------------------------------------------------
(* The buffer implements RequestStream.tla.                                *)

\* The stream and the phase that RequestStream.tla sees.
Rest == Buffered \o wire
PhaseSeen == IF Ended THEN "Closed" ELSE phase
CarriageReturn == SubSeq(<<"R", "N">>, 1, IF accepting = 0 THEN 0 ELSE 2 - accepting)

LEMMA CRLFParts ==
  /\ <<"R", "N">> \in Seq(Bytes) /\ <<"R">> \in Seq(Bytes) /\ <<"N">> \in Seq(Bytes)
  /\ SubSeq(<<"R", "N">>, 1, 0) = <<>>
  /\ SubSeq(<<"R", "N">>, 1, 1) = <<"R">>
  /\ SubSeq(<<"R", "N">>, 2, 2) = <<"N">>
  /\ SubSeq(<<"R", "N">>, 1, 2) = <<"R", "N">>
  /\ <<"R">> \o <<"N">> = <<"R", "N">>
<1>1. "R" \in Bytes /\ "N" \in Bytes
  BY DEF Bytes, RS!Bytes
<1> DEFINE c == <<"R", "N">>
           r == <<"R">>
           n == <<"N">>
<1>2. c \in Seq(Bytes) /\ Len(c) = 2 /\ c[1] = "R" /\ c[2] = "N"
  BY <1>1
<1>3. r \in Seq(Bytes) /\ n \in Seq(Bytes)
  BY <1>1
<1>4. Len(r) = 1 /\ r[1] = "R" /\ Len(n) = 1 /\ n[1] = "N"
  OBVIOUS
<1> HIDE DEF c, r, n
<1>5. SubSeq(c, 1, 0) = <<>>
  <2>1. 1 \in Int /\ 0 \in Int /\ 0 < 1
    OBVIOUS
  <2> QED
    BY <2>1, SubSeqEmpty
<1>6. SubSeq(c, 1, 2) = c
  BY <1>2, SubSeqFull
<1>7. ASSUME NEW i \in 1 .. 2
      PROVE  /\ SubSeq(c, i, i) \in Seq(Bytes)
             /\ Len(SubSeq(c, i, i)) = 1
             /\ SubSeq(c, i, i)[1] = c[i]
  <2>1. i \in Int /\ \A j \in i .. i : c[j] \in Bytes
    BY <1>1, <1>2
  <2>2. /\ SubSeq(c, i, i) \in Seq(Bytes)
        /\ Len(SubSeq(c, i, i)) = IF i <= i THEN i - i + 1 ELSE 0
        /\ \A j \in 1 .. i - i + 1 : SubSeq(c, i, i)[j] = c[i + j - 1]
    BY <2>1, SubSeqProperties
  <2> QED
    BY <2>1, <2>2
<1>8. SubSeq(c, 1, 1) = r
  <2> DEFINE u == SubSeq(c, 1, 1)
  <2>1. u \in Seq(Bytes) /\ Len(u) = 1 /\ u[1] = "R"
    BY <1>2, <1>7
  <2> HIDE DEF u
  <2>2. \A i \in 1 .. Len(u) : u[i] = r[i]
    BY <1>4, <2>1
  <2>3. u = r
    BY <1>3, <1>4, <2>1, <2>2, SeqEqual
  <2> QED
    BY <2>3 DEF u
<1>9. SubSeq(c, 2, 2) = n
  <2> DEFINE u == SubSeq(c, 2, 2)
  <2>1. u \in Seq(Bytes) /\ Len(u) = 1 /\ u[1] = "N"
    BY <1>2, <1>7
  <2> HIDE DEF u
  <2>2. \A i \in 1 .. Len(u) : u[i] = n[i]
    BY <1>4, <2>1
  <2>3. u = n
    BY <1>3, <1>4, <2>1, <2>2, SeqEqual
  <2> QED
    BY <2>3 DEF u
<1>10. r \o n = c
  <2>1. /\ r \o n \in Seq(Bytes)
        /\ Len(r \o n) = Len(r) + Len(n)
        /\ \A i \in 1 .. Len(r) + Len(n) : (r \o n)[i] = IF i <= Len(r) THEN r[i] ELSE n[i - Len(r)]
    BY <1>3, ConcatProperties
  <2>2. (r \o n)[1] = "R" /\ (r \o n)[2] = "N" /\ Len(r \o n) = 2
    BY <1>4, <2>1
  <2>3. \A i \in 1 .. Len(r \o n) : (r \o n)[i] = c[i]
    BY <1>2, <2>2
  <2> QED
    BY <1>2, <2>1, <2>2, <2>3, SeqEqual
<1> QED
  BY <1>2, <1>3, <1>5, <1>6, <1>8, <1>9, <1>10 DEF c, r, n

\* What has been taken of a line or of a body.
LEMMA TakenIs ==
  ASSUME SocketInv, ~Ended
  PROVE  /\ Taken \in Seq(Bytes)
         /\ accepting # 1 => Taken = line \o body
         /\ accepting = 1 => Taken = (line \o <<"R">>) \o body
         /\ InHead => body = <<>>
         /\ InHead /\ accepting # 1 => Taken = line
         /\ InHead /\ accepting = 1 => Taken = line \o <<"R">>
         /\ phase = "Body" => Taken = body
<1>1. /\ line \in Seq(Bytes) /\ body \in Seq(Bytes) /\ accepting \in 0 .. 2
      /\ phase # "Body" => body = <<>>
      /\ phase = "Body" => line = <<>> /\ accepting = 0
      /\ InHead => phase # "Body"
  BY DEF SocketInv, LineInv, RequestInv, InHead
<1>2. Taken = (line \o CarriageReturn) \o body
  BY DEF Taken, CarriageReturn
<1>3. accepting # 1 => CarriageReturn = <<>>
  <2> SUFFICES ASSUME accepting # 1 PROVE CarriageReturn = <<>>
    OBVIOUS
  <2>1. (IF accepting = 0 THEN 0 ELSE 2 - accepting) = 0
    BY <1>1
  <2> QED
    BY <2>1, CRLFParts DEF CarriageReturn
<1>4. accepting = 1 => CarriageReturn = <<"R">>
  <2> SUFFICES ASSUME accepting = 1 PROVE CarriageReturn = <<"R">>
    OBVIOUS
  <2>1. (IF accepting = 0 THEN 0 ELSE 2 - accepting) = 1
    BY <1>1
  <2> QED
    BY <2>1, CRLFParts DEF CarriageReturn
<1>5. line \o <<>> = line /\ <<>> \o body = body /\ line \o <<"R">> \in Seq(Bytes)
  BY <1>1, CRLFParts, ConcatEmptySeq, ConcatProperties
<1>6. accepting # 1 => Taken = line \o body
  BY <1>2, <1>3, <1>5
<1>7. accepting = 1 => Taken = (line \o <<"R">>) \o body
  BY <1>2, <1>4
<1>8. line \o body \in Seq(Bytes) /\ (line \o <<"R">>) \o body \in Seq(Bytes)
      /\ line \o <<>> = line /\ (line \o <<"R">>) \o <<>> = line \o <<"R">>
  BY <1>1, <1>5, ConcatEmptySeq, ConcatProperties
<1>9. Taken \in Seq(Bytes)
  BY <1>6, <1>7, <1>8
<1>10. InHead => body = <<>>
  BY <1>1
<1>11. InHead /\ accepting # 1 => Taken = line
  BY <1>6, <1>8, <1>10
<1>12. InHead /\ accepting = 1 => Taken = line \o <<"R">>
  BY <1>7, <1>8, <1>10
<1>13. phase = "Body" => Taken = body
  BY <1>1, <1>5, <1>6
<1> QED
  BY <1>6, <1>7, <1>9, <1>10, <1>11, <1>12, <1>13, Zenon

LEMMA UnreadIs ==
  SocketInv /\ ~Ended =>
    /\ Buffered = Ahead(data, pos, size)
    /\ Buffered \in Seq(Bytes) /\ wire \in Seq(Bytes) /\ Rest \in Seq(Bytes)
    /\ Unread = Taken \o Rest
    /\ PhaseSeen = phase
<1> SUFFICES ASSUME SocketInv, ~Ended
             PROVE  /\ Buffered = Ahead(data, pos, size)
                    /\ Buffered \in Seq(Bytes) /\ wire \in Seq(Bytes) /\ Rest \in Seq(Bytes)
                    /\ Unread = Taken \o Rest
                    /\ PhaseSeen = phase
  OBVIOUS
<1>1. Buffered = Ahead(data, pos, size)
  BY DEF Buffered, Ahead
<1>2. Filled(data, pos, size) /\ wire \in Seq(Bytes)
  BY DEF SocketInv, BufferInv
<1>3. Buffered \in Seq(Bytes)
  BY <1>1, <1>2, FilledAhead
<1>4. Rest \in Seq(Bytes)
  BY <1>2, <1>3, ConcatProperties DEF Rest
<1>5. Unread = Taken \o Rest
  <2>1. Taken \in Seq(Bytes)
    BY TakenIs
  <2>2. (Taken \o Buffered) \o wire = Taken \o (Buffered \o wire)
    BY <1>2, <1>3, <2>1, ConcatAssociative
  <2> QED
    BY <2>2 DEF Unread, Rest
<1> QED
  BY <1>1, <1>2, <1>3, <1>4, <1>5 DEF PhaseSeen

\* Consuming a block only moves it from the front of the rest.
LEMMA RestMoves ==
  ASSUME SocketInv, SocketInv', ~Ended, ~Ended', NEW r, PeekTold(r), NEW t \in Seq(Bytes), NEW m,
         Ahead(r.data, r.pos, r.size) = t \o Ahead(r.data, m, r.size),
         data' = r.data, pos' = m, size' = r.size, wire' = r.wire
  PROVE  Rest = t \o Rest'
<1>1. Ahead(r.data, r.pos, r.size) \o r.wire = Buffered \o wire
  BY DEF PeekTold
<1>2. (SocketInv /\ ~Ended =>
        /\ Buffered = Ahead(data, pos, size)
        /\ Buffered \in Seq(Bytes) /\ wire \in Seq(Bytes) /\ Rest \in Seq(Bytes)
        /\ Unread = Taken \o Rest
        /\ PhaseSeen = phase)'
  BY UnreadIs, PTL
<1>3. Buffered' = Ahead(data', pos', size') /\ Buffered' \in Seq(Bytes) /\ wire' \in Seq(Bytes)
  BY <1>2
<1>4. (t \o Buffered') \o wire' = t \o (Buffered' \o wire')
  <2> DEFINE b == Buffered'
             w == wire'
  <2>1. b \in Seq(Bytes) /\ w \in Seq(Bytes)
    BY <1>3
  <2> HIDE DEF b, w
  <2>2. (t \o b) \o w = t \o (b \o w)
    BY <2>1, ConcatAssociative
  <2> QED
    BY <2>2 DEF b, w
<1>5. Rest' = Buffered' \o wire'
  BY DEF Rest
<1> QED
  BY <1>1, <1>3, <1>4, <1>5, Zenon DEF Rest

\* What comes after the first bytes of a sequence.
LEMMA AfterPrefix ==
  ASSUME NEW a \in Seq(Bytes), NEW b \in Seq(Bytes)
  PROVE  /\ Len(a \o b) = Len(a) + Len(b)
         /\ SubSeq(a \o b, 1, Len(a)) = a
         /\ SubSeq(a \o b, Len(a) + 1, Len(a \o b)) = b
<1> DEFINE s == a \o b
           x == SubSeq(s, 1, Len(a))
           y == SubSeq(s, Len(a) + 1, Len(s))
<1>1. /\ s \in Seq(Bytes) /\ Len(s) = Len(a) + Len(b) /\ Len(a) \in Nat /\ Len(b) \in Nat
      /\ \A i \in 1 .. Len(a) + Len(b) : s[i] = IF i <= Len(a) THEN a[i] ELSE b[i - Len(a)]
  BY ConcatProperties
<1> HIDE DEF s
<1>2. \A i \in 1 .. Len(s) : s[i] \in Bytes
  BY <1>1
<1>3. /\ x \in Seq(Bytes) /\ Len(x) = Len(a) /\ \A i \in 1 .. Len(a) : x[i] = s[i]
  <2>1. 1 \in Int /\ Len(a) \in Int /\ \A i \in 1 .. Len(a) : s[i] \in Bytes
    BY <1>1, <1>2
  <2>2. /\ x \in Seq(Bytes)
        /\ Len(x) = IF 1 <= Len(a) THEN Len(a) - 1 + 1 ELSE 0
        /\ \A i \in 1 .. Len(a) - 1 + 1 : x[i] = s[1 + i - 1]
    BY <2>1, SubSeqProperties
  <2> HIDE DEF x
  <2> QED
    BY <1>1, <2>2
<1>4. /\ y \in Seq(Bytes) /\ Len(y) = Len(b) /\ \A i \in 1 .. Len(b) : y[i] = s[Len(a) + i]
  <2>1. Len(a) + 1 \in Int /\ Len(s) \in Int /\ \A i \in Len(a) + 1 .. Len(s) : s[i] \in Bytes
    BY <1>1, <1>2
  <2>2. /\ y \in Seq(Bytes)
        /\ Len(y) = IF Len(a) + 1 <= Len(s) THEN Len(s) - (Len(a) + 1) + 1 ELSE 0
        /\ \A i \in 1 .. Len(s) - (Len(a) + 1) + 1 : y[i] = s[(Len(a) + 1) + i - 1]
    BY <2>1, SubSeqProperties
  <2> HIDE DEF y
  <2>3. Len(y) = Len(b)
    BY <1>1, <2>2
  <2>4. ASSUME NEW i \in 1 .. Len(b)
        PROVE  y[i] = s[Len(a) + i]
    <3>1. i \in 1 .. Len(s) - (Len(a) + 1) + 1 /\ (Len(a) + 1) + i - 1 = Len(a) + i
      BY <1>1
    <3> QED
      BY <2>2, <3>1
  <2> QED
    BY <2>2, <2>3, <2>4
<1> HIDE DEF x, y
<1>5. x = a
  <2>1. \A i \in 1 .. Len(x) : x[i] = a[i]
    BY <1>1, <1>3
  <2> QED
    BY <1>3, <2>1, SeqEqual
<1>6. y = b
  <2>1. ASSUME NEW i \in 1 .. Len(y) PROVE y[i] = b[i]
    <3>1. Len(a) + i \in 1 .. Len(a) + Len(b) /\ ~(Len(a) + i <= Len(a)) /\ (Len(a) + i) - Len(a) = i
      BY <1>1, <1>4
    <3>2. y[i] = s[Len(a) + i]
      BY <1>4
    <3> QED
      BY <1>1, <3>1, <3>2
  <2> QED
    BY <1>4, <2>1, SeqEqual
<1> QED
  BY <1>1, <1>5, <1>6 DEF s, x, y

\* A line with its CRLF is the one that RequestStream.tla takes.
LEMMA LineIsNext ==
  ASSUME NEW u \in Seq(Bytes), NEW t \in Seq(Bytes), NEW w \in Seq(Bytes),
         u = t \o (<<"R", "N">> \o w)
  PROVE  /\ Len(t) + 1 \in 1 .. Len(u) - 1
         /\ SubSeq(u, 1, (Len(t) + 1) - 1) = t
         /\ SubSeq(u, Len(t) + 1, (Len(t) + 1) + 1) = <<"R", "N">>
         /\ SubSeq(u, (Len(t) + 2) + 1, Len(u)) = w
<1> DEFINE c == <<"R", "N">>
           v == c \o w
           n == Len(t)
<1>1. c \in Seq(Bytes) /\ Len(c) = 2 /\ n \in Nat /\ Len(w) \in Nat
  BY CRLFParts
<1> HIDE DEF c
<1>2. v \in Seq(Bytes) /\ t \o c \in Seq(Bytes)
  BY <1>1, ConcatProperties
<1>3. Len(v) = Len(c) + Len(w) /\ SubSeq(v, 1, Len(c)) = c
  BY <1>1, AfterPrefix
<1>4. u = t \o v
  BY DEF c
<1>5. u = (t \o c) \o w
  <2>1. (t \o c) \o w = t \o (c \o w)
    BY <1>1, ConcatAssociative
  <2> QED
    BY <1>4, <2>1
<1>6. Len(u) = n + Len(v) /\ SubSeq(u, 1, n) = t /\ SubSeq(u, n + 1, Len(u)) = v
  <2> HIDE DEF v
  <2>1. /\ Len(t \o v) = Len(t) + Len(v)
        /\ SubSeq(t \o v, 1, Len(t)) = t
        /\ SubSeq(t \o v, Len(t) + 1, Len(t \o v)) = v
    BY <1>2, AfterPrefix
  <2> QED
    BY <1>4, <2>1
<1>7. Len(t \o c) = n + 2 /\ SubSeq(u, Len(t \o c) + 1, Len(u)) = w
  <2>1. Len(t \o c) = n + Len(c)
    BY <1>1, AfterPrefix
  <2>2. SubSeq((t \o c) \o w, Len(t \o c) + 1, Len((t \o c) \o w)) = w
    BY <1>2, AfterPrefix
  <2> QED
    BY <1>1, <1>5, <2>1, <2>2
<1> HIDE DEF v
<1>8. Len(u) = n + 2 + Len(w)
  BY <1>1, <1>3, <1>6
<1>9. SubSeq(u, n + 1, n + 2) = c
  <2> DEFINE x == SubSeq(u, n + 1, n + 2)
             y == SubSeq(u, n + 1, Len(u))
             z == SubSeq(v, 1, 2)
  <2>1. \A i \in 1 .. Len(u) : u[i] \in Bytes
    OBVIOUS
  <2>2. x \in Seq(Bytes) /\ Len(x) = 2 /\ x[1] = u[n + 1] /\ x[2] = u[n + 2]
    <3>1. n + 1 \in Int /\ n + 2 \in Int /\ \A i \in n + 1 .. n + 2 : u[i] \in Bytes
      BY <1>1, <1>8, <2>1
    <3>2. /\ x \in Seq(Bytes)
          /\ Len(x) = IF n + 1 <= n + 2 THEN (n + 2) - (n + 1) + 1 ELSE 0
          /\ \A i \in 1 .. (n + 2) - (n + 1) + 1 : x[i] = u[(n + 1) + i - 1]
      BY <3>1, SubSeqProperties
    <3> HIDE DEF x
    <3>3. (n + 2) - (n + 1) + 1 = 2 /\ (n + 1) + 1 - 1 = n + 1 /\ (n + 1) + 2 - 1 = n + 2
          /\ n + 1 <= n + 2 /\ 1 \in 1 .. 2 /\ 2 \in 1 .. 2
      BY <1>1
    <3> QED
      BY <3>2, <3>3
  <2>3. c[1] = u[n + 1] /\ c[2] = u[n + 2]
    <3>1. /\ Len(t \o v) = n + Len(v)
          /\ \A i \in 1 .. n + Len(v) : (t \o v)[i] = IF i <= n THEN t[i] ELSE v[i - n]
      BY <1>2, ConcatProperties
    <3>2. \A i \in 1 .. Len(c) + Len(w) : (c \o w)[i] = IF i <= Len(c) THEN c[i] ELSE w[i - Len(c)]
      BY <1>1, ConcatProperties
    <3>3. v[1] = c[1] /\ v[2] = c[2]
      <4>1. (c \o w)[1] = c[1] /\ (c \o w)[2] = c[2]
        <5>1. /\ 1 \in 1 .. Len(c) + Len(w) /\ 1 <= Len(c)
              /\ 2 \in 1 .. Len(c) + Len(w) /\ 2 <= Len(c)
          BY <1>1
        <5> QED
          BY <3>2, <5>1, Zenon
      <4> QED
        BY <4>1 DEF v
    <3>4. /\ n + 1 \in 1 .. n + Len(v) /\ ~(n + 1 <= n) /\ (n + 1) - n = 1
          /\ n + 2 \in 1 .. n + Len(v) /\ ~(n + 2 <= n) /\ (n + 2) - n = 2
      BY <1>1, <1>3
    <3> QED
      BY <1>4, <3>1, <3>3, <3>4
  <2> HIDE DEF x
  <2>4. \A i \in 1 .. Len(x) : x[i] = c[i]
    BY <2>2, <2>3
  <2>5. x = c
    BY <1>1, <2>2, <2>4, SeqEqual
  <2> QED
    BY <2>5 DEF x
<1>10. (n + 1) - 1 = n /\ (n + 1) + 1 = n + 2 /\ n + 1 \in 1 .. Len(u) - 1
  BY <1>1, <1>8
<1> QED
  BY <1>6, <1>7, <1>9, <1>10 DEF c

\* The rest and what has been taken only exchange bytes.
LEMMA UnreadKept ==
  ASSUME SocketInv, SocketInv', ~Ended, ~Ended', NEW t \in Seq(Bytes),
         Rest = t \o Rest', Taken' = Taken \o t, phase' = phase
  PROVE  Unread' = Unread /\ PhaseSeen' = PhaseSeen
<1>1. Unread = Taken \o Rest /\ PhaseSeen = phase
  BY UnreadIs
<1>2. (SocketInv /\ ~Ended =>
        /\ Buffered = Ahead(data, pos, size)
        /\ Buffered \in Seq(Bytes) /\ wire \in Seq(Bytes) /\ Rest \in Seq(Bytes)
        /\ Unread = Taken \o Rest
        /\ PhaseSeen = phase)'
  BY UnreadIs, PTL
<1>3. Unread' = Taken' \o Rest' /\ PhaseSeen' = phase' /\ Rest' \in Seq(Bytes)
  BY <1>2
<1>4. Taken \in Seq(Bytes)
  BY TakenIs
<1> DEFINE w == Rest'
<1>5. w \in Seq(Bytes)
  BY <1>3
<1> HIDE DEF w
<1>6. (Taken \o t) \o w = Taken \o (t \o w)
  BY <1>4, <1>5, ConcatAssociative
<1> QED
  BY <1>1, <1>3, <1>6 DEF w

LEMMA CloseIsClose ==
  ASSUME ~Ended, phase' = "Closed" \/ phase' = "Crashed", UNCHANGED <<path, contentLength, served>>
  PROVE  RS!Next
<1>1. Ended'
  BY DEF Ended
<1> QED
  BY <1>1 DEF RS!Next, RS!Close, Unread, Ended

\* A step that reads on moves bytes from what is buffered to what is taken.
LEMMA ScanStutters == SocketInv /\ SocketInv' /\ ScanLine => [RS!Next]_(RS!vars)
<1> SUFFICES ASSUME SocketInv, SocketInv', ScanLine PROVE [RS!Next]_(RS!vars)
  OBVIOUS
<1>1. InHead /\ accepting = 0 /\ size - pos >= 0 /\ BufferInv /\ ~Ended
  BY DEF ScanLine, ReadingLine, InHead, BufferLeft, SocketInv, Ended
<1> DEFINE block(r) == Block(r, LineSize - Len(line))
           n(r) == LengthBeforeCR(block(r))
           text(r) == SubSeq(block(r), 1, n(r))
           bad(r) == TooLong(n(r)) \/ \E i \in 1 .. n(r) : text(r)[i] = "Z"
<1>2. PICK r \in Peek :
        /\ CountHead(r)
        /\ \/ ~r.ok /\ Fail(r)
           \/ r.ok /\ bad(r) /\ Fail([r EXCEPT !.why = "line"])
           \/ /\ r.ok /\ ~bad(r)
              /\ Received(r, n(r), r.limit)
              /\ line' = line \o text(r)
              /\ accepting' = IF n(r) < Len(block(r)) THEN 2 ELSE 0
              /\ UNCHANGED <<phase, request, body, served, lostBody>>
  BY DEF ScanLine
<1>3. PeekTold(r)
  BY <1>1, PeekLoses
<1>4. CASE CloseConnection
  <2>1. phase' = "Closed" /\ UNCHANGED <<path, contentLength, served>>
    BY <1>4 DEF CloseConnection, request
  <2> QED
    BY <1>1, <2>1, CloseIsClose
<1>5. CASE /\ r.ok
           /\ Received(r, n(r), r.limit)
           /\ line' = line \o text(r)
           /\ accepting' = IF n(r) < Len(block(r)) THEN 2 ELSE 0
           /\ UNCHANGED <<phase, request, body, served, lostBody>>
  <2> DEFINE m == n(r)
             t == text(r)
  <2>1. /\ t \in Seq(Bytes)
        /\ Ahead(r.data, r.pos, r.size) = t \o Ahead(r.data, r.pos + m, r.size)
    BY <1>1, <1>3, <1>5, ScanTold
  <2>2. /\ wire' = r.wire /\ data' = r.data /\ pos' = r.pos + m /\ size' = r.size
        /\ line' = line \o t /\ accepting' # 1
        /\ UNCHANGED <<phase, path, contentLength, served>>
    BY <1>5 DEF Received, request
  <2> HIDE DEF m, t
  <2>3. ~Ended' /\ InHead'
    BY <1>1, <2>2 DEF Ended, InHead
  <2>4. Rest = t \o Rest'
    BY <1>1, <1>3, <2>1, <2>2, <2>3, RestMoves
  <2>5. Taken = line /\ Taken' = line'
    <3>1. Taken = line
      BY <1>1, TakenIs
    <3>2. (SocketInv /\ ~Ended /\ InHead /\ accepting # 1 => Taken = line)'
      BY TakenIs, PTL
    <3> QED
      BY <2>2, <2>3, <3>1, <3>2
  <2>6. Unread' = Unread /\ PhaseSeen' = PhaseSeen
    BY <1>1, <2>1, <2>2, <2>3, <2>4, <2>5, UnreadKept
  <2> QED
    BY <2>2, <2>6 DEF RS!vars, Unread, PhaseSeen
<1> QED
  BY <1>2, <1>4, <1>5 DEF Fail

LEMMA ExpectedIs ==
  ASSUME SocketInv, accepting > 0, NEW n \in 1 .. accepting
  PROVE  /\ accepting = 2 /\ n = 1 => Expected(n) = <<"R">>
         /\ accepting = 2 /\ n = 2 => Expected(n) = <<"R", "N">>
         /\ accepting = 1 => n = 1 /\ Expected(n) = <<"N">>
         /\ accepting = 1 \/ accepting = 2
<1>1. accepting = 1 \/ accepting = 2
  BY DEF SocketInv, LineInv
<1>2. CASE accepting = 2
  <2>1. 3 - accepting = 1 /\ 2 - accepting + n = n
    BY <1>2
  <2>2. Expected(n) = SubSeq(<<"R", "N">>, 1, n)
    BY <2>1 DEF Expected
  <2> QED
    BY <1>2, <2>2, CRLFParts
<1>3. CASE accepting = 1
  <2>1. 3 - accepting = 2 /\ 2 - accepting + n = 2 /\ n = 1
    BY <1>3
  <2>2. Expected(n) = SubSeq(<<"R", "N">>, 2, 2)
    BY <2>1 DEF Expected
  <2> QED
    BY <1>3, <2>1, <2>2, CRLFParts
<1> QED
  BY <1>1, <1>2, <1>3

\* The step that ends a line takes that line and its CRLF off the stream.
LEMMA EndLineTakes ==
  ASSUME SocketInv, SocketInv', InHead, NEW w, w = Rest',
         Unread = line \o (<<"R", "N">> \o w), w \in Seq(Bytes),
         NEW r, NEW n, EndLine(r, n)
  PROVE  RS!Next
<1> DEFINE p == IF phase = "RequestLine" THEN PathIn(line, path) ELSE path
           length == IF phase = "RequestLine" THEN 0 ELSE LengthIn(line, contentLength)
<1>1. /\ line' = <<>> /\ accepting' = 0 /\ path' = p /\ contentLength' = length
      /\ IF line = <<>>
         THEN EndHead(r, n, p)
         ELSE phase' = "Headers" /\ Received(r, n, r.limit) /\ CountHead(r) /\ UNCHANGED served
      /\ UNCHANGED <<body, lostBody>>
  BY DEF EndLine
<1>2. /\ line \in Seq(Bytes) /\ Len(line) < LineSize /\ body = <<>> /\ ~Ended
      /\ \A i \in 1 .. Len(line) : line[i] # "R" /\ line[i] # "Z"
      /\ phase \in {"RequestLine", "Headers"} /\ PhaseSeen = phase
  BY DEF SocketInv, LineInv, RequestInv, InHead, Ended, PhaseSeen
<1>3. phase' \in {"RequestLine", "Headers", "Body"} /\ ~Ended'
  BY <1>1 DEF EndHead, Ended
<1>4. Unread' = w
  <2>1. (SocketInv /\ ~Ended =>
          /\ Buffered = Ahead(data, pos, size)
          /\ Buffered \in Seq(Bytes) /\ wire \in Seq(Bytes) /\ Rest \in Seq(Bytes)
          /\ Unread = Taken \o Rest
          /\ PhaseSeen = phase)'
    BY UnreadIs, PTL
  <2>2. (SocketInv /\ ~Ended /\ accepting # 1 => Taken = line \o body)'
    BY TakenIs, PTL
  <2>3. Taken' = <<>> \o <<>>
    BY <1>1, <1>2, <1>3, <2>2
  <2>4. <<>> \in Seq(Bytes)
    BY EmptySeq
  <2>5. Taken' = <<>> /\ <<>> \o w = w
    BY <2>3, <2>4, ConcatEmptySeq
  <2> QED
    BY <1>3, <2>1, <2>5
<1> DEFINE u == Unread
<1>5. u \in Seq(Bytes)
  BY <1>2, CRLFParts, ConcatProperties
<1>6. /\ Len(line) + 1 \in 1 .. Len(u) - 1
      /\ SubSeq(u, 1, (Len(line) + 1) - 1) = line
      /\ SubSeq(u, Len(line) + 1, (Len(line) + 1) + 1) = <<"R", "N">>
      /\ SubSeq(u, (Len(line) + 2) + 1, Len(u)) = w
  <2>1. u = line \o (<<"R", "N">> \o w)
    OBVIOUS
  <2> HIDE DEF u
  <2> QED
    BY <1>2, <1>5, <2>1, LineIsNext
<1> DEFINE IsLine(t) == Len(t) < LineSize /\ \A i \in 1 .. Len(t) : t[i] \notin {"R", "Z"}
           Lines == { SubSeq(u, 1, m - 1) :
                        m \in {k \in 1 .. Len(u) - 1 : /\ SubSeq(u, k, k + 1) = <<"R", "N">>
                                                       /\ IsLine(SubSeq(u, 1, k - 1))} }
<1>7. line \in Lines
  <2> HIDE DEF u
  <2>1. IsLine(SubSeq(u, 1, (Len(line) + 1) - 1))
    <3>1. IsLine(line)
      BY <1>2
    <3> HIDE DEF IsLine
    <3> QED
      BY <1>6, <3>1
  <2> HIDE DEF IsLine
  <2> QED
    BY <1>6, <2>1
<1>8. Lines = RS!NextLines
  BY DEF RS!NextLines, RS!IsLine, RS!CRLF, Unread
<1>9. Unread' = RS!Drop(u, Len(line) + 2)
  BY <1>4, <1>6 DEF RS!Drop
<1> HIDE DEF Lines, u
<1>10. IF line = <<>>
       THEN RS!EndHead(p, length)
       ELSE /\ PhaseSeen' = "Headers" /\ path' = p /\ contentLength' = length /\ UNCHANGED served
  <2>1. CASE line = <<>>
    <3>1. EndHead(r, n, p) /\ path' = p /\ contentLength' = length
      BY <1>1, <2>1
    <3> HIDE DEF p, length
    <3>2. IF p = "test" THEN phase' = "Body" /\ UNCHANGED served
          ELSE phase' = "RequestLine" /\ served' = Append(served, Answer(p, <<>>))
      BY <3>1 DEF EndHead
    <3>3. PhaseSeen' = phase'
      BY <1>3 DEF PhaseSeen
    <3>4. RS!EndHead(p, length)
      BY <3>1, <3>2, <3>3 DEF RS!EndHead, RS!Answer, Answer, PhaseSeen
    <3> QED
      BY <2>1, <3>4
  <2>2. CASE line # <<>>
    BY <1>1, <1>3, <2>2 DEF PhaseSeen
  <2> QED
    BY <2>1, <2>2
<1>11. RS!TakeLine
  <2>1. /\ p = IF PhaseSeen = "RequestLine" THEN RS!PathIn(line, path) ELSE path
        /\ length = IF PhaseSeen = "RequestLine" THEN 0 ELSE RS!LengthIn(line, contentLength)
    BY <1>2 DEF PathIn, LengthIn, Begins, RS!PathIn, RS!LengthIn, RS!Begins
  <2> HIDE DEF p, length
  <2>2. line \in RS!NextLines
    BY <1>7, <1>8
  <2>3. PhaseSeen \in {"RequestLine", "Headers"}
    BY <1>2
  <2> QED
    BY <1>9, <1>10, <2>1, <2>2, <2>3, Zenon DEF RS!TakeLine, PhaseSeen, Unread, u
<1> QED
  BY <1>11 DEF RS!Next

LEMMA AcceptTakes == SocketInv /\ SocketInv' /\ AcceptLineEnd => [RS!Next]_(RS!vars)
<1> SUFFICES ASSUME SocketInv, SocketInv', AcceptLineEnd PROVE [RS!Next]_(RS!vars)
  OBVIOUS
<1>1. InHead /\ accepting > 0 /\ size - pos >= 0 /\ BufferInv /\ ~Ended
  BY DEF AcceptLineEnd, ReadingLine, InHead, BufferLeft, SocketInv, Ended
<1> DEFINE block(r) == Block(r, accepting)
           n(r) == Len(block(r))
<1>2. PICK r \in Peek :
        \/ ~r.ok /\ CountHead(r) /\ Fail(r)
        \/ r.ok /\ block(r) # Expected(n(r)) /\ CountHead(r) /\ Fail([r EXCEPT !.why = "line"])
        \/ /\ r.ok /\ block(r) = Expected(n(r)) /\ n(r) < accepting
           /\ CountHead(r)
           /\ Received(r, n(r), r.limit)
           /\ accepting' = accepting - n(r)
           /\ UNCHANGED <<phase, line, request, body, served, lostBody>>
        \/ r.ok /\ block(r) = Expected(n(r)) /\ n(r) = accepting /\ EndLine(r, n(r))
  BY DEF AcceptLineEnd
<1>3. PeekTold(r)
  BY <1>1, PeekLoses
<1>4. CASE CloseConnection
  <2>1. phase' = "Closed" /\ UNCHANGED <<path, contentLength, served>>
    BY <1>4 DEF CloseConnection, request
  <2> QED
    BY <1>1, <2>1, CloseIsClose
<1> DEFINE m == n(r)
           b == block(r)
<1>5. ASSUME r.ok
      PROVE  /\ b \in Seq(Bytes) /\ m \in 1 .. accepting
             /\ Ahead(r.data, r.pos, r.size) = b \o Ahead(r.data, r.pos + m, r.size)
  BY <1>1, <1>3, <1>5, AcceptTold
<1>6. Taken \in Seq(Bytes) /\ line \in Seq(Bytes)
      /\ (accepting = 2 => Taken = line) /\ (accepting = 1 => Taken = line \o <<"R">>)
  BY <1>1, TakenIs DEF SocketInv, LineInv
<1>7. CASE /\ r.ok /\ b = Expected(m) /\ m < accepting
           /\ Received(r, m, r.limit)
           /\ accepting' = accepting - m
           /\ UNCHANGED <<phase, line, request, body, served, lostBody>>
  <2>1. /\ wire' = r.wire /\ data' = r.data /\ pos' = r.pos + m /\ size' = r.size
        /\ line' = line /\ accepting' = accepting - m /\ m < accepting /\ r.ok
        /\ UNCHANGED <<phase, path, contentLength, served>>
        /\ b = Expected(m)
    BY <1>7 DEF Received, request
  <2>2. /\ b \in Seq(Bytes) /\ m \in 1 .. accepting
        /\ Ahead(r.data, r.pos, r.size) = b \o Ahead(r.data, r.pos + m, r.size)
    BY <1>5, <1>7
  <2> HIDE DEF m, b
  <2>3. ~Ended' /\ InHead'
    BY <1>1, <2>1 DEF Ended, InHead
  <2>4. accepting = 2 /\ m = 1 /\ b = <<"R">> /\ accepting' = 1
    <3>1. /\ accepting = 2 /\ m = 1 => Expected(m) = <<"R">>
          /\ accepting = 1 => m = 1
          /\ accepting = 1 \/ accepting = 2
      BY <1>1, <2>2, ExpectedIs
    <3> QED
      BY <2>1, <2>2, <3>1
  <2>5. Taken' = Taken \o b
    <3>1. (SocketInv /\ ~Ended /\ InHead /\ accepting = 1 => Taken = line \o <<"R">>)'
      BY TakenIs, PTL
    <3> QED
      BY <1>6, <2>1, <2>3, <2>4, <3>1
  <2>6. Rest = b \o Rest'
    BY <1>1, <1>3, <2>1, <2>2, <2>3, RestMoves
  <2>7. Unread' = Unread /\ PhaseSeen' = PhaseSeen
    BY <1>1, <2>1, <2>2, <2>3, <2>5, <2>6, UnreadKept
  <2> QED
    BY <2>1, <2>7 DEF RS!vars, Unread, PhaseSeen
<1>8. CASE r.ok /\ b = Expected(m) /\ m = accepting /\ EndLine(r, m)
  <2>1. /\ b \in Seq(Bytes) /\ m \in 1 .. accepting
        /\ Ahead(r.data, r.pos, r.size) = b \o Ahead(r.data, r.pos + m, r.size)
        /\ b = Expected(m) /\ m = accepting /\ EndLine(r, m)
    BY <1>5, <1>8
  <2> HIDE DEF b, m
  <2>2. /\ phase' \in {"RequestLine", "Headers", "Body"}
        /\ wire' = r.wire /\ data' = r.data /\ pos' = r.pos + m /\ size' = r.size
    BY <2>1 DEF EndLine, EndHead, Received
  <2>3. ~Ended'
    BY <2>2 DEF Ended
  <2>4. Rest = b \o Rest'
    BY <1>1, <1>3, <2>1, <2>2, <2>3, RestMoves
  <2> DEFINE w == Rest'
  <2>5. w \in Seq(Bytes)
    <3>1. (SocketInv /\ ~Ended =>
            /\ Buffered = Ahead(data, pos, size)
            /\ Buffered \in Seq(Bytes) /\ wire \in Seq(Bytes) /\ Rest \in Seq(Bytes)
            /\ Unread = Taken \o Rest
            /\ PhaseSeen = phase)'
      BY UnreadIs, PTL
    <3> QED
      BY <2>3, <3>1
  <2>6. w = Rest' /\ Rest = b \o w
    BY <2>4
  <2> HIDE DEF w
  <2>7. Unread = Taken \o (b \o w)
    BY <1>1, <2>6, UnreadIs
  <2>8. Unread = line \o (<<"R", "N">> \o w)
    <3>1. /\ accepting = 2 /\ m = 2 => Expected(m) = <<"R", "N">>
          /\ accepting = 1 => Expected(m) = <<"N">>
          /\ accepting = 1 \/ accepting = 2
      BY <1>1, <2>1, ExpectedIs
    <3>2. CASE accepting = 2
      BY <1>6, <2>1, <2>7, <3>1, <3>2
    <3>3. CASE accepting = 1
      <4>1. b = <<"N">> /\ Taken = line \o <<"R">>
        BY <1>6, <2>1, <3>1, <3>3
      <4> DEFINE x == <<"R">>
                 y == <<"N">>
      <4>2. x \in Seq(Bytes) /\ y \in Seq(Bytes) /\ x \o y = <<"R", "N">>
        BY CRLFParts
      <4>3. Unread = (line \o x) \o (y \o w)
        BY <2>7, <4>1
      <4> HIDE DEF x, y
      <4>4. y \o w \in Seq(Bytes)
        BY <2>5, <4>2, ConcatProperties
      <4>5. line \in Seq(Bytes) /\ x \in Seq(Bytes) /\ y \in Seq(Bytes)
        BY <1>6, <4>2
      <4>6. (line \o x) \o (y \o w) = line \o (x \o (y \o w))
        BY <4>4, <4>5, ConcatAssociative
      <4>7. (x \o y) \o w = x \o (y \o w)
        BY <2>5, <4>5, ConcatAssociative
      <4> QED
        BY <4>2, <4>3, <4>6, <4>7, Zenon
    <3> QED
      BY <3>1, <3>2, <3>3
  <2>9. RS!Next
    BY <1>1, <2>1, <2>5, <2>6, <2>8, EndLineTakes
  <2> QED
    BY <2>9
<1> QED
  BY <1>2, <1>4, <1>7, <1>8 DEF Fail

LEMMA BodyTakes == SocketInv /\ SocketInv' /\ ReadBody => [RS!Next]_(RS!vars)
<1> SUFFICES ASSUME SocketInv, SocketInv', ReadBody PROVE [RS!Next]_(RS!vars)
  OBVIOUS
<1>1. phase = "Body" /\ UNCHANGED <<line, accepting, path, contentLength>> /\ ~Ended
  BY DEF ReadBody, request, Ended
<1>2. /\ BufferInv /\ size \in Nat /\ size - pos >= 0 /\ wire \in Seq(Bytes)
      /\ line = <<>> /\ accepting = 0 /\ Taken = body
      /\ body \in Seq(Bytes) /\ Len(body) \in Nat /\ contentLength \in Nat
      /\ Len(body) <= contentLength
  <2>1. ~(size < 0)
    BY <1>1 DEF SocketInv, FailedInv, Ended
  <2>2. Filled(data, pos, size) /\ BufferInv /\ line = <<>> /\ accepting = 0 /\ wire \in Seq(Bytes)
    BY <1>1 DEF SocketInv, BufferInv, HeadInv, LineInv
  <2>3. size \in Nat /\ size - pos >= 0
    BY <2>1, <2>2 DEF Filled
  <2>4. /\ body \in Seq(Bytes) /\ Len(body) \in Nat /\ contentLength \in Nat
        /\ Len(body) <= contentLength
    BY SizesAssumption DEF SocketInv, RequestInv
  <2> QED
    BY <1>1, <2>2, <2>3, <2>4, TakenIs
<1>3. (SocketInv /\ ~Ended =>
        /\ Buffered = Ahead(data, pos, size)
        /\ Buffered \in Seq(Bytes) /\ wire \in Seq(Bytes) /\ Rest \in Seq(Bytes)
        /\ Unread = Taken \o Rest
        /\ PhaseSeen = phase)'
  BY UnreadIs, PTL
<1>4. Unread = body \o Rest /\ PhaseSeen = "Body" /\ Rest \in Seq(Bytes)
  BY <1>1, <1>2, UnreadIs
\* An answer takes just what has been read off the stream.
<1>5. ASSUME Rest' = Rest, body' = <<>>, phase' = "RequestLine",
             \E rest \in [1 .. contentLength - Len(body) -> Fresh] :
                 served' = Append(served, Answer("test", body \o rest))
      PROVE  RS!Next
  <2>1. ~Ended' /\ PhaseSeen' = "RequestLine"
    BY <1>5 DEF Ended, PhaseSeen
  <2>2. Unread' = Rest
    <3>1. (SocketInv /\ ~Ended /\ accepting # 1 => Taken = line \o body)'
      BY TakenIs, PTL
    <3>2. Taken' = <<>> \o <<>>
      BY <1>1, <1>2, <1>5, <2>1, <3>1
    <3>3. <<>> \in Seq(Bytes)
      BY EmptySeq
    <3>4. Taken' = <<>> /\ <<>> \o Rest = Rest
      BY <1>4, <3>2, <3>3, ConcatEmptySeq
    <3> QED
      BY <1>3, <1>5, <2>1, <3>4
  <2> DEFINE k == Len(body)
             u == Unread
  <2>3. /\ Len(u) = k + Len(Rest)
        /\ SubSeq(u, 1, k) = body
        /\ SubSeq(u, k + 1, Len(u)) = Rest
    <3>1. /\ Len(body \o Rest) = Len(body) + Len(Rest)
          /\ SubSeq(body \o Rest, 1, Len(body)) = body
          /\ SubSeq(body \o Rest, Len(body) + 1, Len(body \o Rest)) = Rest
      BY <1>2, <1>4, AfterPrefix
    <3>2. u = body \o Rest
      BY <1>4
    <3> HIDE DEF u
    <3> QED
      BY <3>1, <3>2
  <2> HIDE DEF u
  <2>4. k \in {m \in 0 .. contentLength : m <= Len(u)}
    BY <1>2, <1>4, <2>3
  <2>5. /\ \E rest \in [1 .. contentLength - k -> Fresh] :
                served' = Append(served, RS!Answer("test", SubSeq(u, 1, k) \o rest))
        /\ Unread' = RS!Drop(u, k)
    BY <1>5, <2>2, <2>3 DEF RS!Answer, RS!Drop, Answer
  <2> HIDE DEF k
  <2>6. RS!TakeBody
    BY <1>1, <1>4, <2>1, <2>4, <2>5, Zenon DEF RS!TakeBody, PhaseSeen, Unread, u
  <2> QED
    BY <2>6 DEF RS!Next
<1>6. CASE AnswerTest(Unchanged(TRUE, "none"), 0, body)
  <2>1. /\ data' = data /\ pos' = pos + 0 /\ size' = size /\ wire' = wire
        /\ body' = <<>> /\ phase' = "RequestLine"
        /\ \E rest \in [1 .. contentLength - Len(body) -> Fresh] :
               served' = Append(served, Answer("test", body \o rest))
    BY <1>6 DEF AnswerTest, Received, Unchanged, Peeked
  <2>2. pos' = pos
    BY <1>2, <2>1 DEF BufferInv, Filled
  <2>3. Rest' = Rest
    BY <2>1, <2>2 DEF Rest, Buffered
  <2> QED
    BY <1>5, <2>1, <2>3
<1>7. CASE \E r \in Peek :
             LET block == Block(r, contentLength - Len(body))
             IN  \/ ~r.ok /\ AnswerTest(r, 0, body) /\ lostBody' = TRUE
                 \/ /\ r.ok
                    /\ Received(r, Len(block), r.limit)
                    /\ body' = body \o block
                    /\ UNCHANGED <<phase, served, lostBody>>
  <2> DEFINE block(r) == Block(r, contentLength - Len(body))
  <2>1. PICK r \in Peek :
          \/ ~r.ok /\ AnswerTest(r, 0, body) /\ lostBody' = TRUE
          \/ /\ r.ok
             /\ Received(r, Len(block(r)), r.limit)
             /\ body' = body \o block(r)
             /\ UNCHANGED <<phase, served, lostBody>>
    BY <1>7
  <2>2. PeekTold(r)
    BY <1>2, PeekLoses
  <2>3. CASE ~r.ok /\ AnswerTest(r, 0, body) /\ lostBody' = TRUE
    <3>1. /\ data' = r.data /\ pos' = r.pos + 0 /\ size' = r.size /\ wire' = r.wire
          /\ body' = <<>> /\ phase' = "RequestLine"
          /\ \E rest \in [1 .. contentLength - Len(body) -> Fresh] :
                 served' = Append(served, Answer("test", body \o rest))
      BY <2>3 DEF AnswerTest, Received
    <3>2. pos' = r.pos
      BY <2>2, <3>1 DEF PeekTold, Filled
    <3>3. Ahead(r.data, r.pos, r.size) \o r.wire = Rest
      BY <2>2 DEF PeekTold, Rest
    <3>4. Rest' = Rest
      BY <3>1, <3>2, <3>3, Zenon DEF Rest, Buffered, Ahead
    <3> QED
      BY <1>5, <3>1, <3>4
  <2>4. CASE /\ r.ok
             /\ Received(r, Len(block(r)), r.limit)
             /\ body' = body \o block(r)
             /\ UNCHANGED <<phase, served, lostBody>>
    <3> DEFINE k == contentLength - Len(body)
               b == block(r)
               m == Len(b)
    <3>1. /\ data' = r.data /\ pos' = r.pos + m /\ size' = r.size /\ wire' = r.wire
          /\ body' = body \o b /\ UNCHANGED <<phase, served>>
      BY <2>4 DEF Received
    <3>2. Filled(r.data, r.pos, r.size) /\ r.pos < r.size
      BY <2>2, <2>4 DEF PeekTold
    <3>3. r.pos \in Nat /\ r.size \in Nat /\ r.size >= 0 /\ k \in Nat
      BY <1>2, <3>2 DEF Filled
    <3>4. /\ b \in Seq(Bytes)
          /\ Ahead(r.data, r.pos, r.size) = b \o Ahead(r.data, r.pos + m, r.size)
      BY <3>2, <3>3, BlockIs
    <3> HIDE DEF b, m
    <3>5. ~Ended'
      BY <1>1, <3>1 DEF Ended
    <3>6. Rest = b \o Rest'
      BY <1>1, <2>2, <3>1, <3>4, <3>5, RestMoves
    <3>7. Taken' = Taken \o b
      <4>1. (SocketInv /\ ~Ended /\ phase = "Body" => Taken = body)'
        BY TakenIs, PTL
      <4> QED
        BY <1>1, <1>2, <3>1, <3>5, <4>1
    <3>8. Unread' = Unread /\ PhaseSeen' = PhaseSeen
      BY <1>1, <3>1, <3>4, <3>5, <3>6, <3>7, UnreadKept
    <3> QED
      BY <1>1, <3>1, <3>8 DEF RS!vars, Unread, PhaseSeen
  <2> QED
    BY <2>1, <2>3, <2>4
<1> QED
  BY <1>6, <1>7 DEF ReadBody

LEMMA GarbledCloses == SocketInv /\ GarbledRead => RS!Next
<1> SUFFICES ASSUME SocketInv, GarbledRead PROVE RS!Next
  OBVIOUS
<1>1. ~Ended /\ (phase' = "Closed" \/ phase' = "Crashed") /\ UNCHANGED <<path, contentLength, served>>
  BY DEF GarbledRead, Ended, request
<1> QED
  BY <1>1, CloseIsClose

LEMMA SocketStepIsStreamStep == SocketInv /\ SocketInv' /\ [Next]_vars => [RS!Next]_(RS!vars)
<1>1. CASE UNCHANGED vars
  BY <1>1 DEF vars, buffer, request, RS!vars, Ended, Unread, Taken, Buffered
<1> QED
  BY <1>1, ScanStutters, AcceptTakes, BodyTakes, GarbledCloses DEF Next

LEMMA SocketStartsAsStream == Init => RS!Init
<1> SUFFICES ASSUME Init PROVE RS!Init
  OBVIOUS
<1>1. SocketInv /\ ~Ended
  BY SocketInit DEF Init, Ended
<1>2. /\ wire \in Streams /\ line = <<>> /\ body = <<>> /\ accepting = 0
      /\ data = <<>> /\ pos = 0 /\ size = 0
  BY DEF Init
<1>3. Unread = Taken \o Rest /\ Buffered = Ahead(data, pos, size) /\ wire \in Seq(Bytes)
  BY <1>1, UnreadIs
<1>4. Taken = <<>>
  <2>1. <<>> \in Seq(Bytes)
    BY EmptySeq
  <2>2. Taken = <<>> \o <<>>
    BY <1>1, <1>2, TakenIs
  <2> QED
    BY <2>1, <2>2, ConcatEmptySeq
<1>5. Buffered = <<>>
  <2>1. ~(0 < 0) /\ 0 + 1 \in Int /\ 0 \in Int /\ 0 < 0 + 1
    OBVIOUS
  <2>2. SubSeq(<<>>, 0 + 1, 0) = <<>>
    BY <2>1, SubSeqEmpty
  <2> QED
    BY <1>2, <2>1, <2>2 DEF Buffered
<1>6. Unread = wire
  <2>1. <<>> \o wire = wire
    BY <1>3, ConcatEmptySeq
  <2> QED
    BY <1>3, <1>4, <1>5, <2>1 DEF Rest
<1> QED
  BY <1>1, <1>2, <1>6 DEF Init, RS!Init, RS!Paths, Unread

\* Requests are cut out of the client's stream in order and without loss,
\* however its bytes are split into segments and wherever recv() fails.
THEOREM SocketImplementsStream == Spec => RefinesRequestStream
BY SocketInvariant, SocketStartsAsStream, SocketStepIsStreamStep, PTL
DEF Spec, RefinesRequestStream, RS!Spec

-----------------------------------------------------------------------------
(* Lines that are refused.                                                 *)

\* Bytes without a '\r' among them belong to one line.
LEMMA LineGoesOn ==
  ASSUME NEW s \in Seq(Bytes), NEW k \in 0 .. Len(s), \A j \in 1 .. k : s[j] # "R"
  PROVE  LengthBeforeCR(s) >= k
<1> DEFINE n == LengthBeforeCR(s)
<1>1. n \in 0 .. Len(s) /\ Len(s) \in Nat /\ (n < Len(s) => s[n + 1] = "R")
  BY LengthBeforeCRIs
<1> HIDE DEF n
<1>2. n >= k
  <2> SUFFICES ASSUME n < k PROVE FALSE
    BY <1>1
  <2>1. n + 1 \in 1 .. k /\ n < Len(s)
    BY <1>1
  <2> QED
    BY <1>1, <2>1
<1> QED
  BY <1>2 DEF n

LEMMA NotViable ==
  ASSUME NEW s \in Seq(Bytes), NEW k \in 0 .. Len(s), \A j \in 1 .. k : s[j] # "R",
         \/ k >= LineSize
         \/ \E i \in 1 .. k : s[i] = "Z"
         \/ k + 2 <= Len(s) /\ s[k + 1] = "R" /\ s[k + 2] # "N"
  PROVE  ~Viable(s)
<1> DEFINE n == LengthBeforeCR(s)
<1>1. n \in 0 .. Len(s) /\ Len(s) \in Nat /\ (\A j \in 1 .. n : s[j] # "R") /\ n >= k
  BY LengthBeforeCRIs, LineGoesOn
<1>2. Viable(s) <=> /\ n < LineSize
                    /\ \A i \in 1 .. n : s[i] # "Z"
                    /\ Len(s) >= n + 2 => s[n + 2] = "N"
  BY DEF Viable
<1> HIDE DEF n
<1>3. CASE k >= LineSize
  BY <1>1, <1>2, <1>3, SizesAssumption
<1>4. CASE \E i \in 1 .. k : s[i] = "Z"
  <2> PICK i \in 1 .. k : s[i] = "Z"
    BY <1>4
  <2>1. i \in 1 .. n
    BY <1>1
  <2> QED
    BY <1>2, <2>1
<1>5. CASE k + 2 <= Len(s) /\ s[k + 1] = "R" /\ s[k + 2] # "N"
  <2>1. n = k
    <3> SUFFICES ASSUME n # k PROVE FALSE
      OBVIOUS
    <3>1. k + 1 \in 1 .. n
      BY <1>1
    <3> QED
      BY <1>1, <1>5, <3>1
  <2> QED
    BY <1>1, <1>2, <1>5, <2>1
<1> QED
  BY <1>3, <1>4, <1>5

\* The bytes seen so far are those taken and those ahead after the peek.
LEMMA SeenIs ==
  ASSUME SocketInv, ~Ended, NEW r, PeekTold(r), r.ok, wire' = r.wire
  PROVE  LET ahead == Ahead(r.data, r.pos, r.size)
             seen == Taken \o Buffered \o SubSeq(wire, 1, Len(wire) - Len(wire'))
         IN  /\ seen = Taken \o ahead
             /\ ahead \in Seq(Bytes)
             /\ Len(ahead) = r.size - r.pos
             /\ r.pos \in Nat /\ r.size \in Nat /\ r.pos < r.size
             /\ \A i \in 1 .. r.size - r.pos : ahead[i] = r.data[r.pos + i]
<1> DEFINE ahead == Ahead(r.data, r.pos, r.size)
           got == SubSeq(wire, 1, Len(wire) - Len(wire'))
<1>1. /\ Filled(r.data, r.pos, r.size) /\ r.pos < r.size /\ r.wire \in Seq(Bytes)
      /\ SubSeq(r.data, r.pos + 1, r.size)
           = Buffered \o SubSeq(wire, 1, Len(wire) - Len(r.wire))
  BY DEF PeekTold
<1>2. r.pos \in Nat /\ r.size \in Nat /\ ~(r.size < 0)
  BY <1>1 DEF Filled
<1>3. ahead = SubSeq(r.data, r.pos + 1, r.size)
  BY <1>2, Zenon DEF Ahead
<1>4. ahead = Buffered \o got
  BY <1>1, <1>3
<1>5. /\ ahead \in Seq(Bytes) /\ Len(ahead) = r.size - r.pos
      /\ \A i \in 1 .. r.size - r.pos : ahead[i] = r.data[r.pos + i]
  <2> DEFINE d == r.data
             p == r.pos
             sz == r.size
  <2>1. Filled(d, p, sz) /\ sz >= 0
    BY <1>1, <1>2
  <2> HIDE DEF d, p, sz
  <2>2. /\ Ahead(d, p, sz) \in Seq(Bytes)
        /\ sz >= 0 => Len(Ahead(d, p, sz)) = sz - p
        /\ sz >= 0 => \A i \in 1 .. sz - p : Ahead(d, p, sz)[i] = d[p + i]
    BY <2>1, FilledAhead
  <2> QED
    BY <2>1, <2>2 DEF d, p, sz
<1>6. Taken \in Seq(Bytes) /\ Buffered \in Seq(Bytes) /\ wire \in Seq(Bytes)
  BY TakenIs, UnreadIs
<1>7. got \in Seq(Bytes)
  <2> DEFINE k == Len(wire) - Len(wire')
  <2>1. k \in Int /\ k <= Len(wire)
    BY <1>1, <1>6
  <2> HIDE DEF k
  <2>2. 1 \in Int /\ \A i \in 1 .. k : wire[i] \in Bytes
    BY <1>6, <2>1
  <2> QED
    BY <2>1, <2>2, SubSeqProperties DEF k
<1> HIDE DEF got, ahead
<1>8. (Taken \o Buffered) \o got = Taken \o (Buffered \o got)
  BY <1>6, <1>7, ConcatAssociative
<1> QED
  BY <1>1, <1>2, <1>4, <1>5, <1>8 DEF got, ahead

\* Bytes of a block are bytes of what is seen, after the line.
LEMMA SeenBytes ==
  ASSUME NEW a \in Seq(Bytes), NEW b \in Seq(Bytes)
  PROVE  /\ a \o b \in Seq(Bytes) /\ Len(a) \in Nat /\ Len(b) \in Nat
         /\ Len(a \o b) = Len(a) + Len(b)
         /\ \A i \in 1 .. Len(a) : (a \o b)[i] = a[i]
         /\ \A i \in 1 .. Len(b) : (a \o b)[Len(a) + i] = b[i]
<1>1. /\ a \o b \in Seq(Bytes) /\ Len(a) \in Nat /\ Len(b) \in Nat
      /\ Len(a \o b) = Len(a) + Len(b)
      /\ \A i \in 1 .. Len(a) + Len(b) : (a \o b)[i] = IF i <= Len(a) THEN a[i] ELSE b[i - Len(a)]
  BY ConcatProperties
<1>2. ASSUME NEW i \in 1 .. Len(a) PROVE (a \o b)[i] = a[i]
  BY <1>1
<1>3. ASSUME NEW i \in 1 .. Len(b) PROVE (a \o b)[Len(a) + i] = b[i]
  <2>1. Len(a) + i \in 1 .. Len(a) + Len(b) /\ ~(Len(a) + i <= Len(a)) /\ (Len(a) + i) - Len(a) = i
    BY <1>1
  <2> QED
    BY <1>1, <2>1
<1> QED
  BY <1>1, <1>2, <1>3

Refused == Ended' /\ ~Ended /\ cause' = "line"
SeenNow == Taken \o Buffered \o SubSeq(wire, 1, Len(wire) - Len(wire'))

LEMMA ScanRefuses == SocketInv /\ ScanLine /\ Refused => ~Viable(SeenNow)
<1> SUFFICES ASSUME SocketInv, ScanLine, Refused PROVE ~Viable(SeenNow)
  OBVIOUS
<1>1. InHead /\ accepting = 0 /\ size - pos >= 0 /\ BufferInv /\ ~Ended
  BY DEF ScanLine, ReadingLine, InHead, BufferLeft, SocketInv, Ended
<1> DEFINE block(r) == Block(r, LineSize - Len(line))
           n(r) == LengthBeforeCR(block(r))
           text(r) == SubSeq(block(r), 1, n(r))
           bad(r) == TooLong(n(r)) \/ \E i \in 1 .. n(r) : text(r)[i] = "Z"
<1>2. PICK r \in Peek :
        /\ CountHead(r)
        /\ \/ ~r.ok /\ Fail(r)
           \/ r.ok /\ bad(r) /\ Fail([r EXCEPT !.why = "line"])
           \/ /\ r.ok /\ ~bad(r)
              /\ Received(r, n(r), r.limit)
              /\ line' = line \o text(r)
              /\ accepting' = IF n(r) < Len(block(r)) THEN 2 ELSE 0
              /\ UNCHANGED <<phase, request, body, served, lostBody>>
  BY DEF ScanLine
<1>3. PeekTold(r)
  BY <1>1, PeekLoses
<1>4. r.ok /\ bad(r) /\ wire' = r.wire
  <2>1. ~(~r.ok /\ Fail(r))
    BY <1>3 DEF Refused, Fail, Received, PeekTold
  <2>2. ~(UNCHANGED <<phase, request, body, served, lostBody>>)
    BY DEF Refused, Ended
  <2>3. r.ok /\ bad(r) /\ Fail([r EXCEPT !.why = "line"])
    BY <1>2, <2>1, <2>2
  <2>4. Fail([r EXCEPT !.why = "line"])
    BY <2>3
  <2>5. wire' = r.wire
    BY <2>4 DEF Fail, Received
  <2> HIDE DEF bad
  <2> QED
    BY <2>3, <2>5
<1> DEFINE m == n(r)
           b == block(r)
           t == text(r)
           ahead == Ahead(r.data, r.pos, r.size)
<1>5. /\ b \in Seq(Bytes) /\ m \in 0 .. Len(b)
      /\ Len(b) = Least(LineSize - Len(line), r.size - r.pos)
      /\ Len(t) = m
      /\ \A i \in 1 .. m : t[i] # "R" /\ t[i] = r.data[r.pos + i]
  BY <1>1, <1>3, <1>4, ScanTold
<1>6. /\ SeenNow = Taken \o ahead /\ ahead \in Seq(Bytes) /\ Len(ahead) = r.size - r.pos
      /\ r.pos \in Nat /\ r.size \in Nat /\ r.pos < r.size
      /\ \A i \in 1 .. r.size - r.pos : ahead[i] = r.data[r.pos + i]
  BY <1>1, <1>3, <1>4, SeenIs DEF SeenNow
<1>7. Taken = line /\ line \in Seq(Bytes) /\ Len(line) \in Nat /\ Len(line) < LineSize
      /\ \A i \in 1 .. Len(line) : line[i] # "R"
  BY <1>1, TakenIs DEF SocketInv, LineInv
<1>8. TooLong(m) \/ \E i \in 1 .. m : t[i] = "Z"
  BY <1>4
<1> HIDE DEF m, b, t, ahead
<1> DEFINE s == line \o ahead
           k == Len(line) + m
<1>9. /\ s \in Seq(Bytes) /\ Len(s) = Len(line) + Len(ahead) /\ Len(ahead) \in Nat
      /\ \A i \in 1 .. Len(line) : s[i] = line[i]
      /\ \A i \in 1 .. Len(ahead) : s[Len(line) + i] = ahead[i]
  BY <1>6, <1>7, SeenBytes
<1>10. m \in Nat /\ m <= Len(ahead) /\ m <= LineSize - Len(line)
  BY <1>5, <1>6, <1>7, SizesAssumption DEF Least
<1> HIDE DEF s
<1>11. \A i \in 1 .. m : s[Len(line) + i] = t[i]
  <2> TAKE i \in 1 .. m
  <2>1. i \in 1 .. Len(ahead) /\ i \in 1 .. r.size - r.pos
    BY <1>6, <1>10
  <2>2. s[Len(line) + i] = ahead[i] /\ ahead[i] = r.data[r.pos + i] /\ t[i] = r.data[r.pos + i]
    BY <1>5, <1>6, <1>9, <2>1, Zenon
  <2> QED
    BY <2>2
<1>12. k \in 0 .. Len(s)
  BY <1>7, <1>9, <1>10
<1>13. \A j \in 1 .. k : s[j] # "R"
  <2> TAKE j \in 1 .. k
  <2>1. CASE j <= Len(line)
    <3>1. j \in 1 .. Len(line)
      BY <1>7, <1>10, <2>1
    <3> QED
      BY <1>7, <1>9, <3>1
  <2>2. CASE ~(j <= Len(line))
    <3> DEFINE i == j - Len(line)
    <3>1. i \in 1 .. m /\ Len(line) + i = j
      BY <1>7, <1>10, <2>2
    <3> HIDE DEF i
    <3>2. s[Len(line) + i] = t[i] /\ t[i] # "R"
      BY <1>5, <1>11, <3>1
    <3> QED
      BY <3>1, <3>2
  <2> QED
    BY <2>1, <2>2
<1>14. k >= LineSize \/ \E i \in 1 .. k : s[i] = "Z"
  <2>1. CASE TooLong(m)
    <3>1. m >= LineSize - Len(line)
      BY <1>7, <1>10, <2>1, SizesAssumption DEF TooLong
    <3> QED
      BY <1>7, <1>10, <3>1, SizesAssumption
  <2>2. CASE \E i \in 1 .. m : t[i] = "Z"
    <3> PICK i \in 1 .. m : t[i] = "Z"
      BY <2>2
    <3>1. Len(line) + i \in 1 .. k
      BY <1>7, <1>10
    <3>2. s[Len(line) + i] = "Z"
      BY <1>11
    <3> QED
      BY <3>1, <3>2
  <2> QED
    BY <1>8, <2>1, <2>2
<1> HIDE DEF k
<1>15. ~Viable(s)
  BY <1>9, <1>12, <1>13, <1>14, NotViable
<1> QED
  BY <1>6, <1>7, <1>15 DEF s

LEMMA AcceptRefuses == SocketInv /\ SocketInv' /\ AcceptLineEnd /\ Refused => ~Viable(SeenNow)
<1> SUFFICES ASSUME SocketInv, SocketInv', AcceptLineEnd, Refused PROVE ~Viable(SeenNow)
  OBVIOUS
<1>1. InHead /\ accepting > 0 /\ size - pos >= 0 /\ BufferInv /\ ~Ended
  BY DEF AcceptLineEnd, ReadingLine, InHead, BufferLeft, SocketInv, Ended
<1> DEFINE block(r) == Block(r, accepting)
           n(r) == Len(block(r))
<1>2. PICK r \in Peek :
        \/ ~r.ok /\ CountHead(r) /\ Fail(r)
        \/ r.ok /\ block(r) # Expected(n(r)) /\ CountHead(r) /\ Fail([r EXCEPT !.why = "line"])
        \/ /\ r.ok /\ block(r) = Expected(n(r)) /\ n(r) < accepting
           /\ CountHead(r)
           /\ Received(r, n(r), r.limit)
           /\ accepting' = accepting - n(r)
           /\ UNCHANGED <<phase, line, request, body, served, lostBody>>
        \/ r.ok /\ block(r) = Expected(n(r)) /\ n(r) = accepting /\ EndLine(r, n(r))
  BY DEF AcceptLineEnd
<1>3. PeekTold(r)
  BY <1>1, PeekLoses
<1> DEFINE b == block(r)
           m == n(r)
           ahead == Ahead(r.data, r.pos, r.size)
<1>4. r.ok /\ b # Expected(m) /\ wire' = r.wire
  <2>1. ~(~r.ok /\ Fail(r))
    BY <1>3 DEF Refused, Fail, Received, PeekTold
  <2>2. ~(UNCHANGED <<phase, line, request, body, served, lostBody>>)
    BY DEF Refused, Ended
  <2>3. ~EndLine(r, m)
    BY DEF Refused, Ended, EndLine, EndHead
  <2>4. r.ok /\ b # Expected(m) /\ Fail([r EXCEPT !.why = "line"])
    BY <1>2, <2>1, <2>2, <2>3
  <2>5. Fail([r EXCEPT !.why = "line"])
    BY <2>4
  <2>6. wire' = r.wire
    BY <2>5 DEF Fail, Received
  <2> QED
    BY <2>4, <2>6
<1>5. /\ b \in Seq(Bytes) /\ m \in 1 .. accepting
      /\ m = Least(accepting, r.size - r.pos)
      /\ \A i \in 1 .. m : b[i] = r.data[r.pos + i]
  BY <1>1, <1>3, <1>4, AcceptTold
<1>6. /\ SeenNow = Taken \o ahead /\ ahead \in Seq(Bytes) /\ Len(ahead) = r.size - r.pos
      /\ r.pos \in Nat /\ r.size \in Nat /\ r.pos < r.size
      /\ \A i \in 1 .. r.size - r.pos : ahead[i] = r.data[r.pos + i]
  BY <1>1, <1>3, <1>4, SeenIs DEF SeenNow
<1>7. /\ line \in Seq(Bytes) /\ Len(line) \in Nat
      /\ \A i \in 1 .. Len(line) : line[i] # "R"
      /\ (accepting = 2 => Taken = line /\ pos < size /\ data[pos + 1] = "R")
      /\ (accepting = 1 => Taken = line \o <<"R">>)
  BY <1>1, TakenIs DEF SocketInv, LineInv
<1>8. Len(b) = m
  OBVIOUS
<1>9. /\ accepting = 2 /\ m = 1 => Expected(m) = <<"R">>
      /\ accepting = 2 /\ m = 2 => Expected(m) = <<"R", "N">>
      /\ accepting = 1 => m = 1 /\ Expected(m) = <<"N">>
      /\ accepting = 1 \/ accepting = 2
  <2>1. m \in 1 .. accepting
    BY <1>5
  <2> HIDE DEF m
  <2> QED
    BY <1>1, <2>1, ExpectedIs
<1> HIDE DEF m, b, ahead
<1>10. \A i \in 1 .. m : b[i] = ahead[i] /\ i \in 1 .. Len(ahead)
  <2>1. m \in Nat /\ m <= r.size - r.pos
    BY <1>1, <1>5, <1>6 DEF Least, SocketInv, LineInv
  <2> TAKE i \in 1 .. m
  <2>2. i \in 1 .. r.size - r.pos /\ i \in 1 .. Len(ahead)
    BY <1>6, <2>1
  <2>3. b[i] = r.data[r.pos + i] /\ ahead[i] = r.data[r.pos + i]
    BY <1>5, <1>6, <2>2, Zenon
  <2> QED
    BY <2>2, <2>3
<1> DEFINE k == Len(line)
<1>11. CASE accepting = 2
  <2> DEFINE s == line \o ahead
  <2>1. /\ s \in Seq(Bytes) /\ Len(s) = k + Len(ahead) /\ Len(ahead) \in Nat
        /\ \A i \in 1 .. k : s[i] = line[i]
        /\ \A i \in 1 .. Len(ahead) : s[k + i] = ahead[i]
    BY <1>6, <1>7, SeenBytes
  <2> HIDE DEF s
  <2>2. 1 \in 1 .. m /\ (m = 1 \/ m = 2)
    BY <1>5, <1>11
  <2>3. ahead[1] = "R" /\ b[1] = "R"
    <3>1. r.data = data /\ r.pos = pos
      BY <1>3, <1>7, <1>11 DEF PeekTold
    <3>2. b[1] = r.data[r.pos + 1]
      BY <1>5, <2>2
    <3> QED
      BY <1>7, <1>10, <1>11, <2>2, <3>1, <3>2
  <2>4. m = 2 /\ ahead[2] # "N" /\ 2 \in 1 .. Len(ahead)
    <3>1. m # 1
      <4> SUFFICES ASSUME m = 1 PROVE FALSE
        OBVIOUS
      <4> DEFINE x == <<"R">>
      <4>1. x \in Seq(Bytes) /\ Len(x) = 1 /\ x[1] = "R"
        BY CRLFParts
      <4>2. b # x
        BY <1>4, <1>9, <1>11
      <4> HIDE DEF x
      <4>3. \A i \in 1 .. Len(b) : b[i] = x[i]
        BY <1>8, <2>3, <4>1
      <4> QED
        BY <1>5, <1>8, <4>1, <4>2, <4>3, SeqEqual
    <3>2. m = 2
      BY <2>2, <3>1
    <3>3. b[2] # "N"
      <4> SUFFICES ASSUME b[2] = "N" PROVE FALSE
        OBVIOUS
      <4> DEFINE x == <<"R", "N">>
      <4>1. x \in Seq(Bytes) /\ Len(x) = 2 /\ x[1] = "R" /\ x[2] = "N"
        BY CRLFParts
      <4>2. b # x
        BY <1>4, <1>9, <1>11, <3>2
      <4> HIDE DEF x
      <4>3. \A i \in 1 .. Len(b) : b[i] = x[i]
        BY <1>8, <2>3, <3>2, <4>1
      <4> QED
        BY <1>5, <1>8, <3>2, <4>1, <4>2, <4>3, SeqEqual
    <3> QED
      BY <1>10, <3>2, <3>3
  <2>5. k \in 0 .. Len(s) /\ k + 2 <= Len(s)
    BY <1>7, <2>1, <2>4
  <2>6. s[k + 1] = "R" /\ s[k + 2] # "N"
    BY <2>1, <2>3, <2>4
  <2>7. \A j \in 1 .. k : s[j] # "R"
    BY <1>7, <2>1
  <2> HIDE DEF k
  <2>8. ~Viable(s)
    BY <2>1, <2>5, <2>6, <2>7, NotViable
  <2> QED
    BY <1>6, <1>7, <1>11, <2>8 DEF s
<1>12. CASE accepting = 1
  <2> DEFINE x == <<"R">>
             y == line \o x
             s == y \o ahead
  <2>1. x \in Seq(Bytes) /\ Len(x) = 1 /\ x[1] = "R"
    BY CRLFParts
  <2> HIDE DEF x
  <2>2. /\ y \in Seq(Bytes) /\ Len(y) = k + 1
        /\ \A i \in 1 .. k : y[i] = line[i]
        /\ y[k + 1] = "R"
    <3>1. /\ line \o x \in Seq(Bytes)
          /\ Len(line \o x) = Len(line) + Len(x)
          /\ \A i \in 1 .. Len(line) : (line \o x)[i] = line[i]
          /\ \A i \in 1 .. Len(x) : (line \o x)[Len(line) + i] = x[i]
      BY <1>7, <2>1, SeenBytes
    <3> QED
      BY <2>1, <3>1
  <2> HIDE DEF y
  <2>3. /\ s \in Seq(Bytes) /\ Len(s) = Len(y) + Len(ahead) /\ Len(ahead) \in Nat
        /\ \A i \in 1 .. Len(y) : s[i] = y[i]
        /\ \A i \in 1 .. Len(ahead) : s[Len(y) + i] = ahead[i]
    BY <1>6, <2>2, SeenBytes
  <2> HIDE DEF s
  <2>4. ahead[1] # "N" /\ 1 \in 1 .. Len(ahead)
    <3> DEFINE z == <<"N">>
    <3>1. z \in Seq(Bytes) /\ Len(z) = 1 /\ z[1] = "N"
      BY CRLFParts
    <3>2. b # z /\ m = 1
      BY <1>4, <1>9, <1>12
    <3> HIDE DEF z
    <3>3. b[1] # "N"
      <4> SUFFICES ASSUME b[1] = "N" PROVE FALSE
        OBVIOUS
      <4>1. \A i \in 1 .. Len(b) : b[i] = z[i]
        BY <1>8, <3>1, <3>2
      <4> QED
        BY <1>5, <1>8, <3>1, <3>2, <4>1, SeqEqual
    <3> QED
      BY <1>10, <3>2, <3>3
  <2>5. k \in 0 .. Len(s) /\ k + 2 <= Len(s)
    BY <1>7, <2>2, <2>3, <2>4
  <2>6. s[k + 1] = "R" /\ s[k + 2] # "N"
    <3>1. k + 1 \in 1 .. Len(y) /\ Len(y) + 1 = k + 2
      BY <1>7, <2>2
    <3> QED
      BY <2>2, <2>3, <2>4, <3>1
  <2>7. \A j \in 1 .. k : s[j] # "R"
    <3> TAKE j \in 1 .. k
    <3>1. j \in 1 .. Len(y)
      BY <1>7, <2>2
    <3>2. s[j] = y[j] /\ y[j] = line[j]
      BY <2>2, <2>3, <3>1
    <3> QED
      BY <1>7, <3>2
  <2> HIDE DEF k
  <2>8. ~Viable(s)
    BY <2>3, <2>5, <2>6, <2>7, NotViable
  <2> QED
    BY <1>6, <1>7, <1>12, <2>8 DEF s, y, x
<1> QED
  BY <1>9, <1>11, <1>12

LEMMA OthersRefuseNothing == SocketInv /\ (ReadBody \/ GarbledRead \/ UNCHANGED vars) => ~Refused
<1> SUFFICES ASSUME SocketInv, ReadBody \/ GarbledRead \/ UNCHANGED vars PROVE ~Refused
  OBVIOUS
<1>1. CASE ReadBody
  <2>1. phase = "Body" /\ (phase' = "RequestLine" \/ phase' = phase)
    BY <1>1 DEF ReadBody, AnswerTest
  <2> QED
    BY <2>1 DEF Refused, Ended
<1>2. CASE GarbledRead
  <2>1. size < 0
    BY <1>2 DEF GarbledRead, BufferLeft, SocketInv, BufferInv, Filled
  <2>2. ~Ended /\ cause' = cause
    BY <1>2 DEF GarbledRead, Ended
  <2>3. cause = "recv"
    BY <2>1, <2>2 DEF SocketInv, FailedInv
  <2> QED
    BY <2>2, <2>3 DEF Refused
<1>3. CASE UNCHANGED vars
  BY <1>3 DEF vars, Refused, Ended
<1> QED
  BY <1>1, <1>2, <1>3

\* buffer_read_line refuses a line because of its bytes only when the bytes
\* received so far cannot begin a line, in whatever segments they came.
THEOREM OnlyHopelessLinesRefused == Spec => NoViableLineRefused
<1>1. SocketInv /\ SocketInv' /\ [Next]_vars /\ Refused => ~Viable(SeenNow)
  BY ScanRefuses, AcceptRefuses, OthersRefuseNothing DEF Next
<1>2. SocketInv /\ SocketInv' /\ [Next]_vars =>
        [(Ended' /\ ~Ended /\ cause' = "line") =>
            ~Viable(Taken \o Buffered \o SubSeq(wire, 1, Len(wire) - Len(wire')))]_vars
  BY <1>1 DEF Refused, SeenNow
<1> QED
  BY <1>2, SocketInvariant, PTL DEF Spec, NoViableLineRefused
=============================================================================
