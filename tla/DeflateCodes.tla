---------------------------- MODULE DeflateCodes ----------------------------
(***************************************************************************)
(* The bits deflate_compress_fixed_block (src/gzip/deflate.cpp) writes for *)
(* literals, references and the end of a block, next to the inflater of    *)
(* the client that reads them back.  The writer is translated from the     *)
(* code; the inflater is the format's (RFC 1951, fixed Huffman codes), as  *)
(* the tests use it through Python's gzip module.                          *)
(***************************************************************************)
EXTENDS Integers, Sequences, Functions

CONSTANTS
    Literals,       \* the bytes written
    References,     \* the pairs <<distance, length>> written
    MaxTokens       \* the most tokens in a block

ASSUME LiteralsAssumption == Literals \subseteq 0 .. 255
ASSUME ReferencesAssumption == References \subseteq (1 .. 32768) \X (3 .. 258)
ASSUME MaxTokensAssumption == MaxTokens \in Nat

VARIABLES
    out,        \* the bits written, in the order the inflater reads them
    written,    \* history: the tokens they stand for
    taken,      \* how many bits the inflater has read
    inflated    \* the tokens it has read

blockVars == <<out, written, taken, inflated>>

Literal(c) == <<"literal", c>>
Reference(d, l) == <<"reference", d, l>>
End == <<"end">>
Garbage == <<"garbage">>

-----------------------------------------------------------------------------
(* The writer.                                                             *)

\* bit_write_lsb and bit_write_msb: `bits' bits of val, the lowest or the
\* highest first.
BitsLSB(val, bits) == [i \in 1 .. bits |-> (val \div 2^(i - 1)) % 2]
BitsMSB(val, bits) == [i \in 1 .. bits |-> (val \div 2^(bits - i)) % 2]

\* length_buckets and distance_buckets: first value, first code.  Bucket i,
\* counted from 0, has i extra bits.
LengthBuckets == << <<3, 257>>, <<11, 265>>, <<19, 269>>, <<35, 273>>, <<67, 277>>, <<131, 281>> >>
DistanceBuckets ==
    << <<1, 0>>, <<5, 4>>, <<9, 6>>, <<17, 8>>, <<33, 10>>, <<65, 12>>, <<129, 14>>, <<257, 16>>,
       <<513, 18>>, <<1025, 20>>, <<2049, 22>>, <<4097, 24>>, <<8193, 26>>, <<16385, 18>> >>

\* Fault: a bucket is only entered past its first value.
BucketAfter(value, buckets) ==
    CHOOSE b \in 1 .. Len(buckets) :
        /\ value > buckets[b][1] \/ b = 1
        /\ \A later \in b + 1 .. Len(buckets) : value <= buckets[later][1]

\* The last bucket that begins at or before the value.
BucketOf(value, buckets) ==
    CHOOSE b \in 1 .. Len(buckets) :
        /\ value >= buckets[b][1]
        /\ \A later \in b + 1 .. Len(buckets) : value < buckets[later][1]

\* to_code_extra_coding
ToCodeExtra(value, buckets) ==
    LET b == BucketOf(value, buckets)
        relative == value - buckets[b][1]
    IN  [code |-> buckets[b][2] + relative \div 2^(b - 1),
         extra |-> relative % 2^(b - 1),
         extraBits |-> b - 1]

\* to_length_coding: 258 has a code of its own.
LengthCoding(length) ==
    IF length = 258 THEN [code |-> 285, extra |-> 0, extraBits |-> 0]
    ELSE ToCodeExtra(length, LengthBuckets)

DistanceCoding(distance) == ToCodeExtra(distance, DistanceBuckets)

\* write_fixed_literal
LiteralBits(c) == IF c < 144 THEN BitsMSB(48 + c, 8) ELSE BitsMSB(400 + (c - 144), 9)

\* write_fixed_reference
ReferenceBits(distance, length) ==
    LET l == LengthCoding(length)
        d == DistanceCoding(distance)
    IN  (IF l.code < 280 THEN BitsMSB(l.code - 256, 7) ELSE BitsMSB(l.code - 280 + 192, 8))
        \o BitsLSB(l.extra, l.extraBits)
        \o BitsMSB(d.code, 5)
        \o BitsLSB(d.extra, d.extraBits)

Write(bits, token) ==
    /\ End \notin Range(written)
    /\ out' = out \o bits
    /\ written' = Append(written, token)
    /\ UNCHANGED <<taken, inflated>>

WriteLiteral(c) == Len(written) < MaxTokens /\ Write(LiteralBits(c), Literal(c))

WriteReference(d, l) == Len(written) < MaxTokens /\ Write(ReferenceBits(d, l), Reference(d, l))

WriteEnd == Write(BitsMSB(0, 7), End)

-----------------------------------------------------------------------------
(* The inflater.                                                           *)

Left == SubSeq(out, taken + 1, Len(out))

\* The number the n bits after `from' stand for, sent highest or lowest bit first.
High(bits, from, n) ==
    LET value[i \in 0 .. n] == IF i = 0 THEN 0 ELSE 2 * value[i - 1] + bits[from + i]
    IN  value[n]
Low(bits, from, n) == High([i \in 1 .. n |-> bits[from + n + 1 - i]], 0, n)

\* The symbol the fixed code's next 7, 8 or 9 bits stand for, and their number.
Symbol(bits) ==
    LET seven == High(bits, 0, 7)
        eight == High(bits, 0, 8)
    IN  IF seven < 24 THEN [symbol |-> 256 + seven, used |-> 7]
        ELSE IF eight < 192 THEN [symbol |-> eight - 48, used |-> 8]
        ELSE IF eight < 200 THEN [symbol |-> 280 + eight - 192, used |-> 8]
        ELSE [symbol |-> 144 + High(bits, 0, 9) - 400, used |-> 9]

LengthExtraBits(s) == IF s < 265 \/ s = 285 THEN 0 ELSE (s - 261) \div 4
LengthBase(s) ==
    IF s < 265 THEN s - 254
    ELSE IF s = 285 THEN 258
    ELSE 3 + (4 + ((s - 261) % 4)) * 2^LengthExtraBits(s)

DistanceExtraBits(d) == IF d < 4 THEN 0 ELSE (d - 2) \div 2
DistanceBase(d) == IF d < 4 THEN d + 1 ELSE 1 + (2 + (d % 2)) * 2^DistanceExtraBits(d)

Take(token, n) ==
    /\ taken' = taken + n
    /\ inflated' = Append(inflated, token)
    /\ UNCHANGED <<out, written>>

\* A whole block is read symbol by symbol; the bits after it belong to the
\* trailer, here none, so that zeros stand for them.
Inflate ==
    /\ End \in Range(written)
    /\ {End, Garbage} \cap Range(inflated) = {}
    /\ LET bits == Left \o [i \in 1 .. 48 |-> 0]
           s == Symbol(bits)
           lengthBits == LengthExtraBits(s.symbol)
           d == High(bits, s.used + lengthBits, 5)
           distanceBits == DistanceExtraBits(d)
       IN  IF s.symbol < 256 THEN Take(Literal(s.symbol), s.used)
           ELSE IF s.symbol = 256 THEN Take(End, s.used)
           ELSE IF s.symbol > 285 \/ d > 29 THEN Take(Garbage, s.used)
           ELSE Take(Reference(DistanceBase(d) + Low(bits, s.used + lengthBits + 5, distanceBits),
                               LengthBase(s.symbol) + Low(bits, s.used, lengthBits)),
                     s.used + lengthBits + 5 + distanceBits)

BlockInit ==
    /\ out = <<>>
    /\ written = <<>>
    /\ taken = 0
    /\ inflated = <<>>

WriteBlock ==
    \/ \E c \in Literals : WriteLiteral(c)
    \/ \E r \in References : WriteReference(r[1], r[2])
    \/ WriteEnd

BlockNext == WriteBlock \/ Inflate

BlockSpec == BlockInit /\ [][BlockNext]_blockVars

-----------------------------------------------------------------------------
(* Properties                                                              *)

\* The inflater reads exactly the tokens that were written, and the end of the
\* block where it was written: the block round trips.
RoundTrips ==
    /\ Len(inflated) <= Len(written)
    /\ inflated = SubSeq(written, 1, Len(inflated))
    /\ taken <= Len(out)
    /\ End \in Range(inflated) => taken = Len(out)
=============================================================================
