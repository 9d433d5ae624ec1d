------------------------------- MODULE Crc32 -------------------------------
(***************************************************************************)
(* crc32 (src/gzip/deflate.cpp) with the table of src/pre/pre_deflate.cpp. *)
(* A uint32_t is the set of the bits that are set in it.                   *)
(***************************************************************************)
EXTENDS Integers, Sequences, FiniteSets, SequencesExt

Word32 == 0 .. 31
LowByte == 0 .. 7

Xor(a, b) == (a \ b) \cup (b \ a)
ShiftRight(word, n) == { bit - n : bit \in { b \in word : b >= n } }
Bits(byte) == { i \in LowByte : (byte \div 2^i) % 2 = 1 }

\* 0xEDB88320
Poly == { 5, 8, 9, 15, 19, 20, 21, 23, 24, 26, 27, 29, 30, 31 }

\* Fault: one step of the division is missing.
SevenSteps == 7

Steps == 8

DivisionStep(crc) == IF 0 \in crc THEN Xor(ShiftRight(crc, 1), Poly) ELSE ShiftRight(crc, 1)

\* make_crc32_table.
crc32_table ==
    [ byte \in SUBSET LowByte |->
        FoldLeft(LAMBDA crc, step : DivisionStep(crc), byte, [i \in 1 .. Steps |-> i]) ]

\* crc32.
CrcOf(bytes) ==
    Word32 \ FoldLeft(LAMBDA crc, byte :
                          Xor(crc32_table[Xor(crc, Bits(byte)) \cap LowByte], ShiftRight(crc, 8)),
                      Word32, bytes)

-----------------------------------------------------------------------------
(* What a CRC-32 is: the remainder of a division of polynomials, which are *)
(* the sets of their exponents.                                            *)

\* x^32 + x^26 + x^23 + x^22 + x^16 + x^12 + x^11 + x^10 + x^8 + x^7 + x^5 + x^4
\* + x^2 + x + 1
Generator == { 0, 1, 2, 4, 5, 7, 8, 10, 11, 12, 16, 22, 23, 26, 32 }

ModGenerator(dividend, degree) ==
    FoldLeft(LAMBDA rest, e :
                 IF e \in rest THEN Xor(rest, { g + e - 32 : g \in Generator }) ELSE rest,
             dividend, [ i \in 1 .. degree - 31 |-> degree + 1 - i ])

\* The message, lowest bit of its first byte first, times x^32; its first 32
\* bits and the remainder are inverted; exponents are reversed.
CrcByDivision(bytes) ==
    LET n       == 8 * Len(bytes)
        message == UNION { { n + 31 - (8 * (k - 1) + i) : i \in Bits(bytes[k]) } :
                               k \in 1 .. Len(bytes) }
        rest    == ModGenerator(Xor(message, n .. n + 31), n + 31)
    IN  Word32 \ { 31 - e : e \in rest }
=============================================================================
