-------------------------------- MODULE Utf8 --------------------------------
(***************************************************************************)
(* UTF-8 (src/utf.cpp and the table src/pre/pre_utf.cpp makes for it).     *)
(* A byte and a codepoint are numbers; masks and shifts are what they do   *)
(* to them.                                                                *)
(***************************************************************************)
EXTENDS Integers, Sequences, SequencesExt

\* utf8_code_extra_table: for a first byte from 0x80 on, how many bytes follow,
\* and the bits of the codepoint the byte itself has.  Zero bytes say that no
\* character starts with it.
CodeExtra(c) ==
    IF c \in 192 .. 223 THEN [bytes |-> 1, bits |-> c - 192]
    ELSE IF c \in 224 .. 239 THEN [bytes |-> 2, bits |-> c - 224]
    ELSE IF c \in 240 .. 247 THEN [bytes |-> 3, bits |-> c - 240]
    ELSE IF c \in 248 .. 251 THEN [bytes |-> 4, bits |-> c - 248]
    ELSE IF c \in 252 .. 253 THEN [bytes |-> 5, bits |-> c - 252]
    ELSE [bytes |-> 0, bits |-> 0]

\* Fault: what follows a first byte is not looked at.
AnyContinues(d) == TRUE

Continues(d) == d \in 128 .. 191

Invalid == [codepoint |-> 0, bytes |-> 0]

\* utf8_decode: the codepoint at the beginning of bytes, and how many of them it
\* takes; none if there is no character.
Decoded(bytes) ==
    IF bytes = <<>> THEN Invalid
    ELSE IF bytes[1] < 128 THEN [codepoint |-> bytes[1], bytes |-> 1]
    ELSE LET extra == CodeExtra(bytes[1])
             point[i \in 1 .. extra.bytes + 1] ==
                 IF i = 1 THEN extra.bits ELSE (point[i - 1] * 64) + (bytes[i] % 64)
         IN  IF \/ extra.bytes = 0
                \/ extra.bytes + 1 > Len(bytes)
                \/ \E i \in 2 .. extra.bytes + 1 : ~Continues(bytes[i])
             THEN Invalid
             ELSE [codepoint |-> point[extra.bytes + 1], bytes |-> extra.bytes + 1]

\* Fault: twelve bits are put into two bytes.
LimitsTwoBytesLate == <<128, 4096, 65536, 131072>>

\* Codepoints below the n-th limit take n bytes.
Limits == <<128, 2048, 65536, 131072>>

\* utf8_encode, with space enough.  Nothing is written for a codepoint that is
\* too large.
Encoded(codepoint) ==
    LET bits(shift) == 128 + ((codepoint \div shift) % 64)
    IN  IF codepoint < Limits[1] THEN <<codepoint>>
        ELSE IF codepoint < Limits[2] THEN <<192 + (codepoint \div 64), bits(1)>>
        ELSE IF codepoint < Limits[3] THEN <<224 + (codepoint \div 4096), bits(64), bits(1)>>
        ELSE IF codepoint < Limits[4]
             THEN <<240 + (codepoint \div 262144), bits(4096), bits(64), bits(1)>>
        ELSE <<>>

\* test_utf8_encode.
EncodedAll(codepoints) == FlattenSeq([i \in 1 .. Len(codepoints) |-> Encoded(codepoints[i])])

\* test_utf8_decode: the codepoints, unless a character is invalid.
Refused == <<-1>>

DecodedAll(bytes) ==
    LET from[i \in 1 .. Len(bytes) + 1] ==
            IF i > Len(bytes) THEN <<>>
            ELSE LET first == Decoded(SubSeq(bytes, i, Len(bytes)))
                 IN  IF first.bytes = 0 THEN Refused
                     ELSE LET rest == from[i + first.bytes]
                          IN  IF rest = Refused THEN Refused ELSE <<first.codepoint>> \o rest
    IN  from[1]
=============================================================================
