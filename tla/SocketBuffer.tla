---------------------------- MODULE SocketBuffer ----------------------------
(***************************************************************************)
(* Socket_Buffer (src/main.cpp) as thread_do_response uses it: one         *)
(* connection's bytes arrive in segments of any size, recv() may time out  *)
(* or fail, and requests are read from a buffer that is refilled whenever  *)
(* it runs empty.  One action is one iteration of the loop of              *)
(* buffer_read_line, buffer_accept or buffer_read_amount; the buffer       *)
(* belongs to one thread, so nothing happens in between.                   *)
(***************************************************************************)
EXTENDS Integers, Sequences

CONSTANTS
    Streams,        \* the byte sequences a client may send
    LineSize,       \* sizeof(line)                           (256)
    DataSize,       \* data_size, the bytes of the buffer     (1024)
    HeadLimit,      \* what buffer_limit allows for a head    (8192)
    BodyLimit,      \* TEST_BUFFER_SIZE                       (1048576)
    BodyLength,     \* the value of a Content-Length header
    Fresh,          \* the bytes M_ALLOC(char, ...) may leave in in_buffer
    RecvMayFail     \* whether recv() may return -1

ASSUME SizesAssumption ==
    /\ LineSize \in Nat \ {0}
    /\ DataSize \in Nat \ {0}
    /\ HeadLimit \in Nat
    /\ BodyLimit \in Nat
    /\ BodyLength \in 0 .. BodyLimit
    /\ RecvMayFail \in BOOLEAN
    /\ Fresh # {}

VARIABLES
    wire,           \* bytes of the client that recv() has not returned yet
    data, pos, size,\* the buffer's bytes, how many are consumed, how many there are
    limitLeft,      \* Socket_Buffer.limit_left
    phase,          \* where thread_do_response's loop is
    line,           \* what buffer_read_line has copied
    accepting,      \* how much of "\r\n" buffer_accept still wants, 0 outside it
    path, contentLength,
    body,           \* what buffer_read_amount has copied
    served,         \* history: the answers sent
    headBytes,      \* history: bytes received since the head's limit was set
    cause,          \* history: why the buffer refused the last read
    lostBody        \* history: buffer_read_amount has failed

buffer == <<data, pos, size, limitLeft>>
request == <<path, contentLength>>
vars == <<wire, buffer, phase, line, accepting, request, body, served, headBytes, cause, lostBody>>

-----------------------------------------------------------------------------
(* The buffer.                                                             *)

Least(a, b) == IF a < b THEN a ELSE b

\* Fault: what has been consumed is forgotten.
BufferLeftForgetful == size

BufferLeft == size - pos

\* What recv() may return when it is asked for n bytes: an error or a timeout,
\* 0 at the end of the stream, or any number of the bytes under way.
RecvResults(n) ==
    (IF RecvMayFail THEN {-1} ELSE {}) \cup
    (IF wire = <<>> THEN {0} ELSE 1 .. Least(n, Len(wire)))

Peeked(ok, d, p, sz, limit, rest, got, why) ==
    [ok |-> ok, data |-> d, pos |-> p, size |-> sz, limit |-> limit,
     wire |-> rest, got |-> got, why |-> why]

Unchanged(ok, why) == Peeked(ok, data, pos, size, limitLeft, wire, 0, why)

\* What is left on the wire when recv() has returned k.
Beyond(k) == SubSeq(wire, (IF k < 0 THEN 0 ELSE k) + 1, Len(wire))

\* Fault: a segment is taken to fill the buffer.
FillAssumesFull ==
    LET n == Least(DataSize, limitLeft)
    IN  IF n <= 0
        THEN {Unchanged(FALSE, "limit")}
        ELSE { Peeked(k > 0, [i \in 1 .. n |-> IF i <= k THEN wire[i] ELSE "a"], 0, n,
                      limitLeft - n, Beyond(k), k,
                      IF k > 0 THEN "none" ELSE "recv") : k \in RecvResults(n) }

\* buffer_fill_read.  The limit is charged for what was asked for.
FillRead ==
    LET n == Least(DataSize, limitLeft)
    IN  IF n <= 0
        THEN {Unchanged(FALSE, "limit")}
        ELSE { Peeked(k > 0, SubSeq(wire, 1, k), 0, k, limitLeft - n, Beyond(k), k,
                      IF k > 0 THEN "none" ELSE "recv") : k \in RecvResults(n) }

\* buffer_peek: the buffer is only refilled when there is nothing left in it.
Peek == IF BufferLeft = 0 THEN FillRead ELSE {Unchanged(TRUE, "none")}

\* The block a peek of at most n bytes yields, and the buffer after m of them.
Block(r, n) == SubSeq(r.data, r.pos + 1, r.pos + Least(n, r.size - r.pos))

Received(r, consumed, limit) ==
    /\ wire' = r.wire
    /\ data' = r.data
    /\ pos' = r.pos + consumed
    /\ size' = r.size
    /\ limitLeft' = limit
    /\ cause' = r.why

\* headBytes counts from buffer_limit(&buffer, KB(8)) to the end of the head.
CountHead(r) == headBytes' = headBytes + IF r.got > 0 THEN r.got ELSE 0

-----------------------------------------------------------------------------
(* thread_do_response.                                                     *)

Begins(text, byte) == text # <<>> /\ text[1] = byte

\* What the two sscanf calls make of a request line and of a header.  Without
\* a match they assign nothing.
PathIn(text, old) ==
    IF Begins(text, "T") THEN "test" ELSE IF Begins(text, "G") THEN "page" ELSE old
LengthIn(text, old) == IF Begins(text, "L") THEN BodyLength ELSE old

Answer(p, b) == [path |-> p, body |-> b]

CloseConnection ==
    /\ phase' = "Closed"
    /\ line' = <<>>
    /\ accepting' = 0
    /\ UNCHANGED <<request, body, served, lostBody>>

\* Fault: a failed read of a header is taken for the end of the head.
FailHead(r) ==
    /\ Received(r, 0, r.limit)
    /\ IF phase = "Headers" /\ r.why = "recv"
       THEN /\ phase' = "RequestLine"
            /\ served' = Append(served, Answer(path, <<>>))
            /\ line' = <<>>
            /\ accepting' = 0
            /\ UNCHANGED <<request, body, lostBody>>
       ELSE CloseConnection

\* buffer_read_line returns a negative number and the loop is left.
Fail(r) == Received(r, 0, r.limit) /\ CloseConnection

\* The head is complete: a test's body is read next, anything else is answered.
EndHead(r, consumed, p) ==
    /\ headBytes' = 0
    /\ IF p = "test"
       THEN /\ phase' = "Body"
            /\ Received(r, consumed, BodyLimit)
            /\ UNCHANGED served
       ELSE /\ phase' = "RequestLine"
            /\ Received(r, consumed, HeadLimit)
            /\ served' = Append(served, Answer(p, <<>>))

\* buffer_read_line has returned a line of zero or more bytes.
EndLine(r, consumed) ==
    LET p == IF phase = "RequestLine" THEN PathIn(line, path) ELSE path
        length == IF phase = "RequestLine" THEN 0 ELSE LengthIn(line, contentLength)
    IN  /\ line' = <<>>
        /\ accepting' = 0
        /\ path' = p
        /\ contentLength' = length
        /\ IF line = <<>>
           THEN EndHead(r, consumed, p)
           ELSE /\ phase' = "Headers"
                /\ Received(r, consumed, r.limit)
                /\ CountHead(r)
                /\ UNCHANGED served
        /\ UNCHANGED <<body, lostBody>>

ReadingLine == phase \in {"RequestLine", "Headers"} /\ BufferLeft >= 0

\* How many bytes of the block come before a '\r': all when there is none.
LengthBeforeCR(block) ==
    IF \E i \in 1 .. Len(block) : block[i] = "R"
    THEN (CHOOSE i \in 1 .. Len(block) :
            block[i] = "R" /\ \A j \in 1 .. i - 1 : block[j] # "R") - 1
    ELSE Len(block)

\* Fault: no room is kept for the closing '\0'.
TooLongWithoutNul(n) == n > LineSize - Len(line)

TooLong(n) == n > LineSize - Len(line) - 1

\* One iteration of buffer_read_line's loop up to its call of buffer_accept.
ScanLine ==
    /\ ReadingLine
    /\ accepting = 0
    /\ \E r \in Peek :
        LET block == Block(r, LineSize - Len(line))
            n == LengthBeforeCR(block)
            text == SubSeq(block, 1, n)
            bad == TooLong(n) \/ \E i \in 1 .. n : text[i] = "Z"
        IN  /\ CountHead(r)
            /\ \/ ~r.ok /\ Fail(r)
               \/ r.ok /\ bad /\ Fail([r EXCEPT !.why = "line"])
               \/ /\ r.ok /\ ~bad
                  /\ Received(r, n, r.limit)
                  /\ line' = line \o text
                  /\ accepting' = IF n < Len(block) THEN 2 ELSE 0
                  /\ UNCHANGED <<phase, request, body, served, lostBody>>

\* Fault: buffer_accept compares every block with the start of "\r\n".
ExpectedFromStart(n) == SubSeq(<<"R", "N">>, 1, n)

\* The next n bytes buffer_accept compares with.
Expected(n) == SubSeq(<<"R", "N">>, 3 - accepting, 2 - accepting + n)

\* One iteration of buffer_accept(buffer, "\r\n", 2).
AcceptLineEnd ==
    /\ ReadingLine
    /\ accepting > 0
    /\ \E r \in Peek :
        LET block == Block(r, accepting)
            n == Len(block)
        IN  \/ ~r.ok /\ CountHead(r) /\ Fail(r)
            \/ r.ok /\ block # Expected(n) /\ CountHead(r) /\ Fail([r EXCEPT !.why = "line"])
            \/ /\ r.ok /\ block = Expected(n) /\ n < accepting
               /\ CountHead(r)
               /\ Received(r, n, r.limit)
               /\ accepting' = accepting - n
               /\ UNCHANGED <<phase, line, request, body, served, lostBody>>
            \/ r.ok /\ block = Expected(n) /\ n = accepting /\ EndLine(r, n)

\* recv() failed while the body was read, which left size at -1: memchr is
\* given a length of -1 and runs over the buffer's old bytes and beyond.  The
\* line it may find cannot be ended by buffer_accept, so that the connection
\* is closed if the process survives.
GarbledRead ==
    /\ phase = "RequestLine"
    /\ BufferLeft < 0
    /\ phase' \in {"Closed", "Crashed"}
    /\ UNCHANGED <<wire, buffer, line, accepting, request, body, served, headBytes, cause, lostBody>>

\* test_call is given content_length bytes of in_buffer, whatever was read into
\* it: behind the body read so far, b, is what the allocation left there.  The
\* answer is the identity test's.  The next request has the head's limit again.
AnswerTest(r, consumed, b) ==
    /\ Received(r, consumed, HeadLimit)
    /\ \E rest \in [1 .. contentLength - Len(b) -> Fresh] :
           served' = Append(served, Answer("test", b \o rest))
    /\ body' = <<>>
    /\ phase' = "RequestLine"

\* One iteration of buffer_read_amount.  Its result is ignored: a body that
\* cannot be read to its end is answered as if it had been.
ReadBody ==
    /\ phase = "Body"
    /\ UNCHANGED <<line, accepting, request, headBytes>>
    /\ \/ /\ Len(body) = contentLength
          /\ AnswerTest(Unchanged(TRUE, "none"), 0, body)
          /\ UNCHANGED lostBody
       \/ /\ Len(body) < contentLength
          /\ \E r \in Peek :
                LET block == Block(r, contentLength - Len(body))
                IN  \/ /\ ~r.ok
                       /\ AnswerTest(r, 0, body)
                       /\ lostBody' = TRUE
                    \/ /\ r.ok
                       /\ Received(r, Len(block), r.limit)
                       /\ body' = body \o block
                       /\ UNCHANGED <<phase, served, lostBody>>

Init ==
    /\ wire \in Streams
    /\ data = <<>> /\ pos = 0 /\ size = 0
    /\ limitLeft = HeadLimit
    /\ phase = "RequestLine"
    /\ line = <<>>
    /\ accepting = 0
    /\ path \in {"test", "page"}    \* not initialised
    /\ contentLength = 0
    /\ body = <<>>
    /\ served = <<>>
    /\ headBytes = 0
    /\ cause = "none"
    /\ lostBody = FALSE

Next == ScanLine \/ AcceptLineEnd \/ GarbledRead \/ ReadBody

Spec == Init /\ [][Next]_vars

\* recv() returns within its timeout of 15 seconds, so the thread always goes on.
FairSpec == Spec /\ WF_vars(Next)

Ended == phase \in {"Closed", "Crashed"}

-----------------------------------------------------------------------------
(* Properties                                                              *)

\* Every variable keeps to its range; the buffer never holds more than data_size.
TypeOK ==
    /\ phase \in {"RequestLine", "Headers", "Body", "Closed", "Crashed"}
    /\ size \in -1 .. DataSize
    /\ Len(data) <= DataSize
    /\ pos \in 0 .. Len(data)
    /\ limitLeft \in 0 .. (HeadLimit + BodyLimit)
    /\ Len(line) < LineSize
    /\ accepting \in 0 .. 2
    /\ path \in {"test", "page"}
    /\ contentLength \in {0, BodyLength}
    /\ Len(body) <= contentLength
    /\ headBytes \in 0 .. HeadLimit
    /\ cause \in {"none", "limit", "recv", "line"}
    /\ lostBody \in BOOLEAN

\* What has been taken of the line or the body being read, and what is buffered.
Taken == line \o SubSeq(<<"R", "N">>, 1, IF accepting = 0 THEN 0 ELSE 2 - accepting) \o body
Buffered == IF size < 0 THEN <<>> ELSE SubSeq(data, pos + 1, size)

\* What the client sends and no request has been made of.
Unread == IF Ended THEN <<>> ELSE Taken \o Buffered \o wire

\* Requests are cut out of the byte stream in order and without loss, however
\* the bytes are split into segments and wherever recv() fails.  In the answer to
\* a test whose body was cut short the client's bytes come first, and exactly
\* those are gone from the stream; the rest it never sent.
RS == INSTANCE RequestStream
        WITH unread <- Unread,
             phase <- IF Ended THEN "Closed" ELSE phase
RefinesRequestStream == RS!Spec

ASSUME StreamsAssumption == \A s \in Streams : s \in Seq(RS!Bytes)

\* s begins with a line and its CRLF, or may still turn out to.
Viable(s) ==
    LET n == LengthBeforeCR(s)
    IN  /\ n < LineSize
        /\ \A i \in 1 .. n : s[i] # "Z"
        /\ Len(s) >= n + 2 => s[n + 2] = "N"

\* buffer_read_line only refuses a line because of its bytes when no
\* segmentation of the bytes seen so far could have made a line of them.
NoViableLineRefused ==
    [][ (Ended' /\ ~Ended /\ cause' = "line") =>
            ~Viable(Taken \o Buffered \o SubSeq(wire, 1, Len(wire) - Len(wire'))) ]_vars

\* A buffer left behind by a failed recv() is only ever read again after a
\* body was cut short.
FailedBufferNotReused == (size < 0 /\ ~Ended) => lostBody

\* Whatever the client sends or withholds, its thread gets done with it.
ConnectionEnds == <>Ended

\* test/test_tests.py:4: a client that has sent a whole body gets it back.
BodyArrivesWhole ==
    [][ phase = "Body" /\ Len(served') > Len(served) /\ Len(Unread) >= contentLength =>
            served'[Len(served')].body = SubSeq(Unread, 1, contentLength) ]_vars
=============================================================================
