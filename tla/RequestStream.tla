--------------------------- MODULE RequestStream ---------------------------
(***************************************************************************)
(* What a keep-alive connection of thread_do_response (src/main.cpp)       *)
(* promises its client, whatever the packets its bytes arrive in: requests *)
(* are cut out of the byte stream one after the other, no byte is lost,    *)
(* repeated or reordered, and a line is what stands before the next CRLF.  *)
(* Two liberties are taken: the connection may be closed at any time, and  *)
(* a body may be cut short.  The test is then called with as many bytes as *)
(* the head said all the same, and those the client's bytes did not reach  *)
(* are whatever was in the fresh buffer.  SocketBuffer.tla implements it.  *)
(***************************************************************************)
EXTENDS Naturals, Sequences

CONSTANTS
    Streams,        \* the byte sequences a client may send
    LineSize,       \* sizeof(line), the closing '\0' included  (256)
    BodyLength,     \* the value of a Content-Length header
    Fresh           \* the bytes an allocated buffer may hold

(***************************************************************************)
(* Bytes.  "R", "N" and "Z" are '\r', '\n' and '\0'.  A line that begins   *)
(* with "T" requests /test/<name>, one that begins with "G" another page,  *)
(* one that begins with "L" is a Content-Length header; "a" is any other   *)
(* byte.                                                                   *)
(***************************************************************************)
Bytes == {"a", "G", "T", "L", "R", "N", "Z"}
CRLF == <<"R", "N">>

VARIABLES
    unread,         \* what the client sends and the server has not yet consumed
    phase,          \* what the server expects next
    path,           \* the variable `path': the kind of page asked for
    contentLength,  \* the variable content_length
    served          \* the answers given so far

vars == <<unread, phase, path, contentLength, served>>

Paths == {"test", "page"}
Phases == {"RequestLine", "Headers", "Body", "Closed"}

-----------------------------------------------------------------------------
\* A line has no '\r' and no '\0' in it and fits in the line buffer.
IsLine(text) ==
    /\ Len(text) < LineSize
    /\ \A i \in 1 .. Len(text) : text[i] \notin {"R", "Z"}

\* The lines the unread bytes begin with: at most one.
NextLines == { SubSeq(unread, 1, n - 1) :
                 n \in {m \in 1 .. Len(unread) - 1 : /\ SubSeq(unread, m, m + 1) = CRLF
                                                     /\ IsLine(SubSeq(unread, 1, m - 1))} }

Begins(text, byte) == text # <<>> /\ text[1] = byte

\* sscanf assigns no path when the line does not hold one, which leaves the
\* path of the request before.
PathIn(text, old) ==
    IF Begins(text, "T") THEN "test" ELSE IF Begins(text, "G") THEN "page" ELSE old

LengthIn(text, old) == IF Begins(text, "L") THEN BodyLength ELSE old

Drop(s, n) == SubSeq(s, n + 1, Len(s))

Answer(p, body) == [path |-> p, body |-> body]

-----------------------------------------------------------------------------
\* The blank line that ends a head: a test's body follows, a page is answered.
EndHead(p, length) ==
    /\ path' = p
    /\ contentLength' = length
    /\ IF p = "test"
       THEN phase' = "Body" /\ UNCHANGED served
       ELSE phase' = "RequestLine" /\ served' = Append(served, Answer(p, <<>>))

TakeLine ==
    /\ phase \in {"RequestLine", "Headers"}
    /\ \E text \in NextLines :
        LET p == IF phase = "RequestLine" THEN PathIn(text, path) ELSE path
            length == IF phase = "RequestLine" THEN 0 ELSE LengthIn(text, contentLength)
        IN  /\ unread' = Drop(unread, Len(text) + 2)
            /\ IF text = <<>>
               THEN EndHead(p, length)
               ELSE /\ phase' = "Headers"
                    /\ path' = p
                    /\ contentLength' = length
                    /\ UNCHANGED served

\* The first n bytes are the client's, the others are not.
TakeBody ==
    /\ phase = "Body"
    /\ \E n \in {m \in 0 .. contentLength : m <= Len(unread)} :
        /\ \E rest \in [1 .. contentLength - n -> Fresh] :
               served' = Append(served, Answer("test", SubSeq(unread, 1, n) \o rest))
        /\ unread' = Drop(unread, n)
    /\ phase' = "RequestLine"
    /\ UNCHANGED <<path, contentLength>>

Close ==
    /\ phase # "Closed"
    /\ phase' = "Closed"
    /\ unread' = <<>>
    /\ UNCHANGED <<path, contentLength, served>>

Init ==
    /\ unread \in Streams
    /\ phase = "RequestLine"
    /\ path \in Paths           \* not initialised
    /\ contentLength = 0
    /\ served = <<>>

Next == TakeLine \/ TakeBody \/ Close

Spec == Init /\ [][Next]_vars
=============================================================================
