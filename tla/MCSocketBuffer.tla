--------------------------- MODULE MCSocketBuffer ---------------------------
(***************************************************************************)
(* Byte streams for SocketBuffer.tla: every short sequence of ordinary     *)
(* bytes, '\r', '\n' and '\0', on its own, after a complete request for a  *)
(* page, and after the head of a test.                                     *)
(***************************************************************************)
EXTENDS SocketBuffer

CONSTANT TailLength     \* the longest tail

Tails == UNION { [1 .. n -> {"a", "R", "N", "Z"}] : n \in 0 .. TailLength }

PageRequest == <<"G", "R", "N", "R", "N">>
TestHead == <<"T", "R", "N", "L", "R", "N", "R", "N">>

\* A head that is longer than HeadLimit.
LongHead == <<"G", "R", "N", "L", "R", "N", "L", "R", "N", "L", "R", "N", "R", "N">>

MCStreams == {LongHead} \cup { prefix \o tail : prefix \in {<<>>, PageRequest, TestHead}, tail \in Tails }

\* One test whose body is as long as its head says.
MCWholeTest == { TestHead \o <<"a", "a", "a", "a">> }
=============================================================================
