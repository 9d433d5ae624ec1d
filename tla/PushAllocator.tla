--------------------------- MODULE PushAllocator ---------------------------
(***************************************************************************)
(* Push_Allocator and Push_Stream (src/memory.cpp).                        *)
(*                                                                         *)
(* An allocator is its pages, oldest first; a page is its size and what    *)
(* has been pushed to it.  A pointer into one is a page and a position.    *)
(* The first page is as large as what is pushed first, so that streams     *)
(* move between pages with the smallest of inputs.                         *)
(***************************************************************************)
EXTENDS Integers, Sequences, SequencesExt

\* Push_Allocator zeroed.
NoPages == <<>>

PageSize(pages) == IF pages = NoPages THEN 0 ELSE Last(pages).size
Position(pages) == IF pages = NoPages THEN 0 ELSE Len(Last(pages).cells)

HasRoom(pages, data) == PageSize(pages) - Position(pages) >= Len(data)

\* push_allocator_new_page, and what is put on the page at once.
NewPage(pages, hint, cells) ==
    LET doubled == 2 * PageSize(pages)
    IN  Append(pages, [size |-> IF doubled > hint THEN doubled ELSE hint, cells |-> cells])

\* start_push_stream.
StartStream(pages) == [pages |-> pages, start |-> Position(pages)]

\* Fault: a stream that moves keeps its start.
StartKept(stream) == stream.start

StartOnNewPage(stream) == 0

\* Fault: the page need not have room for what moves there.
SizeOfData(prefix, data) == Len(data)

SizeHint(prefix, data) == Len(prefix) + Len(data)

\* push_stream_push, and the writing of the data.  What the stream holds so far
\* moves along to a new page.
StreamPush(stream, data) ==
    LET pages  == stream.pages
        prefix == SubSeq(Last(pages).cells, stream.start + 1, Position(pages))
    IN  IF HasRoom(pages, data)
        THEN [stream EXCEPT !.pages[Len(pages)].cells = @ \o data]
        ELSE IF pages = NoPages
        THEN [pages |-> NewPage(pages, Len(data), data), start |-> 0]
        ELSE [ pages |-> NewPage(pages, SizeHint(prefix, data), prefix \o data),
               start |-> StartOnNewPage(stream) ]

\* finish_push_stream.
FinishStream(stream) ==
    [ page   |-> Len(stream.pages),
      start  |-> stream.start,
      length |-> Position(stream.pages) - stream.start ]

\* A slice of length zero.
EmptySlice == [page |-> 0, start |-> 0, length |-> 0]

\* What a slice holds now.
Contents(pages, slice) ==
    IF slice.length = 0 THEN <<>>
    ELSE SubSeq(pages[slice.page].cells, slice.start + 1, slice.start + slice.length)

\* The heap blocks of an allocator: each page's buffer, and the Push_Page of
\* every page but the newest, which is in the allocator itself.
HeapBlocks(pages) ==
    { <<"buffer", i>> : i \in 1 .. Len(pages) } \cup { <<"page", i>> : i \in 1 .. Len(pages) - 1 }

\* Fault: only the buffers are freed.
FreedBuffers(pages) == { <<"buffer", i>> : i \in 1 .. Len(pages) }

\* push_allocator_free: the newest buffer, then each previous page's buffer and
\* the page.
FreedBlocks(pages) ==
    { <<"buffer", Len(pages)>> } \cup
    UNION { { <<"buffer", i>>, <<"page", i>> } : i \in 1 .. Len(pages) - 1 }
=============================================================================
