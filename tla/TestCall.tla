------------------------------ MODULE TestCall ------------------------------
(***************************************************************************)
(* The test functions (src/test_call.cpp) with what they call, and the     *)
(* other user of the XML parser, main(), which looks up faces by their     *)
(* ids.  One behaviour is one call.  The input of a test is chosen when it *)
(* is read; what it has on the heap is a set of named blocks.              *)
(***************************************************************************)
EXTENDS SvgIds, Utf8, Crc32, DeflateCodes

CONSTANTS
    Messages,       \* sequences of bytes to sum up
    Encodings,      \* sequences of codepoints to encode
    Streams,        \* sequences of bytes to decode
    MaxCollections  \* bounds the collections of a search

ASSUME TestAssumption ==
    /\ Encodings \subseteq Seq(Nat)
    /\ Messages \cup Streams \subseteq Seq(0 .. 255)
    /\ MaxCollections \in Nat

VARIABLES
    user,           \* the test that is called, or "assets" for main()
    input,          \* what it reads
    result,         \* what it writes
    heap,           \* the blocks the test has allocated and not freed
    leak_amount     \* thread_do_response's leak_amount, in blocks

callVars == <<user, input, result, heap, leak_amount>>
vars == <<xmlVars, svgVars, blockVars, callVars>>

\* leak_amount before anything is stored in it, an error page's and a finished
\* test's result, and main() when it has followed a null pointer.
Uninitialized == -1
NoResult == <<>>
Crashed == <<"crashed">>

Tests == {"crc32", "gzip", "identity", "xml", "utf8_decode", "utf8_encode"}

Running(name) == user = name /\ leak_amount = Uninitialized

\* A test that does not parse XML, while no block is written or read.
Plain == UNCHANGED <<xmlVars, svgVars, blockVars, user>>

\* What all tests do in the end: what is still there has been leaked.
LeakIs(blocks) == heap' = blocks /\ leak_amount' = Cardinality(blocks)

-----------------------------------------------------------------------------
TestCrc32 ==
    /\ Running("crc32")
    /\ \E message \in Messages : input' = message /\ result' = CrcOf(message)
    /\ LeakIs({})
    /\ Plain

TestIdentity ==
    /\ Running("identity")
    /\ \E message \in Messages : input' = message /\ result' = message
    /\ LeakIs({})
    /\ Plain

\* test_gzip writes the tokens of its block, which CompressSearch.tla chooses.
WriteGzip ==
    /\ Running("gzip")
    /\ WriteBlock
    /\ UNCHANGED <<xmlVars, svgVars, callVars>>

\* The search frees its chains and their storage; a collection's list of live
\* chains (compress_search.cpp:152) is never freed.
TestGzip ==
    /\ Running("gzip")
    /\ End \in Range(written)
    /\ result' = out
    /\ \E collections \in 0 .. MaxCollections :
           LeakIs({ <<"search", "live_chains", i>> : i \in 1 .. collections })
    /\ UNCHANGED input
    /\ Plain

\* The client inflates what it is answered.
InflateGzip ==
    /\ user = "gzip" /\ leak_amount # Uninitialized
    /\ Inflate
    /\ UNCHANGED <<xmlVars, svgVars, callVars>>

TestUtf8Encode ==
    /\ Running("utf8_encode")
    /\ \E codepoints \in Encodings :
           input' = codepoints /\ result' = EncodedAll(codepoints)
    /\ LeakIs({})
    /\ Plain

\* A character that is invalid empties the output.
TestUtf8Decode ==
    /\ Running("utf8_decode")
    /\ \E bytes \in Streams :
           /\ input' = bytes
           /\ result' = IF DecodedAll(bytes) = Refused THEN NoResult ELSE DecodedAll(bytes)
    /\ LeakIs({})
    /\ Plain

\* test_call returns without storing to leak_amount when no test has the name,
\* and the header is made from whatever was there.
UnknownTest ==
    /\ Running("unknown")
    /\ leak_amount' \in 0 .. 1
    /\ UNCHANGED <<input, result, heap>>
    /\ Plain

-----------------------------------------------------------------------------
(* test_xml.                                                               *)

\* What parse_xml leaves on the heap: the allocators' pages, the table of
\* interned strings and the list of entities.
XmlBlocks ==
    { <<"attribute">> \o b : b \in HeapBlocks(attributes) } \cup
    { <<"text">> \o b : b \in HeapBlocks(texts) } \cup
    { <<"xml", b, 0>> : b \in {"nodes", "string_table", "entities"} }

\* xml_free.
XmlFreed ==
    { <<"attribute">> \o b : b \in FreedBlocks(attributes) } \cup
    { <<"text">> \o b : b \in FreedBlocks(texts) } \cup
    { <<"xml", b, 0>> : b \in {"nodes", "string_table", "entities"} }

\* write_xml, as the list of its zero-terminated strings: a node, its attributes, its text if there is one, its children.
Written(start) ==
    LET own(n) == <<<<"<">>, <<nodes[n].tag>>>> \o
                  FlattenSeq([ i \in 1 .. Len(AttributesOf(n)) |->
                                 <<<<AttributesOf(n)[i].key>>, AttributesOf(n)[i].value>> ]) \o
                  <<<<">">>>> \o
                  (IF nodes[n].text.length > 0
                   THEN <<<<"#">>, Contents(texts, nodes[n].text)>> ELSE <<>>)
        write[n \in 0 .. Len(nodes)] ==
            IF n = NoNode THEN <<>>
            ELSE own(n) \o write[nodes[n].children] \o <<<<"/">>>> \o write[nodes[n].next]
    IN  own(start) \o write[nodes[start].children] \o <<<<"/">>>>

ParseXml ==
    /\ user \in {"xml", "assets"}
    /\ XmlNext
    /\ UNCHANGED <<svgVars, blockVars, callVars>>

\* test_xml frees its copy of the input and the tree only when it has printed it.
Frees == status = "parsed" /\ root # NoNode

\* The rest of test_xml, when parse_xml has returned.
TestXml ==
    /\ Running("xml")
    /\ status \in {"parsed", "refused"}
    /\ result' = IF Frees /\ root # NoNode THEN Written(root) ELSE NoResult
    /\ LeakIs(IF Frees THEN XmlBlocks \ XmlFreed ELSE XmlBlocks \cup {<<"xml", "read_buffer", 0>>})
    /\ UNCHANGED <<xmlVars, svgVars, blockVars, user, input>>

-----------------------------------------------------------------------------
\* main(): a document that is refused is only complained about, and the list of
\* ids is made of what has been read of it; without a root that is the end.
LoadFaces ==
    /\ user = "assets"
    /\ status \in {"parsed", "refused"} /\ address = <<>> /\ result = NoResult
    /\ IF root = NoNode
       THEN result' = Crashed /\ UNCHANGED svgVars
       ELSE InitializeIds /\ UNCHANGED result
    /\ UNCHANGED <<xmlVars, blockVars, user, input, heap, leak_amount>>

Init ==
    /\ XmlInit
    /\ BlockInit
    /\ ids = <<>> /\ address = <<>>
    /\ user \in Tests \cup {"unknown", "assets"}
    /\ input = <<>> /\ result = NoResult
    /\ heap = {}
    /\ leak_amount = Uninitialized

Next ==
    \/ TestCrc32 \/ TestIdentity
    \/ WriteGzip \/ TestGzip \/ InflateGzip
    \/ TestUtf8Encode \/ TestUtf8Decode \/ UnknownTest
    \/ ParseXml \/ TestXml \/ LoadFaces

Spec == Init /\ [][Next]_vars

-----------------------------------------------------------------------------
Answered == leak_amount # Uninitialized

\* Nodes, pages and slices are where they should be.
TypeOK ==
    /\ \A n \in 1 .. Len(nodes) :
           /\ {nodes[n].parent, nodes[n].children, nodes[n].prev, nodes[n].next} \subseteq 0 .. Len(nodes)
           /\ nodes[n].text.page \in 0 .. Len(texts)
           /\ nodes[n].attributes.page \in 0 .. Len(attributes)
    /\ {root, parent, prev} \subseteq 0 .. Len(nodes)
    /\ \A i \in 1 .. Len(texts) : Len(texts[i].cells) \in 1 .. texts[i].size
    /\ \A i \in 1 .. Len(attributes) : Len(attributes[i].cells) \in 1 .. attributes[i].size
    /\ status \in {"parsing", "parsed", "refused"}
    /\ \A i \in 1 .. Len(ids) : ids[i].node \in 1 .. Len(nodes) /\ ids[i].id \in DOMAIN address
    /\ user \in Tests \cup {"unknown", "assets"}
    /\ leak_amount \in Nat \cup {Uninitialized}

\* What test_xml has printed it has freed, its copy of the input and every block
\* parse_xml took: xml_free gives back all pages of both allocators, whatever
\* streams moved from page to page, and none is left to be charged as a leak.
PrintedXmlIsFreed ==
    user = "xml" /\ Answered /\ Frees => heap = {} /\ leak_amount = 0

\* test.py:33 asks of every test that it "does not leak memory".  test_xml leaks
\* all it has when it returns early, from XML that is refused (test_call.cpp:59)
\* or has no element (line 65).
XmlTestLeaksNothing == user = "xml" /\ Answered => leak_amount = 0

\* What test_xml.py reads back is what it sent: the root element with its
\* attributes, its text and its children, and nothing else, even though the
\* streams they are collected in are cut short by full pages and move, and though
\* the streams of attribute values run while that of their attributes is open.
\* As in test_xml.py's documents, no element has text in two places: of several,
\* the parser keeps the last (xml.cpp:288) and test_xml.py expects the first.
XmlArrives ==
    user = "xml" /\ Answered /\ WellFormed /\ OneTextEach /\ status = "parsed" /\ nodes # <<>> =>
        LET expected[n \in 1 .. Len(nodes)] ==
                LET list == AttributesInDocument(n)
                    text == TextInDocument(n)
                    kids == ChildrenInDocument(n)
                IN  <<<<"<">>, <<document[ElementAt(n)].tag>>>> \o
                    FlattenSeq([ i \in 1 .. Len(list) |-> <<<<list[i].key>>, list[i].value>> ]) \o
                    <<<<">">>>> \o
                    (IF text = <<>> THEN <<>> ELSE <<<<"#">>, text>>) \o
                    FlattenSeq([ i \in 1 .. Len(kids) |-> expected[kids[i]] ]) \o
                    <<<<"/">>>>
        IN  result = expected[1]

\* The sum that is looked up byte by byte is the remainder CRC-32 is defined as.
CrcIsRemainder == user = "crc32" /\ Answered => result = CrcByDivision(input)

\* Codepoints that are encoded and decoded again come back, next to each other
\* and at the limits of one to four bytes; from 0x20000 on they are left out.
CodepointsComeBack ==
    user = "utf8_encode" /\ Answered =>
        DecodedAll(result) =
            FlattenSeq([ i \in 1 .. Len(input) |->
                            IF input[i] < 131072 THEN <<input[i]>> ELSE <<>> ])

\* What the decoder accepts falls into characters: it gives one codepoint for
\* each byte that can begin one, and passes over none.  So a byte that gets lost
\* is noticed, unless it was a character of its own.
OneForEachBeginning ==
    user = "utf8_decode" /\ Answered /\ result # NoResult =>
        Len(result) = Cardinality({ i \in 1 .. Len(input) : input[i] \notin 128 .. 191 })
=============================================================================
