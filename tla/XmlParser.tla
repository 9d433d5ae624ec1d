----------------------------- MODULE XmlParser -----------------------------
(***************************************************************************)
(* parse_xml (src/xml.cpp).                                                *)
(*                                                                         *)
(* The data is a sequence of markup that is chosen as it is read, one      *)
(* iteration of the parser's loop per step; comments, declarations and     *)
(* white space leave no trace in its state.  A node's pointer is its place *)
(* in `nodes`, where nodes are put and never moved.  Names are interned    *)
(* and stand for themselves (Interner.tla).                                *)
(***************************************************************************)
EXTENDS PushAllocator, FiniteSets

CONSTANTS
    Tags,           \* element names
    AttributeLists, \* sequences of [key, value]; a value is a sequence of pieces
    Texts,          \* sequences of pieces between two tags
    MaxMarkup       \* bounds the tags, attributes and pieces of text that are read

\* A piece of text is what it is decoded to: one letter for a plain letter, a
\* character reference or an entity of the table; an unknown entity as it stands.

Pieces == Seq(STRING) \ {<<>>}

ASSUME XmlAssumption ==
    /\ MaxMarkup \in Nat
    /\ Texts \subseteq Seq(Pieces) \ {<<>>}
    /\ AttributeLists \subseteq Seq([key : STRING, value : Seq(Pieces)])

VARIABLES
    document,       \* history: the markup read so far
    nodes,          \* the XML_Nodes
    root, parent, prev,
    texts,          \* XML.text_alloc
    attributes,     \* XML.attribute_alloc
    status          \* whether parse_xml has returned, and what

tree == <<nodes, root, parent, prev>>
storage == <<texts, attributes>>
xmlVars == <<document, tree, storage, status>>

NoNode == 0

\* A name no element has.
AnotherTag == "another"

Markup(token) == 1 + Len(token.list) + Len(token.text)

\* The next piece of markup is read, and the rest of the action says how.
Read(kind, tag, list, text) ==
    LET token == [kind |-> kind, tag |-> tag, list |-> list, text |-> text]
    IN  /\ status = "parsing"
        /\ FoldLeft(LAMBDA size, t : size + Markup(t), Markup(token), document) <= MaxMarkup
        /\ document' = Append(document, token)

-----------------------------------------------------------------------------
\* xml_text_until: the pieces up to the suffix are streamed one by one.
TextUntil(pages, text) ==
    LET read[i \in 0 .. Len(text)] ==
            IF i = 0 THEN StartStream(pages) ELSE StreamPush(read[i - 1], text[i])
    IN  read[Len(text)]

\* parse_xml_attributes: one stream of XML_Attributes, whose values are streams
\* of the other allocator.
ReadAttribute(read, attribute) ==
    LET value == TextUntil(read.texts, attribute.value)
    IN  [ texts  |-> value.pages,
          stream |-> StreamPush(read.stream,
                         <<[key |-> attribute.key, value |-> FinishStream(value)]>>) ]

ReadAttributes(list) ==
    LET read[i \in 0 .. Len(list)] ==
            IF i = 0 THEN [texts |-> texts, stream |-> StartStream(attributes)]
            ELSE ReadAttribute(read[i - 1], list[i])
    IN  read[Len(list)]

FirstChild(node, n) == IF node.children = NoNode THEN n ELSE node.children

\* Lines 257-275: a new node with its attributes, linked to its parent and the
\* sibling before it.
AddNode(tag, list) ==
    LET n    == Len(nodes) + 1
        read == ReadAttributes(list)
        node == [ tag |-> tag, attributes |-> FinishStream(read.stream),
                  parent |-> parent, prev |-> prev,
                  children |-> NoNode, next |-> NoNode, text |-> EmptySlice ]
        link == [ i \in 1 .. n - 1 |->
                     [ nodes[i] EXCEPT !.children = IF i = parent THEN FirstChild(nodes[i], n) ELSE @,
                                       !.next     = IF i = prev THEN n ELSE @ ] ]
    IN  /\ nodes' = Append(link, node)
        /\ root' = IF parent = NoNode /\ prev = NoNode THEN n ELSE root
        /\ texts' = read.texts
        /\ attributes' = read.stream.pages

\* "<tag ...>"
OpenTag(tag, list) ==
    /\ Read("open", tag, list, <<>>)
    /\ AddNode(tag, list)
    /\ prev' = NoNode
    /\ parent' = Len(nodes')
    /\ UNCHANGED status

\* "<tag .../>"
EmptyTag(tag, list) ==
    /\ Read("empty", tag, list, <<>>)
    /\ AddNode(tag, list)
    /\ prev' = Len(nodes')
    /\ UNCHANGED <<parent, status>>

\* A tag followed by neither "/" nor ">": its node is there and linked, but it
\* is neither open nor anybody's sibling.  With a "/" and no ">" parsing ends.
BrokenTag(tag, list) ==
    /\ Read("broken", tag, list, <<>>)
    /\ AddNode(tag, list)
    /\ UNCHANGED <<prev, parent>>
    /\ status' \in {"parsing", "refused"}

\* Fault: what follows a closing tag is nobody's sibling.
AfterClosingNothing(node) == NoNode

AfterClosing(node) == node

\* "</tag>", which has to match the innermost open element.
CloseTag(tag) ==
    /\ Read("close", tag, <<>>, <<>>)
    /\ IF parent # NoNode /\ nodes[parent].tag = tag
       THEN /\ prev' = AfterClosing(parent)
            /\ parent' = nodes[parent].parent
            /\ UNCHANGED status
       ELSE /\ status' = "refused"
            /\ UNCHANGED <<prev, parent>>
    /\ UNCHANGED <<nodes, root, storage>>

\* Lines 283-290: the text replaces an earlier one of the same element.
ReadText(text) ==
    /\ Read("text", "", <<>>, text)
    /\ LET stream == TextUntil(texts, text)
       IN  /\ texts' = stream.pages
           /\ nodes' = [ i \in 1 .. Len(nodes) |->
                           [ nodes[i] EXCEPT !.text = IF i = parent THEN FinishStream(stream) ELSE @ ] ]
    /\ UNCHANGED <<root, parent, prev, attributes, status>>

\* Everything else the scanner cannot read: a name, a quote or a "=" that is
\* missing, a comment or text without its end, a character reference too large.
\* What it has pushed by then is never read.
Refuse ==
    /\ status = "parsing"
    /\ status' = "refused"
    /\ UNCHANGED <<document, tree, storage>>

\* The scanner is at the end; elements may still be open.
EndOfData ==
    /\ status = "parsing"
    /\ status' = "parsed"
    /\ UNCHANGED <<document, tree, storage>>

-----------------------------------------------------------------------------
XmlInit ==
    /\ document = <<>>
    /\ nodes = <<>> /\ root = NoNode /\ parent = NoNode /\ prev = NoNode
    /\ texts = NoPages /\ attributes = NoPages
    /\ status = "parsing"

XmlNext ==
    \/ \E tag \in Tags, list \in AttributeLists :
           OpenTag(tag, list) \/ EmptyTag(tag, list) \/ BrokenTag(tag, list)
    \/ \E tag \in Tags \cup {AnotherTag} : CloseTag(tag)
    \/ \E text \in Texts : ReadText(text)
    \/ Refuse
    \/ EndOfData

-----------------------------------------------------------------------------
(* What the document says, without pointers.                               *)

Count(kind, k) == Cardinality({ j \in 1 .. k : document[j].kind = kind })

\* How many elements are open after the first k pieces of markup.
Depth(k) == Count("open", k) - Count("close", k)

\* Where the document's n-th element is.
ElementAt(n) ==
    CHOOSE k \in 1 .. Len(document) :
        /\ document[k].kind \in {"open", "empty", "broken"}
        /\ Count("open", k) + Count("empty", k) + Count("broken", k) = n

\* The first and the last of a set of nodes, if there is one.
FirstOf(S) == IF S = {} THEN NoNode ELSE CHOOSE n \in S : \A m \in S : n <= m
LastOf(S) == IF S = {} THEN NoNode ELSE CHOOSE n \in S : \A m \in S : m <= n

\* The element the k-th piece of markup is in: the last that was opened to the
\* depth there is before it.
Enclosing(k) ==
    IF Depth(k - 1) = 0 THEN NoNode
    ELSE LastOf({ n \in 1 .. Len(nodes) :
                      LET j == ElementAt(n)
                      IN  j < k /\ document[j].kind = "open" /\ Depth(j) = Depth(k - 1) })

ElementsIn(p) == { n \in 1 .. Len(nodes) : Enclosing(ElementAt(n)) = p }

ChildrenInDocument(p) ==
    SelectSeq([n \in 1 .. Len(nodes) |-> n], LAMBDA n : n \in ElementsIn(p))

\* Where the document has text directly inside its n-th element.
TextPlaces(n) == { k \in 1 .. Len(document) : document[k].kind = "text" /\ Enclosing(k) = n }

\* The text test_xml.py expects of an element is the first (py_content).
TextInDocument(n) ==
    LET places == TextPlaces(n)
    IN  IF places = {} THEN <<>>
        ELSE FlattenSeq(document[CHOOSE k \in places : \A j \in places : k <= j].text)

OneTextEach == \A n \in 1 .. Len(nodes) : Cardinality(TextPlaces(n)) <= 1

AttributesOf(n) ==
    LET slots == Contents(attributes, nodes[n].attributes)
    IN  [ i \in 1 .. Len(slots) |->
            [key |-> slots[i].key, value |-> Contents(texts, slots[i].value)] ]

AttributesInDocument(n) ==
    LET list == document[ElementAt(n)].list
    IN  [ i \in 1 .. Len(list) |-> [key |-> list[i].key, value |-> FlattenSeq(list[i].value)] ]

\* So far, every tag is complete and closes what is open.
WellFormed ==
    \A k \in 1 .. Len(document) : document[k].kind # "broken" /\ Depth(k) >= 0

\* The nodes' pointers make the tree the markup describes, after every piece of
\* it, whatever the order of opening, closing and empty tags (lines 259-281):
\* no child is lost, none hangs on another parent, and siblings keep their order.
TreeIsDocument ==
    WellFormed =>
        /\ \A n \in 1 .. Len(nodes) :
               LET siblings == ElementsIn(nodes[n].parent)
               IN  /\ nodes[n].parent = Enclosing(ElementAt(n))
                   /\ nodes[n].children = FirstOf(ElementsIn(n))
                   /\ nodes[n].next = FirstOf({ m \in siblings : m > n })
                   /\ nodes[n].prev = LastOf({ m \in siblings : m < n })
        /\ root = FirstOf(ElementsIn(NoNode))
=============================================================================
