------------------------------- MODULE SvgIds -------------------------------
(***************************************************************************)
(* The lookup of SVG elements by their ids (src/svg.cpp): a list of the    *)
(* ids of a parsed tree, sorted by the addresses of their interned copies. *)
(***************************************************************************)
EXTENDS XmlParser, Functions

VARIABLES
    ids,            \* SVG_XML.ids
    address         \* where SVG_XML.id_table keeps an id

svgVars == <<ids, address>>

\* The first attribute called "id", as a list of at most one.
OwnId(n) ==
    LET own == SelectSeq(AttributesOf(n), LAMBDA attribute : attribute.key = "id")
    IN  IF own = <<>> THEN <<>> ELSE <<[id |-> own[1].value, node |-> n]>>

\* svg_walk_xml: a node, then its children.
WalkXml(start) ==
    LET walk[n \in 0 .. Len(nodes)] ==
            IF n = NoNode THEN <<>>
            ELSE OwnId(n) \o walk[nodes[n].children] \o walk[nodes[n].next]
    IN  OwnId(start) \o walk[nodes[start].children]

\* Fault: the list stays in the order of the document.
UnsortedIds(list, place) == {list}

\* qsort with compare_id_to_xml; it is not stable.
SortedIds(list, place) ==
    { sorted \in { [i \in 1 .. Len(list) |-> list[p[i]]] :
                       p \in Bijection(1 .. Len(list), 1 .. Len(list)) } :
          \A i \in 1 .. Len(list) - 1 : place[sorted[i].id] <= place[sorted[i + 1].id] }

\* initialize_id_list.  Interned copies may lie anywhere; the empty string is at
\* the null pointer.
InitializeIds ==
    LET list   == WalkXml(root)
        known  == { list[i].id : i \in 1 .. Len(list) }
        copies == known \ {<<>>}
    IN  \E places \in Bijection(copies, 1 .. Cardinality(copies)) :
            /\ address' = [ id \in known |-> IF id = <<>> THEN 0 ELSE places[id] ]
            /\ ids' \in SortedIds(list, address')

\* bsearch with compare_id_key_to_xml.
Bsearch(key) ==
    LET search[low \in 1 .. Len(ids) + 1, high \in 1 .. Len(ids) + 1] ==
            IF low >= high THEN NoNode
            ELSE LET i     == (low + high) \div 2
                     place == address[ids[i].id]
                 IN  IF key < place THEN search[low, i]
                     ELSE IF key > place THEN search[i + 1, high]
                     ELSE ids[i].node
    IN  search[1, Len(ids) + 1]

\* svg_find_by_id: an id that was never interned is nowhere, and neither is the
\* empty one: intern() keeps no copy of the empty string (string_table.cpp:165),
\* so that intern_if_not_new never comes upon it.  Before anything is interned
\* asking is the caller's mistake (Interner.tla).
FindById(id) == IF id # <<>> /\ id \in DOMAIN address THEN Bsearch(address[id]) ELSE NoNode

\* The root and the elements inside it, as the document has them.
InRoot(n) ==
    LET inside[m \in 0 .. Len(nodes)] ==
            m # NoNode /\ (m = root \/ inside[Enclosing(ElementAt(m))])
    IN  inside[n]

IdInDocument(n) ==
    SelectSeq(AttributesInDocument(n), LAMBDA attribute : attribute.key = "id")

\* Every id but the empty one that the document gives an element in its root is
\* found, and found on an element that has it: the assertion of svg.cpp:78 holds
\* wherever the copies of the ids lie, with ids given twice, with elements that
\* have two, and with empty ones, which are in the list and searched past but are
\* never found.
IdsAreFound ==
    address # <<>> /\ WellFormed =>
        LET named == { n \in 1 .. Len(nodes) : InRoot(n) /\ IdInDocument(n) # <<>> }
        IN  /\ DOMAIN address = { IdInDocument(n)[1].value : n \in named }
            /\ \A id \in DOMAIN address \ {<<>>} :
                   FindById(id) \in { n \in named : IdInDocument(n)[1].value = id }
=============================================================================
