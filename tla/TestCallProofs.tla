-------------------------- MODULE TestCallProofs --------------------------
(***************************************************************************)
(* Proofs about TestCall.tla: that the parser's pointers make the          *)
(* document's tree, for every document; that codepoints which are encoded  *)
(* and decoded come back, for all of them; that the decoder gives one      *)
(* codepoint for each byte that begins a character, for every stream;      *)
(* and that the tests leak what is known and nothing else, whatever the    *)
(* streams put on the heap.                                                *)
(***************************************************************************)
EXTENDS TestCall, ProofBasics, FiniteSetTheorems, SequenceTheorems

-----------------------------------------------------------------------------
(* Counting markup, for any document.                                      *)

CountOf(doc, kind, k) == Cardinality({ j \in 1 .. k : doc[j].kind = kind })

ElementsOf(doc, k) == CountOf(doc, "open", k) + CountOf(doc, "empty", k) + CountOf(doc, "broken", k)

DepthOf(doc, k) == CountOf(doc, "open", k) - CountOf(doc, "close", k)

PlaceOf(doc, n) ==
    CHOOSE k \in 1 .. Len(doc) :
        doc[k].kind \in {"open", "empty", "broken"} /\ ElementsOf(doc, k) = n

IsElement(token) == token.kind \in {"open", "empty", "broken"}

LEMMA CountIs ==
    ASSUME NEW doc, NEW kind, NEW k \in Nat
    PROVE  /\ CountOf(doc, kind, k) \in Nat
           /\ CountOf(doc, kind, 0) = 0
           /\ CountOf(doc, kind, k + 1) = CountOf(doc, kind, k) + (IF doc[k + 1].kind = kind THEN 1 ELSE 0)
<1> DEFINE of(n) == { j \in 1 .. n : doc[j].kind = kind }
<1>1. IsFiniteSet(of(k)) /\ Cardinality(of(k)) \in Nat
    <2>1. IsFiniteSet(1 .. k) /\ of(k) \subseteq 1 .. k
        BY FS_Interval
    <2>2. QED
        BY <2>1, FS_Subset, FS_CardinalityType
<1>2. CountOf(doc, kind, 0) = 0
    <2>1. of(0) = {}
        OBVIOUS
    <2>2. QED
        BY <2>1, FS_EmptySet DEF CountOf
<1>3. CASE doc[k + 1].kind = kind
    <2>1. of(k + 1) = of(k) \cup {k + 1} /\ k + 1 \notin of(k)
        BY <1>3
    <2>2. Cardinality(of(k + 1)) = Cardinality(of(k)) + 1
        BY <1>1, <2>1, FS_AddElement
    <2>3. CountOf(doc, kind, k) = Cardinality(of(k)) /\ CountOf(doc, kind, k + 1) = Cardinality(of(k + 1))
        BY DEF CountOf
    <2> HIDE DEF of
    <2>4. QED
        BY <1>1, <1>2, <1>3, <2>2, <2>3
<1>4. CASE doc[k + 1].kind # kind
    <2>1. of(k + 1) = of(k)
        BY <1>4
    <2>2. CountOf(doc, kind, k) = Cardinality(of(k)) /\ CountOf(doc, kind, k + 1) = Cardinality(of(k + 1))
        BY DEF CountOf
    <2> HIDE DEF of
    <2>3. QED
        BY <1>1, <1>2, <1>4, <2>1, <2>2
<1>5. QED
    BY <1>3, <1>4

\* Each piece of markup is one of five kinds, and changes at most one count.
Kinds == {"open", "empty", "broken", "close", "text"}

LEMMA StepsAre ==
    ASSUME NEW doc, NEW k \in Nat, doc[k + 1].kind \in Kinds
    PROVE  /\ ElementsOf(doc, 0) = 0 /\ DepthOf(doc, 0) = 0
           /\ ElementsOf(doc, k) \in Nat /\ DepthOf(doc, k) \in Int
           /\ ElementsOf(doc, k + 1) = IF IsElement(doc[k + 1]) THEN ElementsOf(doc, k) + 1 ELSE ElementsOf(doc, k)
           /\ DepthOf(doc, k + 1) = IF doc[k + 1].kind = "open" THEN DepthOf(doc, k) + 1
                             ELSE IF doc[k + 1].kind = "close" THEN DepthOf(doc, k) - 1
                             ELSE DepthOf(doc, k)
<1>1. /\ CountOf(doc, "open", 0) = 0 /\ CountOf(doc, "empty", 0) = 0 /\ CountOf(doc, "broken", 0) = 0 /\ CountOf(doc, "close", 0) = 0
      /\ CountOf(doc, "open", k) \in Nat /\ CountOf(doc, "empty", k) \in Nat /\ CountOf(doc, "broken", k) \in Nat
      /\ CountOf(doc, "close", k) \in Nat
    BY CountIs
<1>2. /\ CountOf(doc, "open", k + 1) = CountOf(doc, "open", k) + (IF doc[k + 1].kind = "open" THEN 1 ELSE 0)
      /\ CountOf(doc, "empty", k + 1) = CountOf(doc, "empty", k) + (IF doc[k + 1].kind = "empty" THEN 1 ELSE 0)
      /\ CountOf(doc, "broken", k + 1) = CountOf(doc, "broken", k) + (IF doc[k + 1].kind = "broken" THEN 1 ELSE 0)
      /\ CountOf(doc, "close", k + 1) = CountOf(doc, "close", k) + (IF doc[k + 1].kind = "close" THEN 1 ELSE 0)
    BY CountIs
<1> DEFINE t == doc[k + 1].kind
<1>3. t \in Kinds
    OBVIOUS
<1>4. CASE t = "open"
    BY <1>1, <1>2, <1>4 DEF ElementsOf, DepthOf, IsElement
<1>5. CASE t = "empty"
    BY <1>1, <1>2, <1>5 DEF ElementsOf, DepthOf, IsElement
<1>6. CASE t = "broken"
    BY <1>1, <1>2, <1>6 DEF ElementsOf, DepthOf, IsElement
<1>7. CASE t = "close"
    BY <1>1, <1>2, <1>7 DEF ElementsOf, DepthOf, IsElement
<1>8. CASE t = "text"
    BY <1>1, <1>2, <1>8 DEF ElementsOf, DepthOf, IsElement
<1>9. QED
    BY <1>3, <1>4, <1>5, <1>6, <1>7, <1>8 DEF Kinds

Tokens == [kind : Kinds, tag : Tags \cup {AnotherTag, ""},
           list : AttributeLists \cup {<<>>}, text : Texts \cup {<<>>}]

LEMMA StepAt ==
    ASSUME NEW doc \in Seq(Tokens), NEW k \in 0 .. Len(doc) - 1
    PROVE  /\ ElementsOf(doc, 0) = 0 /\ DepthOf(doc, 0) = 0
           /\ ElementsOf(doc, k) \in Nat /\ DepthOf(doc, k) \in Int
           /\ ElementsOf(doc, k + 1) = IF IsElement(doc[k + 1]) THEN ElementsOf(doc, k) + 1 ELSE ElementsOf(doc, k)
           /\ DepthOf(doc, k + 1) = IF doc[k + 1].kind = "open" THEN DepthOf(doc, k) + 1
                             ELSE IF doc[k + 1].kind = "close" THEN DepthOf(doc, k) - 1
                             ELSE DepthOf(doc, k)
<1>1. k \in Nat /\ k + 1 \in 1 .. Len(doc)
    BY LenProperties
<1>2. doc[k + 1] \in Tokens
    BY <1>1, ElementOfSeq
<1>3. doc[k + 1].kind \in Kinds
    BY <1>2 DEF Tokens
<1>4. QED
    BY <1>1, <1>3, StepsAre

LEMMA CountsAre ==
    ASSUME NEW doc, NEW k \in Nat
    PROVE  ElementsOf(doc, k) \in Nat /\ DepthOf(doc, k) \in Int /\ ElementsOf(doc, 0) = 0 /\ DepthOf(doc, 0) = 0
<1>1. /\ CountOf(doc, "open", k) \in Nat /\ CountOf(doc, "empty", k) \in Nat /\ CountOf(doc, "broken", k) \in Nat
      /\ CountOf(doc, "close", k) \in Nat
      /\ CountOf(doc, "open", 0) = 0 /\ CountOf(doc, "empty", 0) = 0 /\ CountOf(doc, "broken", 0) = 0 /\ CountOf(doc, "close", 0) = 0
    BY CountIs
<1>2. QED
    BY <1>1 DEF ElementsOf, DepthOf

\* There are never fewer elements later, and more after one.
LEMMA ElementsGrow ==
    ASSUME NEW doc \in Seq(Tokens), NEW i \in Nat, NEW j \in Nat, i <= j, j <= Len(doc)
    PROVE  ElementsOf(doc, i) <= ElementsOf(doc, j)
<1> DEFINE T == { n \in Nat : i + n <= Len(doc) => ElementsOf(doc, i) <= ElementsOf(doc, i + n) }
<1>1. 0 \in T
    BY CountsAre
<1>2. ASSUME NEW n \in T PROVE n + 1 \in T
    <2> SUFFICES ASSUME i + (n + 1) <= Len(doc) PROVE ElementsOf(doc, i) <= ElementsOf(doc, i + (n + 1))
        OBVIOUS
    <2> DEFINE k == i + n
    <2>1. k \in Nat /\ k \in 0 .. Len(doc) - 1 /\ i + (n + 1) = k + 1 /\ k <= Len(doc)
        BY LenProperties
    <2>2. ElementsOf(doc, i) <= ElementsOf(doc, k)
        BY <2>1
    <2> HIDE DEF k
    <2>3. ElementsOf(doc, k + 1) = ElementsOf(doc, k) + 1 \/ ElementsOf(doc, k + 1) = ElementsOf(doc, k)
        BY <2>1, StepAt
    <2>4. ElementsOf(doc, i) \in Nat /\ ElementsOf(doc, k) \in Nat
        BY <2>1, CountsAre
    <2>5. QED
        BY <2>1, <2>2, <2>3, <2>4
<1>3. T = Nat
    <2> HIDE DEF T
    <2>1. T \in SUBSET Nat
        BY DEF T
    <2>2. QED
        BY <1>1, <1>2, <2>1, SetInduction
<1>4. j - i \in Nat /\ i + (j - i) = j
    OBVIOUS
<1>5. QED
    BY <1>3, <1>4

LEMMA ElementsDiffer ==
    ASSUME NEW doc \in Seq(Tokens), NEW i \in Nat, NEW j \in 1 .. Len(doc), i < j,
           IsElement(doc[j])
    PROVE  ElementsOf(doc, i) < ElementsOf(doc, j)
<1>1. /\ j - 1 \in Nat /\ i <= j - 1 /\ j - 1 <= Len(doc) /\ j - 1 \in 0 .. Len(doc) - 1
      /\ (j - 1) + 1 = j
    BY LenProperties
<1>2. ElementsOf(doc, i) <= ElementsOf(doc, j - 1)
    BY <1>1, ElementsGrow
<1>3. ElementsOf(doc, j) = ElementsOf(doc, j - 1) + 1
    BY <1>1, StepAt
<1>4. ElementsOf(doc, i) \in Nat /\ ElementsOf(doc, j - 1) \in Nat
    BY <1>1, CountsAre
<1>5. QED
    BY <1>2, <1>3, <1>4

\* Every element has its place.
LEMMA PlaceIs ==
    ASSUME NEW doc \in Seq(Tokens), NEW n \in 1 .. ElementsOf(doc, Len(doc))
    PROVE  /\ PlaceOf(doc, n) \in 1 .. Len(doc)
           /\ IsElement(doc[PlaceOf(doc, n)])
           /\ ElementsOf(doc, PlaceOf(doc, n)) = n
<1> DEFINE T == { k \in Nat : k <= Len(doc) /\ n <= ElementsOf(doc, k) }
<1>1. Len(doc) \in Nat /\ ElementsOf(doc, Len(doc)) \in Nat
    BY LenProperties, CountsAre
<1>2. PICK k \in T : \A m \in T : k <= m
    <2>1. Len(doc) \in T /\ T \in SUBSET Nat
        BY <1>1
    <2> HIDE DEF T
    <2>2. QED
        BY <2>1, LeastNatural
<1>3. k \in Nat /\ k <= Len(doc) /\ n <= ElementsOf(doc, k) /\ n \in Nat /\ n >= 1
    BY <1>1
<1>4. k # 0
    BY <1>3, CountsAre
<1>5. k - 1 \in Nat /\ k - 1 <= Len(doc) /\ ~(k <= k - 1) /\ (k - 1) + 1 = k
      /\ k - 1 \in 0 .. Len(doc) - 1 /\ k \in 1 .. Len(doc)
    BY <1>1, <1>3, <1>4
<1>6. ~(n <= ElementsOf(doc, k - 1))
    BY <1>2, <1>5
<1>7. ElementsOf(doc, k - 1) \in Nat /\ ElementsOf(doc, k) = IF IsElement(doc[k]) THEN ElementsOf(doc, k - 1) + 1 ELSE ElementsOf(doc, k - 1)
    BY <1>5, StepAt
<1>8. IsElement(doc[k]) /\ ElementsOf(doc, k) = n
    BY <1>3, <1>6, <1>7
<1>9. PlaceOf(doc, n) = CHOOSE i \in 1 .. Len(doc) : IsElement(doc[i]) /\ ElementsOf(doc, i) = n
    BY DEF PlaceOf, IsElement, ElementsOf
<1> HIDE DEF T
<1>10. QED
    BY <1>5, <1>8, <1>9

LEMMA ElementIs ==
    ASSUME NEW doc \in Seq(Tokens), NEW k \in 1 .. Len(doc), IsElement(doc[k])
    PROVE  /\ ElementsOf(doc, k) \in 1 .. ElementsOf(doc, Len(doc))
           /\ PlaceOf(doc, ElementsOf(doc, k)) = k
<1> DEFINE n == ElementsOf(doc, k)
<1>1. Len(doc) \in Nat /\ k \in Nat /\ k - 1 \in Nat /\ k - 1 < k /\ k <= Len(doc)
    BY LenProperties
<1>2. n \in 1 .. ElementsOf(doc, Len(doc))
    <2>1. ElementsOf(doc, k - 1) < n /\ n <= ElementsOf(doc, Len(doc))
        BY <1>1, ElementsDiffer, ElementsGrow
    <2>2. ElementsOf(doc, k - 1) \in Nat /\ n \in Nat /\ ElementsOf(doc, Len(doc)) \in Nat
        BY <1>1, CountsAre
    <2>3. QED
        BY <2>1, <2>2
<1>3. /\ PlaceOf(doc, n) \in 1 .. Len(doc)
      /\ IsElement(doc[PlaceOf(doc, n)])
      /\ ElementsOf(doc, PlaceOf(doc, n)) = n
    BY <1>2, PlaceIs
<1> DEFINE i == PlaceOf(doc, n)
<1> HIDE DEF n
<1>4. ~(i < k) /\ ~(k < i)
    <2> HIDE DEF i
    <2>1. i \in Nat /\ i \in 1 .. Len(doc) /\ IsElement(doc[i]) /\ ElementsOf(doc, i) = n /\ n \in Nat /\ ElementsOf(doc, k) = n
        BY <1>1, <1>3, CountsAre DEF i, n
    <2>2. i < k => ElementsOf(doc, i) < ElementsOf(doc, k)
        BY <2>1, ElementsDiffer
    <2>3. k < i => ElementsOf(doc, k) < ElementsOf(doc, i)
        BY <1>1, <2>1, ElementsDiffer
    <2>4. QED
        BY <2>1, <2>2, <2>3
<1>5. i = k
    BY <1>1, <1>3, <1>4
<1>6. QED
    BY <1>2, <1>5 DEF n

-----------------------------------------------------------------------------
(* What encloses what.                                                     *)

\* The j-th piece opens the element that is the innermost after the k-th.
Opens(doc, j, k) ==
    /\ j \in 1 .. k
    /\ doc[j].kind = "open"
    /\ DepthOf(doc, j) = DepthOf(doc, k)
    /\ \A i \in j .. k : DepthOf(doc, i) >= DepthOf(doc, k)

LEMMA RiseExists ==
    ASSUME NEW doc \in Seq(Tokens), NEW k \in 0 .. Len(doc), DepthOf(doc, k) > 0
    PROVE  \E j \in 1 .. k : Opens(doc, j, k)
<1> DEFINE d == DepthOf(doc, k)
           T == { n \in Nat : n <= k /\ DepthOf(doc, k - n) < d }
<1>1. Len(doc) \in Nat /\ k \in Nat /\ k <= Len(doc)
    BY LenProperties
<1>2. d \in Int /\ d > 0 /\ DepthOf(doc, 0) = 0
    BY <1>1, CountsAre
<1>3. PICK n \in T : \A m \in T : n <= m
    <2>1. k - k = 0
        BY <1>1
    <2>2. k \in T /\ T \in SUBSET Nat
        BY <1>1, <1>2, <2>1
    <2> HIDE DEF T
    <2>3. QED
        BY <2>2, LeastNatural
<1> DEFINE i == k - n
<1>4. n \in Nat /\ n <= k /\ DepthOf(doc, i) < d
    OBVIOUS
<1>5. n # 0
    BY <1>1, <1>2, <1>4
<1>6. ASSUME NEW m \in i + 1 .. k PROVE DepthOf(doc, m) >= d
    <2>1. m \in Nat /\ k - m \in Nat /\ k - m <= k /\ ~(n <= k - m) /\ k - (k - m) = m
        BY <1>1, <1>4
    <2>2. ~(DepthOf(doc, m) < d)
        BY <1>3, <2>1
    <2>3. DepthOf(doc, m) \in Int
        BY <2>1, CountsAre
    <2>4. QED
        BY <1>2, <2>2, <2>3
<1>7. i \in Nat /\ i \in 0 .. Len(doc) - 1 /\ i + 1 \in 1 .. k /\ i + 1 \in i + 1 .. k
    BY <1>1, <1>4, <1>5
<1> HIDE DEF T, d, i
<1>8. /\ DepthOf(doc, i) \in Int
      /\ DepthOf(doc, i + 1) = IF doc[i + 1].kind = "open" THEN DepthOf(doc, i) + 1
                               ELSE IF doc[i + 1].kind = "close" THEN DepthOf(doc, i) - 1
                               ELSE DepthOf(doc, i)
    BY <1>7, StepAt
<1>9. DepthOf(doc, i + 1) >= d
    BY <1>6, <1>7
<1>10. doc[i + 1].kind = "open" /\ DepthOf(doc, i + 1) = d
    BY <1>2, <1>4, <1>8, <1>9
<1>11. Opens(doc, i + 1, k)
    BY <1>6, <1>7, <1>10 DEF Opens, d
<1>12. QED
    BY <1>7, <1>11

LEMMA RiseIsLast ==
    ASSUME NEW doc \in Seq(Tokens), NEW k \in 0 .. Len(doc), NEW j, Opens(doc, j, k),
           NEW m \in 1 .. k, doc[m].kind = "open", DepthOf(doc, m) = DepthOf(doc, k)
    PROVE  m <= j
<1>1. Len(doc) \in Nat /\ k \in Nat /\ k <= Len(doc) /\ j \in 1 .. k
    BY LenProperties DEF Opens
<1> SUFFICES ASSUME m > j PROVE FALSE
    BY <1>1
<1>2. m - 1 \in j .. k /\ m - 1 \in Nat /\ m - 1 \in 0 .. Len(doc) - 1 /\ (m - 1) + 1 = m
    BY <1>1
<1>3. DepthOf(doc, m) = DepthOf(doc, m - 1) + 1 /\ DepthOf(doc, m - 1) \in Int
    BY <1>2, StepAt
<1>4. DepthOf(doc, m - 1) >= DepthOf(doc, k)
    BY <1>2 DEF Opens
<1>5. QED
    BY <1>3, <1>4

LEMMA LastOfIs ==
    ASSUME NEW S \in SUBSET Nat, NEW m \in S, \A n \in S : n <= m
    PROVE  LastOf(S) = m
<1>1. LastOf(S) = CHOOSE n \in S : \A i \in S : i <= n
    BY DEF LastOf
<1>2. LastOf(S) \in S /\ \A i \in S : i <= LastOf(S)
    BY <1>1
<1> DEFINE x == LastOf(S)
<1>3. x \in Nat /\ m \in Nat /\ x <= m /\ m <= x
    BY <1>2
<1> HIDE DEF x
<1>4. x = m
    BY <1>3
<1>5. QED
    BY <1>4 DEF x

LEMMA FirstOfIs ==
    ASSUME NEW S \in SUBSET Nat, NEW m \in S, \A n \in S : m <= n
    PROVE  FirstOf(S) = m
<1>1. FirstOf(S) = CHOOSE n \in S : \A i \in S : n <= i
    BY DEF FirstOf
<1>2. FirstOf(S) \in S /\ \A i \in S : FirstOf(S) <= i
    BY <1>1
<1> DEFINE x == FirstOf(S)
<1>3. x \in Nat /\ m \in Nat /\ x <= m /\ m <= x
    BY <1>2
<1> HIDE DEF x
<1>4. x = m
    BY <1>3
<1>5. QED
    BY <1>4 DEF x

\* The element a piece of markup is in.
ParentOf(doc, total, k) ==
    IF DepthOf(doc, k - 1) = 0 THEN NoNode
    ELSE LastOf({ n \in 1 .. total :
                      /\ PlaceOf(doc, n) < k
                      /\ doc[PlaceOf(doc, n)].kind = "open"
                      /\ DepthOf(doc, PlaceOf(doc, n)) = DepthOf(doc, k - 1) })

LEMMA ParentIs ==
    ASSUME NEW doc \in Seq(Tokens), NEW k \in 0 .. Len(doc), NEW total \in Nat,
           total = ElementsOf(doc, Len(doc))
    PROVE  /\ DepthOf(doc, k) = 0 => ParentOf(doc, total, k + 1) = NoNode
           /\ \A j : Opens(doc, j, k) /\ DepthOf(doc, k) # 0
                        => ParentOf(doc, total, k + 1) = ElementsOf(doc, j)
<1>1. Len(doc) \in Nat /\ k \in Nat /\ k <= Len(doc) /\ (k + 1) - 1 = k
    BY LenProperties
<1>2. ASSUME DepthOf(doc, k) = 0 PROVE ParentOf(doc, total, k + 1) = NoNode
    BY <1>1, <1>2 DEF ParentOf
<1>3. ASSUME NEW j, Opens(doc, j, k), DepthOf(doc, k) # 0
      PROVE  ParentOf(doc, total, k + 1) = ElementsOf(doc, j)
    <2> DEFINE S == { n \in 1 .. total :
                        /\ PlaceOf(doc, n) < k + 1
                        /\ doc[PlaceOf(doc, n)].kind = "open"
                        /\ DepthOf(doc, PlaceOf(doc, n)) = DepthOf(doc, k) }
    <2>1. ParentOf(doc, total, k + 1) = LastOf(S)
        BY <1>1, <1>3 DEF ParentOf
    <2>2. j \in 1 .. k /\ j \in 1 .. Len(doc) /\ doc[j].kind = "open" /\ IsElement(doc[j])
          /\ DepthOf(doc, j) = DepthOf(doc, k)
        BY <1>1, <1>3 DEF Opens, IsElement
    <2>3. ElementsOf(doc, j) \in 1 .. total /\ PlaceOf(doc, ElementsOf(doc, j)) = j
        BY <2>2, ElementIs
    <2>4. ElementsOf(doc, j) \in S
        BY <1>1, <2>2, <2>3
    <2>5. ASSUME NEW n \in S PROVE n <= ElementsOf(doc, j)
        <3> DEFINE m == PlaceOf(doc, n)
        <3>1. m \in 1 .. Len(doc) /\ ElementsOf(doc, m) = n
            BY PlaceIs
        <3>2. m < k + 1 /\ doc[m].kind = "open" /\ DepthOf(doc, m) = DepthOf(doc, k)
            OBVIOUS
        <3> HIDE DEF m, S
        <3>3. m \in 1 .. k /\ m \in Nat
            BY <1>1, <3>1, <3>2
        <3>4. m <= j
            BY <1>3, <3>2, <3>3, RiseIsLast
        <3>5. ElementsOf(doc, m) <= ElementsOf(doc, j)
            BY <1>1, <2>2, <3>3, <3>4, ElementsGrow
        <3>6. QED
            BY <3>1, <3>5
    <2>6. S \in SUBSET Nat
        OBVIOUS
    <2> HIDE DEF S
    <2>7. LastOf(S) = ElementsOf(doc, j)
        BY <2>4, <2>5, <2>6, LastOfIs
    <2>8. QED
        BY <2>1, <2>7
<1>4. QED
    BY <1>2, <1>3

-----------------------------------------------------------------------------
(* One more piece of markup.                                               *)

\* What came before it keeps its counts, its places and what it is in.
LEMMA CountsKeep ==
    ASSUME NEW doc \in Seq(Tokens), NEW token \in Tokens, NEW k \in 0 .. Len(doc)
    PROVE  /\ ElementsOf(Append(doc, token), k) = ElementsOf(doc, k)
           /\ DepthOf(Append(doc, token), k) = DepthOf(doc, k)
<1> DEFINE new == Append(doc, token)
<1>1. \A i \in 1 .. Len(doc) : new[i] = doc[i]
    BY AppendProperties
<1>2. k \in Nat /\ k <= Len(doc) /\ Len(doc) \in Nat
    BY LenProperties
<1> HIDE DEF new
<1>3. \A kind : { j \in 1 .. k : new[j].kind = kind } = { j \in 1 .. k : doc[j].kind = kind }
    BY <1>1, <1>2
<1>4. \A kind : CountOf(new, kind, k) = CountOf(doc, kind, k)
    BY <1>3 DEF CountOf
<1>5. QED
    BY <1>4 DEF ElementsOf, DepthOf, new

LEMMA AppendIs ==
    ASSUME NEW doc \in Seq(Tokens), NEW token \in Tokens
    PROVE  /\ Append(doc, token) \in Seq(Tokens)
           /\ Len(Append(doc, token)) = Len(doc) + 1 /\ Len(doc) \in Nat
           /\ \A i \in 1 .. Len(doc) : Append(doc, token)[i] = doc[i]
           /\ Append(doc, token)[Len(doc) + 1] = token
           /\ ElementsOf(doc, Len(doc)) \in Nat /\ DepthOf(doc, Len(doc)) \in Int
           /\ ElementsOf(Append(doc, token), Len(doc) + 1) =
                IF IsElement(token) THEN ElementsOf(doc, Len(doc)) + 1 ELSE ElementsOf(doc, Len(doc))
           /\ DepthOf(Append(doc, token), Len(doc) + 1) =
                IF token.kind = "open" THEN DepthOf(doc, Len(doc)) + 1
                ELSE IF token.kind = "close" THEN DepthOf(doc, Len(doc)) - 1
                ELSE DepthOf(doc, Len(doc))
<1> DEFINE new == Append(doc, token)
           k == Len(doc)
<1>1. /\ new \in Seq(Tokens) /\ Len(new) = k + 1 /\ k \in Nat
      /\ \A i \in 1 .. k : new[i] = doc[i]
      /\ new[k + 1] = token
    BY AppendProperties, LenProperties
<1>2. k \in 0 .. Len(new) - 1 /\ k \in 0 .. Len(doc)
    BY <1>1
<1>3. ElementsOf(new, k) = ElementsOf(doc, k) /\ DepthOf(new, k) = DepthOf(doc, k)
    BY <1>2, CountsKeep
<1> HIDE DEF new, k
<1>4. /\ ElementsOf(new, k) \in Nat /\ DepthOf(new, k) \in Int
      /\ ElementsOf(new, k + 1) = IF IsElement(new[k + 1]) THEN ElementsOf(new, k) + 1 ELSE ElementsOf(new, k)
      /\ DepthOf(new, k + 1) = IF new[k + 1].kind = "open" THEN DepthOf(new, k) + 1
                               ELSE IF new[k + 1].kind = "close" THEN DepthOf(new, k) - 1
                               ELSE DepthOf(new, k)
    BY <1>1, <1>2, StepAt
<1>5. QED
    BY <1>1, <1>3, <1>4 DEF new, k

LEMMA PlacesKeep ==
    ASSUME NEW doc \in Seq(Tokens), NEW token \in Tokens
    PROVE  /\ \A n \in 1 .. ElementsOf(doc, Len(doc)) :
                  PlaceOf(Append(doc, token), n) = PlaceOf(doc, n)
           /\ IsElement(token) =>
                  PlaceOf(Append(doc, token), ElementsOf(doc, Len(doc)) + 1) = Len(doc) + 1
<1> DEFINE new == Append(doc, token)
<1>1. /\ new \in Seq(Tokens) /\ Len(new) = Len(doc) + 1 /\ Len(doc) \in Nat
      /\ \A i \in 1 .. Len(doc) : new[i] = doc[i]
      /\ new[Len(doc) + 1] = token
      /\ ElementsOf(new, Len(doc) + 1) =
                IF IsElement(token) THEN ElementsOf(doc, Len(doc)) + 1 ELSE ElementsOf(doc, Len(doc))
    BY AppendIs
<1>2. \A i \in 0 .. Len(doc) : ElementsOf(new, i) = ElementsOf(doc, i)
    BY CountsKeep
<1> HIDE DEF new
<1>3. ASSUME NEW n \in 1 .. ElementsOf(doc, Len(doc)) PROVE PlaceOf(new, n) = PlaceOf(doc, n)
    <2> DEFINE i == PlaceOf(doc, n)
    <2>1. i \in 1 .. Len(doc) /\ IsElement(doc[i]) /\ ElementsOf(doc, i) = n
        BY PlaceIs
    <2> HIDE DEF i
    <2>2. i \in 1 .. Len(new) /\ i \in 0 .. Len(doc) /\ IsElement(new[i]) /\ ElementsOf(new, i) = n
        BY <1>1, <1>2, <2>1
    <2>3. PlaceOf(new, ElementsOf(new, i)) = i
        BY <1>1, <2>2, ElementIs
    <2>4. QED
        BY <2>2, <2>3 DEF i
<1>4. ASSUME IsElement(token) PROVE PlaceOf(new, ElementsOf(doc, Len(doc)) + 1) = Len(doc) + 1
    <2>1. Len(doc) + 1 \in 1 .. Len(new) /\ IsElement(new[Len(doc) + 1])
        BY <1>1, <1>4
    <2>2. PlaceOf(new, ElementsOf(new, Len(doc) + 1)) = Len(doc) + 1
        BY <1>1, <2>1, ElementIs
    <2>3. QED
        BY <1>1, <1>4, <2>2
<1>5. QED
    BY <1>3, <1>4 DEF new

LEMMA ParentsKeep ==
    ASSUME NEW doc \in Seq(Tokens), NEW token \in Tokens,
           NEW total \in Nat, total = ElementsOf(doc, Len(doc)),
           NEW more \in Nat, more = ElementsOf(Append(doc, token), Len(doc) + 1),
           NEW k \in 1 .. Len(doc) + 1
    PROVE  ParentOf(Append(doc, token), more, k) = ParentOf(doc, total, k)
<1> DEFINE new == Append(doc, token)
           size == Len(doc)
           old(n) == /\ PlaceOf(doc, n) < k
                     /\ doc[PlaceOf(doc, n)].kind = "open"
                     /\ DepthOf(doc, PlaceOf(doc, n)) = DepthOf(doc, k - 1)
           now(n) == /\ PlaceOf(new, n) < k
                     /\ new[PlaceOf(new, n)].kind = "open"
                     /\ DepthOf(new, PlaceOf(new, n)) = DepthOf(new, k - 1)
<1>1. /\ size \in Nat
      /\ \A i \in 1 .. size : new[i] = doc[i]
      /\ more = IF IsElement(token) THEN total + 1 ELSE total
    BY AppendIs
<1>2. \A i \in 0 .. size : DepthOf(new, i) = DepthOf(doc, i)
    BY CountsKeep
<1>3. k - 1 \in 0 .. size /\ k \in Nat /\ k <= size + 1
    BY <1>1
<1>4. ASSUME NEW n \in 1 .. total PROVE old(n) <=> now(n)
    <2>1. PlaceOf(doc, n) \in 1 .. size /\ PlaceOf(doc, n) \in 0 .. size
        BY <1>1, PlaceIs
    <2>2. PlaceOf(new, n) = PlaceOf(doc, n)
        BY PlacesKeep
    <2> HIDE DEF new, size
    <2>3. QED
        BY <1>1, <1>2, <1>3, <2>1, <2>2
<1>5. ASSUME NEW n \in 1 .. more, n \notin 1 .. total PROVE ~now(n)
    <2>1. n = total + 1 /\ IsElement(token)
        BY <1>1, <1>5
    <2>2. PlaceOf(new, n) = size + 1
        BY <2>1, PlacesKeep
    <2> HIDE DEF new, size
    <2>3. QED
        BY <1>1, <1>3, <2>2
<1>6. 1 .. total \subseteq 1 .. more
    BY <1>1
<1>7. { n \in 1 .. more : now(n) } = { n \in 1 .. total : old(n) }
    <2> HIDE DEF now, old
    <2>1. QED
        BY <1>4, <1>5, <1>6
<1>8. DepthOf(new, k - 1) = DepthOf(doc, k - 1)
    BY <1>2, <1>3
<1>9. QED
    BY <1>7, <1>8 DEF ParentOf

-----------------------------------------------------------------------------
(* Documents in which every tag is complete and closes what is open.       *)

Sound(doc) == \A k \in 1 .. Len(doc) : doc[k].kind # "broken" /\ DepthOf(doc, k) >= 0

LEMMA DepthIsNat ==
    ASSUME NEW doc \in Seq(Tokens), Sound(doc), NEW k \in 0 .. Len(doc)
    PROVE  DepthOf(doc, k) \in Nat
<1>1. k \in Nat /\ Len(doc) \in Nat /\ (k = 0 \/ k \in 1 .. Len(doc))
    BY LenProperties
<1>2. DepthOf(doc, k) \in Int /\ DepthOf(doc, 0) = 0
    BY <1>1, CountsAre
<1>3. QED
    BY <1>1, <1>2 DEF Sound

\* The element that the markup after the k-th piece is in.
LEMMA ParentAfter ==
    ASSUME NEW doc \in Seq(Tokens), Sound(doc), NEW k \in 0 .. Len(doc), NEW total \in Nat,
           total = ElementsOf(doc, Len(doc))
    PROVE  \/ DepthOf(doc, k) = 0 /\ ParentOf(doc, total, k + 1) = NoNode
           \/ \E j \in 1 .. k : /\ DepthOf(doc, k) > 0 /\ Opens(doc, j, k)
                                /\ ParentOf(doc, total, k + 1) = ElementsOf(doc, j)
                                /\ ElementsOf(doc, j) \in 1 .. total
                                /\ ElementsOf(doc, j) <= ElementsOf(doc, k)
                                /\ PlaceOf(doc, ElementsOf(doc, j)) = j
<1>1. k \in Nat /\ Len(doc) \in Nat /\ DepthOf(doc, k) \in Nat /\ k <= Len(doc)
    BY LenProperties, DepthIsNat
<1>2. CASE DepthOf(doc, k) = 0
    BY <1>2, ParentIs
<1>3. CASE DepthOf(doc, k) # 0
    <2>1. DepthOf(doc, k) > 0
        BY <1>1, <1>3
    <2>2. PICK j \in 1 .. k : Opens(doc, j, k)
        BY <2>1, RiseExists
    <2>3. ParentOf(doc, total, k + 1) = ElementsOf(doc, j)
        BY <1>3, <2>2, ParentIs
    <2>4. j \in 1 .. Len(doc) /\ j \in Nat /\ j <= k /\ IsElement(doc[j])
        BY <1>1, <2>2 DEF Opens, IsElement
    <2>5. ElementsOf(doc, j) \in 1 .. total /\ PlaceOf(doc, ElementsOf(doc, j)) = j
        BY <2>4, ElementIs
    <2>6. ElementsOf(doc, j) <= ElementsOf(doc, k)
        BY <1>1, <2>4, ElementsGrow
    <2>7. QED
        BY <2>1, <2>2, <2>3, <2>5, <2>6
<1>4. QED
    BY <1>2, <1>3

LEMMA ParentIsEarlier ==
    ASSUME NEW doc \in Seq(Tokens), Sound(doc), NEW total \in Nat,
           total = ElementsOf(doc, Len(doc)),
           NEW n \in 1 .. total
    PROVE  ParentOf(doc, total, PlaceOf(doc, n)) \in 0 .. n - 1
<1> DEFINE k == PlaceOf(doc, n)
           p == ParentOf(doc, total, k)
<1>1. k \in 1 .. Len(doc) /\ IsElement(doc[k]) /\ ElementsOf(doc, k) = n
    BY PlaceIs
<1> HIDE DEF k
<1>2. /\ Len(doc) \in Nat /\ k - 1 \in Nat /\ k - 1 \in 0 .. Len(doc) /\ k - 1 < k /\ (k - 1) + 1 = k
    BY <1>1, LenProperties
<1>3. ElementsOf(doc, k - 1) < n /\ ElementsOf(doc, k - 1) \in Nat /\ n \in Nat
    BY <1>1, <1>2, ElementsDiffer, CountsAre
<1>4. ParentOf(doc, total, k) = NoNode \/ \E j \in 1 .. k - 1 :
            /\ ParentOf(doc, total, k) = ElementsOf(doc, j)
            /\ ElementsOf(doc, j) \in 1 .. total
            /\ ElementsOf(doc, j) <= ElementsOf(doc, k - 1)
    BY <1>2, ParentAfter
<1>5. CASE p = NoNode
    BY <1>3, <1>5 DEF NoNode, k
<1>6. CASE p # NoNode
    <2>1. p \in 1 .. total /\ p <= ElementsOf(doc, k - 1)
        BY <1>4, <1>6
    <2> HIDE DEF p
    <2>2. p \in 0 .. n - 1
        BY <1>3, <2>1
    <2>3. QED
        BY <2>2 DEF p, k
<1>7. QED
    BY <1>5, <1>6

\* What a closing tag leaves: the element it closes is the last in what is
\* around it, and what is around it is open again.
LEMMA ClosingIs ==
    ASSUME NEW doc \in Seq(Tokens), NEW token \in Tokens, token.kind = "close",
           Sound(doc), NEW total \in Nat, total = ElementsOf(doc, Len(doc)),
           NEW p, p = ParentOf(doc, total, Len(doc) + 1), p # NoNode
    PROVE  /\ p \in 1 .. total
           /\ ParentOf(Append(doc, token), total, Len(doc) + 2) = ParentOf(doc, total, PlaceOf(doc, p))
           /\ \A n \in 1 .. total :
                 ParentOf(doc, total, PlaceOf(doc, n)) = ParentOf(doc, total, PlaceOf(doc, p)) => n <= p
<1> DEFINE new == Append(doc, token)
           size == Len(doc)
           d == DepthOf(doc, size)
<1>1. /\ size \in Nat /\ size \in 0 .. Len(doc) /\ d \in Nat
    BY LenProperties, DepthIsNat
<1>2. PICK j \in 1 .. size : /\ d > 0 /\ Opens(doc, j, size)
                             /\ p = ElementsOf(doc, j)
                             /\ ElementsOf(doc, j) \in 1 .. total
                             /\ PlaceOf(doc, ElementsOf(doc, j)) = j
    BY <1>1, ParentAfter
<1>3. p \in 1 .. total /\ PlaceOf(doc, p) = j
    BY <1>2
<1>4. /\ j \in Nat /\ j >= 1 /\ j <= size /\ doc[j].kind = "open" /\ DepthOf(doc, j) = d
      /\ \A i \in j .. size : DepthOf(doc, i) >= d
    BY <1>1, <1>2 DEF Opens
<1>5. /\ j - 1 \in Nat /\ j - 1 \in 0 .. Len(doc) /\ j - 1 \in 0 .. Len(doc) - 1 /\ (j - 1) + 1 = j
      /\ j - 1 \in 0 .. size
    BY <1>1, <1>4
<1>6. DepthOf(doc, j - 1) = d - 1
    <2>1. DepthOf(doc, j) = DepthOf(doc, j - 1) + 1 /\ DepthOf(doc, j - 1) \in Int
        BY <1>4, <1>5, StepAt
    <2> HIDE DEF d
    <2>2. QED
        BY <1>1, <1>4, <2>1
<1>7. /\ new \in Seq(Tokens) /\ Len(new) = size + 1
      /\ \A i \in 1 .. size : new[i] = doc[i]
      /\ ElementsOf(new, size + 1) = total
      /\ DepthOf(new, size + 1) = d - 1
    BY AppendIs DEF IsElement
<1>8. \A i \in 0 .. size : DepthOf(new, i) = DepthOf(doc, i) /\ ElementsOf(new, i) = ElementsOf(doc, i)
    BY CountsKeep
<1> HIDE DEF new, size, d
<1>9. ParentOf(new, total, size + 2) = ParentOf(doc, total, j)
    <2>1. size + 1 \in 0 .. Len(new) /\ (size + 1) + 1 = size + 2 /\ total = ElementsOf(new, Len(new))
        BY <1>1, <1>7
    <2>2. CASE d - 1 = 0
        <3>1. ParentOf(new, total, size + 2) = NoNode
            BY <1>7, <2>1, <2>2, ParentIs
        <3>2. ParentOf(doc, total, j) = NoNode
            <4>1. ParentOf(doc, total, (j - 1) + 1) = NoNode
                BY <1>5, <1>6, <2>2, ParentIs
            <4>2. QED
                BY <1>5, <4>1
        <3>3. QED
            BY <3>1, <3>2
    <2>3. CASE d - 1 # 0
        <3>1. DepthOf(doc, j - 1) # 0
            BY <1>6, <2>3
        <3>2. PICK i \in 1 .. j - 1 : /\ Opens(doc, i, j - 1)
                                      /\ ParentOf(doc, total, (j - 1) + 1) = ElementsOf(doc, i)
            BY <1>5, <3>1, ParentAfter
        <3>3. /\ i \in Nat /\ i >= 1 /\ i <= j - 1 /\ doc[i].kind = "open" /\ DepthOf(doc, i) = d - 1
              /\ \A m \in i .. j - 1 : DepthOf(doc, m) >= d - 1
            BY <1>5, <1>6, <3>2 DEF Opens
        <3>4. i \in 1 .. size /\ i \in 0 .. size /\ i \in 1 .. size + 1
            BY <1>1, <1>4, <3>3
        <3>5. new[i].kind = "open" /\ DepthOf(new, i) = d - 1
            BY <1>7, <1>8, <3>3, <3>4
        <3>6. ASSUME NEW m \in i .. size + 1 PROVE DepthOf(new, m) >= d - 1
            <4>1. CASE m = size + 1
                BY <1>1, <1>7, <4>1
            <4>2. CASE m # size + 1
                <5>1. m \in 0 .. size /\ m \in Nat /\ (m \in i .. j - 1 \/ m \in j .. size)
                    BY <1>1, <1>4, <3>3, <4>2
                <5>2. DepthOf(new, m) = DepthOf(doc, m)
                    BY <1>8, <5>1
                <5>3. DepthOf(doc, m) \in Int
                    BY <5>1, CountsAre
                <5>4. DepthOf(doc, m) >= d - 1
                    <6>1. CASE m \in i .. j - 1
                        BY <3>3, <6>1
                    <6>2. CASE m \in j .. size
                        <7>1. DepthOf(doc, m) >= d
                            BY <1>4, <6>2
                        <7>2. QED
                            BY <1>1, <5>3, <7>1
                    <6>3. QED
                        BY <5>1, <6>1, <6>2
                <5>5. QED
                    BY <5>2, <5>4
            <4>3. QED
                BY <4>1, <4>2
        <3>7. Opens(new, i, size + 1)
            BY <1>7, <3>4, <3>5, <3>6 DEF Opens
        <3>8. DepthOf(new, size + 1) # 0
            BY <1>7, <2>3
        <3>9. ParentOf(new, total, (size + 1) + 1) = ElementsOf(new, i)
            BY <1>7, <2>1, <3>7, <3>8, ParentIs
        <3>10. ElementsOf(new, i) = ElementsOf(doc, i)
            BY <1>8, <3>4
        <3>11. QED
            BY <1>5, <2>1, <3>2, <3>9, <3>10
    <2>4. QED
        BY <2>2, <2>3
<1>10. ASSUME NEW n \in 1 .. total, n > p
       PROVE  ParentOf(doc, total, PlaceOf(doc, n)) # ParentOf(doc, total, j)
    <2> DEFINE m == PlaceOf(doc, n)
    <2>1. m \in 1 .. Len(doc) /\ IsElement(doc[m]) /\ ElementsOf(doc, m) = n
        BY PlaceIs
    <2> HIDE DEF m
    <2>2. /\ Len(doc) = size /\ m \in Nat /\ m - 1 \in 0 .. Len(doc) /\ m - 1 \in Nat /\ (m - 1) + 1 = m
          /\ m - 1 \in 0 .. size
        BY <1>1, <2>1 DEF size
    <2>3. m > j
        <3> SUFFICES ASSUME m <= j PROVE FALSE
            BY <1>4, <2>2
        <3>1. n <= p
            BY <1>2, <1>4, <2>1, <2>2, ElementsGrow
        <3>2. QED
            BY <1>2, <1>10, <3>1
    <2>4. m - 1 \in j .. size /\ j <= m - 1
        BY <1>1, <1>4, <2>1, <2>2, <2>3
    <2>5. DepthOf(doc, m - 1) >= d /\ DepthOf(doc, m - 1) \in Int
        BY <1>4, <2>2, <2>4, CountsAre
    <2>6. DepthOf(doc, m - 1) # 0
        BY <1>1, <1>2, <2>5
    <2>7. PICK i \in 1 .. m - 1 : /\ Opens(doc, i, m - 1)
                                  /\ ParentOf(doc, total, (m - 1) + 1) = ElementsOf(doc, i)
        BY <2>2, <2>6, ParentAfter
    <2>8. /\ i \in Nat /\ i >= 1 /\ i <= m - 1
          /\ \A x \in i .. m - 1 : DepthOf(doc, x) >= DepthOf(doc, m - 1)
        BY <2>2, <2>7 DEF Opens
    <2>9. j <= i
        <3> SUFFICES ASSUME i < j PROVE FALSE
            BY <1>4, <2>8
        <3>1. j \in i .. m - 1 /\ j \in 1 .. m - 1
            BY <1>4, <2>2, <2>4, <2>8
        <3>2. d >= DepthOf(doc, m - 1)
            BY <1>4, <2>8, <3>1
        <3>3. DepthOf(doc, j) = DepthOf(doc, m - 1)
            BY <1>1, <1>4, <2>5, <3>2
        <3>4. j <= i
            BY <1>4, <2>2, <2>7, <3>1, <3>3, RiseIsLast
        <3>5. QED
            BY <1>4, <2>8, <3>4
    <2>10. ElementsOf(doc, j) <= ElementsOf(doc, i)
        <3>1. i <= Len(doc)
            BY <1>1, <2>2, <2>8
        <3>2. QED
            BY <1>4, <2>8, <2>9, <3>1, ElementsGrow
    <2>11. ParentOf(doc, total, j) \in 0 .. p - 1
        <3>1. ParentOf(doc, total, PlaceOf(doc, p)) \in 0 .. p - 1
            BY <1>3, ParentIsEarlier
        <3>2. QED
            BY <1>3, <3>1
    <2>12. ElementsOf(doc, i) \in Nat
        BY <2>8, CountsAre
    <2>13. QED
        <3>1. ParentOf(doc, total, m) = ElementsOf(doc, i) /\ p = ElementsOf(doc, j) /\ p \in Nat
            BY <1>2, <2>2, <2>7
        <3>2. ParentOf(doc, total, m) # ParentOf(doc, total, j)
            BY <2>10, <2>11, <2>12, <3>1
        <3>3. QED
            BY <3>2 DEF m
<1>11. QED
    <2>1. \A n \in 1 .. total :
                 ParentOf(doc, total, PlaceOf(doc, n)) = ParentOf(doc, total, PlaceOf(doc, p)) => n <= p
        BY <1>3, <1>10
    <2>2. ParentOf(Append(doc, token), total, Len(doc) + 2) = ParentOf(doc, total, PlaceOf(doc, p))
        BY <1>3, <1>9 DEF new, size
    <2>3. QED
        BY <1>3, <2>1, <2>2

\* Text and elements without content leave the same element open, and an
\* opening tag its own.
LEMMA StayingIs ==
    ASSUME NEW doc \in Seq(Tokens), NEW token \in Tokens, token.kind \in {"empty", "text"},
           Sound(doc), NEW total \in Nat, total = ElementsOf(doc, Len(doc)),
           NEW more \in Nat, more = ElementsOf(Append(doc, token), Len(doc) + 1)
    PROVE  ParentOf(Append(doc, token), more, Len(doc) + 2) = ParentOf(doc, total, Len(doc) + 1)
<1> DEFINE new == Append(doc, token)
           size == Len(doc)
           d == DepthOf(doc, size)
<1>1. /\ size \in Nat /\ size \in 0 .. Len(doc) /\ d \in Nat /\ size \in 0 .. size
    BY LenProperties, DepthIsNat
<1>2. /\ new \in Seq(Tokens) /\ Len(new) = size + 1
      /\ \A i \in 1 .. size : new[i] = doc[i]
      /\ DepthOf(new, size + 1) = d
    BY AppendIs
<1>3. \A i \in 0 .. size : DepthOf(new, i) = DepthOf(doc, i) /\ ElementsOf(new, i) = ElementsOf(doc, i)
    BY CountsKeep
<1>4. more = ElementsOf(new, size + 1)
    OBVIOUS
<1> HIDE DEF new, size
<1>5. size + 1 \in 0 .. Len(new) /\ (size + 1) + 1 = size + 2 /\ more = ElementsOf(new, Len(new))
    BY <1>1, <1>2, <1>4
<1>6. CASE d = 0
    <2>1. ParentOf(new, more, size + 2) = NoNode
        BY <1>2, <1>5, <1>6, ParentIs
    <2>2. ParentOf(doc, total, size + 1) = NoNode
        BY <1>1, <1>6, ParentIs DEF size
    <2>3. QED
        BY <2>1, <2>2 DEF new, size
<1>7. CASE d # 0
    <2>1. PICK j \in 1 .. size : /\ Opens(doc, j, size)
                                 /\ ParentOf(doc, total, size + 1) = ElementsOf(doc, j)
        BY <1>1, <1>7, ParentAfter DEF size
    <2>2. /\ j \in Nat /\ j >= 1 /\ j <= size /\ doc[j].kind = "open" /\ DepthOf(doc, j) = d
          /\ \A m \in j .. size : DepthOf(doc, m) >= d
        BY <1>1, <2>1 DEF Opens
    <2>3. j \in 1 .. size /\ j \in 0 .. size /\ j \in 1 .. size + 1
        BY <1>1, <2>2
    <2>4. new[j].kind = "open" /\ DepthOf(new, j) = d
        BY <1>2, <1>3, <2>2, <2>3
    <2>5. ASSUME NEW m \in j .. size + 1 PROVE DepthOf(new, m) >= d
        <3>1. CASE m = size + 1
            BY <1>1, <1>2, <3>1
        <3>2. CASE m # size + 1
            <4>1. m \in 0 .. size /\ m \in j .. size
                BY <1>1, <2>2, <3>2
            <4>2. DepthOf(new, m) = DepthOf(doc, m) /\ DepthOf(doc, m) >= d
                BY <1>3, <2>2, <4>1
            <4>3. QED
                BY <4>2
        <3>3. QED
            BY <3>1, <3>2
    <2>6. Opens(new, j, size + 1)
        BY <1>2, <2>3, <2>4, <2>5 DEF Opens
    <2>7. ParentOf(new, more, (size + 1) + 1) = ElementsOf(new, j)
        BY <1>2, <1>5, <1>7, <2>6, ParentIs
    <2>8. ElementsOf(new, j) = ElementsOf(doc, j)
        BY <1>3, <2>3
    <2>9. QED
        BY <1>5, <2>1, <2>7, <2>8 DEF new, size
<1>8. QED
    BY <1>6, <1>7

LEMMA OpeningIs ==
    ASSUME NEW doc \in Seq(Tokens), NEW token \in Tokens, token.kind = "open",
           Sound(doc), NEW more \in Nat, more = ElementsOf(Append(doc, token), Len(doc) + 1)
    PROVE  ParentOf(Append(doc, token), more, Len(doc) + 2) = more
<1> DEFINE new == Append(doc, token)
           size == Len(doc)
<1>1. /\ size \in Nat /\ size \in 0 .. Len(doc) /\ DepthOf(doc, size) \in Nat
    BY LenProperties, DepthIsNat
<1>2. /\ new \in Seq(Tokens) /\ Len(new) = size + 1 /\ new[size + 1] = token
      /\ DepthOf(new, size + 1) = DepthOf(doc, size) + 1
    BY AppendIs
<1>3. more = ElementsOf(new, size + 1)
    OBVIOUS
<1> HIDE DEF new, size
<1>4. /\ size + 1 \in 0 .. Len(new) /\ (size + 1) + 1 = size + 2 /\ more = ElementsOf(new, Len(new))
      /\ size + 1 \in 1 .. size + 1 /\ DepthOf(new, size + 1) # 0 /\ DepthOf(new, size + 1) \in Int
    BY <1>1, <1>2, <1>3
<1>5. \A i \in size + 1 .. size + 1 : DepthOf(new, i) >= DepthOf(new, size + 1)
    <2>1. \A i \in size + 1 .. size + 1 : i = size + 1
        BY <1>1
    <2>2. QED
        BY <1>4, <2>1
<1>6. Opens(new, size + 1, size + 1)
    BY <1>2, <1>4, <1>5 DEF Opens
<1>7. ParentOf(new, more, (size + 1) + 1) = ElementsOf(new, size + 1)
    BY <1>2, <1>4, <1>6, ParentIs
<1>8. QED
    BY <1>3, <1>4, <1>7 DEF new, size

-----------------------------------------------------------------------------
(* The first and the last of some nodes.                                   *)

LEMMA FirstIs ==
    ASSUME NEW S \in SUBSET Nat, S # {}
    PROVE  FirstOf(S) \in S /\ \A n \in S : FirstOf(S) <= n
<1>1. PICK m \in S : \A n \in S : m <= n
    BY LeastNatural
<1>2. FirstOf(S) = m
    BY <1>1, FirstOfIs
<1>3. QED
    BY <1>1, <1>2

LEMMA LastIs ==
    ASSUME NEW total \in Nat, NEW S \in SUBSET (1 .. total), S # {}
    PROVE  LastOf(S) \in S /\ \A n \in S : n <= LastOf(S)
<1> DEFINE T == { i \in Nat : total - i \in S }
<1>1. T \in SUBSET Nat /\ T # {}
    <2>1. PICK n \in S : TRUE
        OBVIOUS
    <2>2. n \in 1 .. total /\ total - n \in Nat /\ total - (total - n) = n
        OBVIOUS
    <2>3. QED
        BY <2>1, <2>2
<1>2. PICK i \in T : \A j \in T : i <= j
    <2> HIDE DEF T
    <2>1. QED
        BY <1>1, LeastNatural
<1>3. total - i \in S /\ i \in Nat
    OBVIOUS
<1>4. ASSUME NEW n \in S PROVE n <= total - i
    <2>1. n \in 1 .. total /\ total - n \in Nat /\ total - (total - n) = n
        OBVIOUS
    <2>2. total - n \in T
        BY <2>1
    <2>3. i <= total - n
        BY <1>2, <2>2
    <2>4. QED
        BY <1>3, <2>1, <2>3
<1>5. S \in SUBSET Nat
    OBVIOUS
<1>6. LastOf(S) = total - i
    BY <1>3, <1>4, <1>5, LastOfIs
<1>7. QED
    BY <1>3, <1>4, <1>6

\* A new node comes after all others.
LEMMA FirstWithMore ==
    ASSUME NEW total \in Nat, NEW S \in SUBSET (1 .. total)
    PROVE  FirstOf(S \cup {total + 1}) = IF S = {} THEN total + 1 ELSE FirstOf(S)
<1> DEFINE T == S \cup {total + 1}
<1>1. T \in SUBSET Nat /\ S \in SUBSET Nat
    OBVIOUS
<1>2. CASE S = {}
    <2>1. total + 1 \in T /\ \A n \in T : total + 1 <= n
        BY <1>2
    <2> HIDE DEF T
    <2>2. FirstOf(T) = total + 1
        BY <1>1, <2>1, FirstOfIs
    <2>3. QED
        BY <1>2, <2>2 DEF T
<1>3. CASE S # {}
    <2>1. FirstOf(S) \in S /\ \A n \in S : FirstOf(S) <= n
        BY <1>1, <1>3, FirstIs
    <2> DEFINE m == FirstOf(S)
    <2> HIDE DEF m
    <2>2. m \in T /\ m \in 1 .. total
        BY <2>1 DEF m
    <2>3. \A n \in T : m <= n
        BY <2>1, <2>2 DEF m
    <2> HIDE DEF T
    <2>4. FirstOf(T) = m
        BY <1>1, <2>2, <2>3, FirstOfIs
    <2>5. QED
        BY <1>3, <2>4 DEF T, m
<1>4. QED
    BY <1>2, <1>3

\* There is a first and a last of them unless there is none.
LEMMA NoneIs ==
    ASSUME NEW total \in Nat, NEW S \in SUBSET (1 .. total)
    PROVE  /\ FirstOf(S) = NoNode <=> S = {}
           /\ LastOf(S) = NoNode <=> S = {}
<1>1. CASE S = {}
    BY <1>1 DEF FirstOf, LastOf
<1>2. CASE S # {}
    <2>1. FirstOf(S) \in S /\ LastOf(S) \in S
        BY <1>2, FirstIs, LastIs
    <2>2. 0 \notin S
        OBVIOUS
    <2>3. QED
        BY <1>2, <2>1, <2>2 DEF NoNode
<1>3. QED
    BY <1>1, <1>2

-----------------------------------------------------------------------------
(* The nodes' pointers.                                                    *)

InOf(doc, total, p) == { n \in 1 .. total : ParentOf(doc, total, PlaceOf(doc, n)) = p }

\* TreeIsDocument without the assumption that the document is well formed.
Tree(doc, total, list, first) ==
    /\ \A n \in 1 .. total :
           /\ list[n].parent = ParentOf(doc, total, PlaceOf(doc, n))
           /\ list[n].children = FirstOf(InOf(doc, total, n))
           /\ list[n].next = FirstOf({ m \in InOf(doc, total, list[n].parent) : m > n })
           /\ list[n].prev = LastOf({ m \in InOf(doc, total, list[n].parent) : m < n })
    /\ first = FirstOf(InOf(doc, total, NoNode))

LEMMA ParentsStay ==
    ASSUME NEW doc \in Seq(Tokens), NEW token \in Tokens,
           NEW total \in Nat, total = ElementsOf(doc, Len(doc)),
           NEW more \in Nat, more = ElementsOf(Append(doc, token), Len(doc) + 1),
           NEW n \in 1 .. total
    PROVE  ParentOf(Append(doc, token), more, PlaceOf(Append(doc, token), n)) = ParentOf(doc, total, PlaceOf(doc, n))
<1>1. PlaceOf(Append(doc, token), n) = PlaceOf(doc, n)
    BY PlacesKeep
<1>2. PlaceOf(doc, n) \in 1 .. Len(doc) + 1
    <2>1. PlaceOf(doc, n) \in 1 .. Len(doc) /\ Len(doc) \in Nat
        BY PlaceIs, LenProperties
    <2>2. QED
        BY <2>1
<1>3. ParentOf(Append(doc, token), more, PlaceOf(doc, n)) = ParentOf(doc, total, PlaceOf(doc, n))
    BY <1>2, ParentsKeep
<1>4. QED
    BY <1>1, <1>3

LEMMA SameTree ==
    ASSUME NEW doc \in Seq(Tokens), NEW token \in Tokens, ~IsElement(token),
           NEW total \in Nat, total = ElementsOf(doc, Len(doc)),
           NEW list, NEW first, Tree(doc, total, list, first),
           NEW p
    PROVE  /\ InOf(Append(doc, token), total, p) = InOf(doc, total, p)
           /\ Tree(Append(doc, token), total, list, first)
<1> DEFINE new == Append(doc, token)
<1>1. \A n \in 1 .. total : ParentOf(new, total, PlaceOf(new, n)) = ParentOf(doc, total, PlaceOf(doc, n))
    <2>1. total = ElementsOf(Append(doc, token), Len(doc) + 1)
        BY AppendIs
    <2>2. QED
        BY <2>1, ParentsStay
<1> HIDE DEF new
<1>2. \A q : InOf(new, total, q) = InOf(doc, total, q)
    BY <1>1 DEF InOf
<1>3. Tree(new, total, list, first)
    BY <1>1, <1>2 DEF Tree
<1>4. QED
    BY <1>2, <1>3 DEF new

LEMMA NewAmongOthers ==
    ASSUME NEW doc \in Seq(Tokens), NEW token \in Tokens, IsElement(token),
           NEW total \in Nat, total = ElementsOf(doc, Len(doc)),
           NEW q
    PROVE  InOf(Append(doc, token), total + 1, q) =
               IF q = ParentOf(doc, total, Len(doc) + 1) THEN InOf(doc, total, q) \cup {total + 1}
               ELSE InOf(doc, total, q)
<1> DEFINE new == Append(doc, token)
<1>1. /\ total + 1 = ElementsOf(new, Len(doc) + 1) /\ total + 1 \in Nat
      /\ Len(doc) \in Nat /\ Len(doc) + 1 \in 1 .. Len(doc) + 1
    BY AppendIs
<1>2. \A n \in 1 .. total : ParentOf(new, total + 1, PlaceOf(new, n)) = ParentOf(doc, total, PlaceOf(doc, n))
    BY <1>1, ParentsStay
<1>3. PlaceOf(new, total + 1) = Len(doc) + 1
    BY PlacesKeep
<1>4. ParentOf(new, total + 1, Len(doc) + 1) = ParentOf(doc, total, Len(doc) + 1)
    BY <1>1, ParentsKeep
<1> HIDE DEF new
<1>5. 1 .. total + 1 = (1 .. total) \cup {total + 1}
    OBVIOUS
<1>6. InOf(new, total + 1, q) = { n \in (1 .. total) \cup {total + 1} : ParentOf(new, total + 1, PlaceOf(new, n)) = q }
    BY <1>5 DEF InOf
<1>7. QED
    BY <1>2, <1>3, <1>4, <1>6 DEF InOf, new

\* A node that comes after all of its siblings makes one of their number.
LEMMA AddedIs ==
    ASSUME NEW doc \in Seq(Tokens), NEW token \in Tokens, IsElement(token), Sound(doc),
           NEW total \in Nat, total = ElementsOf(doc, Len(doc)),
           NEW list, NEW first, Tree(doc, total, list, first),
           NEW p, p = ParentOf(doc, total, Len(doc) + 1),
           NEW last, last = LastOf(InOf(doc, total, p)),
           NEW now,
           \A n \in 1 .. total :
               /\ now[n].parent = list[n].parent
               /\ now[n].prev = list[n].prev
               /\ now[n].children = IF n = p /\ list[n].children = NoNode THEN total + 1 ELSE list[n].children
               /\ now[n].next = IF n = last THEN total + 1 ELSE list[n].next,
           now[total + 1].parent = p, now[total + 1].prev = last,
           now[total + 1].children = NoNode, now[total + 1].next = NoNode
    PROVE  /\ Tree(Append(doc, token), total + 1, now, IF p = NoNode /\ last = NoNode THEN total + 1 ELSE first)
           /\ InOf(Append(doc, token), total + 1, total + 1) = {}
           /\ LastOf(InOf(Append(doc, token), total + 1, p)) = total + 1
<1> DEFINE new == Append(doc, token)
           old(q) == InOf(doc, total, q)
           in(q) == InOf(new, total + 1, q)
           up(n) == ParentOf(doc, total, PlaceOf(doc, n))
<1>1. \A q : in(q) = IF q = p THEN old(q) \cup {total + 1} ELSE old(q)
    <2>1. total = ElementsOf(doc, Len(doc)) /\ IsElement(token)
        OBVIOUS
    <2>2. \A q : InOf(Append(doc, token), total + 1, q) =
               IF q = ParentOf(doc, total, Len(doc) + 1) THEN InOf(doc, total, q) \cup {total + 1}
               ELSE InOf(doc, total, q)
        BY ONLY <2>1, NewAmongOthers
    <2>3. QED
        BY ONLY <2>2, p = ParentOf(doc, total, Len(doc) + 1)
<1>2. \A q : old(q) \in SUBSET (1 .. total)
    BY DEF InOf
<1>3. p \in 0 .. total
    <2>1. Len(doc) \in Nat /\ Len(doc) \in 0 .. Len(doc)
        BY LenProperties
    <2>2. p = NoNode \/ p \in 1 .. total
        BY <2>1, ParentAfter
    <2>3. QED
        BY <2>2 DEF NoNode
<1>4. \A n \in 1 .. total : up(n) \in 0 .. n - 1
    BY ParentIsEarlier
<1>5. \A q : \A n : n \in old(q) <=> n \in 1 .. total /\ up(n) = q
    BY DEF InOf
<1>6. old(total + 1) = {} /\ p # total + 1
    BY <1>2, <1>3, <1>4, <1>5
<1>7. in(total + 1) = {}
    BY <1>1, <1>6
<1>8. \A n \in 1 .. total :
           /\ list[n].parent = up(n)
           /\ list[n].children = FirstOf(old(n))
           /\ list[n].next = FirstOf({ m \in old(up(n)) : m > n })
           /\ list[n].prev = LastOf({ m \in old(up(n)) : m < n })
    BY DEF Tree
<1>9. first = FirstOf(old(NoNode))
    BY DEF Tree
<1>10. /\ \A n \in 1 .. total : ParentOf(new, total + 1, PlaceOf(new, n)) = up(n)
       /\ ParentOf(new, total + 1, PlaceOf(new, total + 1)) = p
    <2>1. /\ total + 1 = ElementsOf(new, Len(doc) + 1) /\ total + 1 \in Nat
          /\ Len(doc) \in Nat /\ Len(doc) + 1 \in 1 .. Len(doc) + 1
        BY AppendIs
    <2>2. PlaceOf(new, total + 1) = Len(doc) + 1
        BY PlacesKeep
    <2>3. QED
        BY <2>1, <2>2, ParentsStay, ParentsKeep
<1>11. last = LastOf(old(p))
    OBVIOUS
<1> HIDE DEF old, in, up, new
<1>12. \A q : in(q) \in SUBSET (1 .. total + 1)
    BY <1>1, <1>2
<1>13. ASSUME NEW n \in 1 .. total
       PROVE  now[n].children = FirstOf(in(n))
    <2>1. list[n].children = FirstOf(old(n)) /\ (FirstOf(old(n)) = NoNode <=> old(n) = {})
        BY <1>2, <1>8, NoneIs
    <2>2. now[n].children = IF n = p /\ list[n].children = NoNode THEN total + 1 ELSE list[n].children
        OBVIOUS
    <2>3. FirstOf(old(n) \cup {total + 1}) = IF old(n) = {} THEN total + 1 ELSE FirstOf(old(n))
        BY <1>2, FirstWithMore
    <2>4. QED
        BY <1>1, <2>1, <2>2, <2>3
<1>14. ASSUME NEW n \in 1 .. total
       PROVE  now[n].prev = LastOf({ m \in in(up(n)) : m < n })
    <2>1. { m \in in(up(n)) : m < n } = { m \in old(up(n)) : m < n }
        BY <1>1
    <2>2. now[n].prev = list[n].prev
        OBVIOUS
    <2>3. list[n].prev = LastOf({ m \in old(up(n)) : m < n })
        BY <1>8
    <2>4. QED
        BY ONLY <2>1, <2>2, <2>3, Zenon
<1>15. ASSUME NEW n \in 1 .. total
       PROVE  now[n].next = FirstOf({ m \in in(up(n)) : m > n })
    <2> DEFINE later == { m \in old(up(n)) : m > n }
    <2>1. list[n].next = FirstOf(later) /\ later \in SUBSET (1 .. total)
        BY <1>2, <1>8
    <2>2. now[n].next = IF n = last THEN total + 1 ELSE list[n].next
        OBVIOUS
    <2>3. n \in old(up(n))
        BY <1>5
    <2>4. CASE up(n) # p
        <3>1. n # last
            <4> SUFFICES ASSUME n = last PROVE FALSE
                OBVIOUS
            <4>1. old(p) # {}
                <5>1. n # NoNode /\ LastOf(old(p)) = n
                    BY <1>11 DEF NoNode
                <5>2. LastOf(old(p)) = NoNode <=> old(p) = {}
                    BY <1>2, NoneIs
                <5>3. QED
                    BY <5>1, <5>2
            <4>2. last \in old(p)
                BY <1>2, <1>11, <4>1, LastIs
            <4>3. QED
                BY <1>5, <2>4, <4>2
        <3>2. { m \in in(up(n)) : m > n } = later
            BY <1>1, <2>4
        <3>3. QED
            BY <2>1, <2>2, <3>1, <3>2
    <2>5. CASE up(n) = p
        <3>1. { m \in in(up(n)) : m > n } = later \cup {total + 1}
            BY <1>1, <2>5
        <3>2. FirstOf(later \cup {total + 1}) = IF later = {} THEN total + 1 ELSE FirstOf(later)
            BY <2>1, FirstWithMore
        <3>3. old(p) # {} /\ n \in old(p)
            BY <2>3, <2>5
        <3>4. last \in old(p) /\ \A m \in old(p) : m <= last
            <4>1. old(p) \in SUBSET (1 .. total)
                BY <1>2
            <4>2. LastOf(old(p)) \in old(p) /\ \A m \in old(p) : m <= LastOf(old(p))
                BY <3>3, <4>1, LastIs
            <4>3. QED
                BY <1>11, <4>2
        <3>5. n = last <=> later = {}
            BY <1>2, <2>5, <3>3, <3>4
        <3>6. QED
            BY <2>1, <2>2, <3>1, <3>2, <3>5
    <2>6. QED
        BY <2>4, <2>5
<1>16. /\ now[total + 1].children = FirstOf(in(total + 1))
       /\ now[total + 1].next = FirstOf({ m \in in(p) : m > total + 1 })
       /\ now[total + 1].prev = LastOf({ m \in in(p) : m < total + 1 })
    <2>1. { m \in in(p) : m > total + 1 } = {}
        BY <1>12
    <2>2. { m \in in(p) : m < total + 1 } = old(p)
        BY <1>1, <1>2
    <2>3. FirstOf({}) = NoNode
        BY DEF FirstOf
    <2>4. QED
        BY <1>7, <1>11, <2>1, <2>2, <2>3
<1>17. (IF p = NoNode /\ last = NoNode THEN total + 1 ELSE first) = FirstOf(in(NoNode))
    <2>1. FirstOf(old(NoNode) \cup {total + 1}) = IF old(NoNode) = {} THEN total + 1 ELSE FirstOf(old(NoNode))
        BY <1>2, FirstWithMore
    <2>2. last = NoNode <=> old(p) = {}
        BY <1>2, <1>11, NoneIs
    <2>3. QED
        BY <1>1, <1>9, <2>1, <2>2
<1>18. ASSUME NEW n \in 1 .. total + 1
       PROVE  /\ now[n].parent = ParentOf(new, total + 1, PlaceOf(new, n))
              /\ now[n].children = FirstOf(in(n))
              /\ now[n].next = FirstOf({ m \in in(now[n].parent) : m > n })
              /\ now[n].prev = LastOf({ m \in in(now[n].parent) : m < n })
    <2>1. CASE n \in 1 .. total
        <3>1. now[n].parent = up(n)
            BY <1>8, <2>1
        <3>2. QED
            BY <1>10, <1>13, <1>14, <1>15, <2>1, <3>1
    <2>2. CASE n = total + 1
        BY <1>10, <1>16, <2>2
    <2>3. QED
        BY <2>1, <2>2
<1>19. LastOf(in(p)) = total + 1
    <2>1. total + 1 \in in(p) /\ in(p) \in SUBSET Nat /\ \A n \in in(p) : n <= total + 1
        BY <1>1, <1>12
    <2>2. QED
        BY <2>1, LastOfIs
<1>20. QED
    BY <1>7, <1>17, <1>18, <1>19 DEF Tree, in, new

-----------------------------------------------------------------------------
(* The parser.                                                             *)

NodeFields == {"tag", "attributes", "parent", "prev", "children", "next", "text"}

IsNode(x) == x = [f \in NodeFields |-> x[f]]

ListOfNodes(list) ==
    /\ list \in Seq({ list[n] : n \in 1 .. Len(list) })
    /\ \A n \in 1 .. Len(list) : IsNode(list[n])

\* parent is what encloses the next markup, and prev the last element in it.
Cursor(doc, total, p, last) ==
    /\ p = ParentOf(doc, total, Len(doc) + 1)
    /\ last = LastOf(InOf(doc, total, p))

\* The inductive invariant: besides the tree itself, what the parser knows of it.
TreeInv ==
    /\ document \in Seq(Tokens)
    /\ ListOfNodes(nodes)
    /\ Len(nodes) = ElementsOf(document, Len(document))
    /\ Sound(document) =>
           /\ Tree(document, Len(nodes), nodes, root)
           /\ status = "parsing" => Cursor(document, Len(nodes), parent, prev)

LEMMA SoundBefore ==
    ASSUME NEW doc \in Seq(Tokens), NEW token \in Tokens, Sound(Append(doc, token))
    PROVE  /\ Sound(doc)
           /\ token.kind # "broken"
           /\ token.kind = "close" => DepthOf(doc, Len(doc)) > 0
<1> DEFINE new == Append(doc, token)
<1>1. /\ Len(new) = Len(doc) + 1 /\ Len(doc) \in Nat
      /\ \A i \in 1 .. Len(doc) : new[i] = doc[i]
      /\ new[Len(doc) + 1] = token
      /\ DepthOf(doc, Len(doc)) \in Int
      /\ token.kind = "close" => DepthOf(new, Len(doc) + 1) = DepthOf(doc, Len(doc)) - 1
    BY AppendIs
<1>2. \A i \in 0 .. Len(doc) : DepthOf(new, i) = DepthOf(doc, i)
    BY CountsKeep
<1>3. \A k \in 1 .. Len(new) : new[k].kind # "broken" /\ DepthOf(new, k) >= 0
    BY DEF Sound
<1> HIDE DEF new
<1>4. Len(doc) + 1 \in 1 .. Len(new) /\ \A i \in 1 .. Len(doc) : i \in 1 .. Len(new) /\ i \in 0 .. Len(doc)
    BY <1>1
<1>5. Sound(doc)
    BY <1>1, <1>2, <1>3, <1>4 DEF Sound
<1>6. token.kind # "broken" /\ (token.kind = "close" => DepthOf(doc, Len(doc)) > 0)
    <2>1. new[Len(doc) + 1].kind # "broken" /\ DepthOf(new, Len(doc) + 1) >= 0
        BY <1>3, <1>4
    <2>2. QED
        BY <1>1, <2>1
<1>7. QED
    BY <1>5, <1>6

LEMMA ListIs ==
    ASSUME NEW S, NEW list \in Seq(S)
    PROVE  list \in Seq({ list[n] : n \in 1 .. Len(list) })
<1>1. Len(list) \in Nat /\ list = [n \in 1 .. Len(list) |-> list[n]]
    BY LenProperties
<1>2. list \in [1 .. Len(list) -> { list[n] : n \in 1 .. Len(list) }]
    BY <1>1
<1>3. QED
    BY <1>1, <1>2, SeqDef

\* A text leaves the pointers of a node as they are.
LEMMA TextIs ==
    ASSUME NEW x, IsNode(x), NEW text, NEW y, y = [x EXCEPT !.text = text]
    PROVE  /\ IsNode(y)
           /\ y.children = x.children /\ y.next = x.next
           /\ y.parent = x.parent /\ y.prev = x.prev
           /\ y.attributes = x.attributes /\ y.text = text
    BY DEF IsNode, NodeFields

LEMMA InitTree == Init => TreeInv
<1> SUFFICES ASSUME Init PROVE TreeInv
    OBVIOUS
<1>1. document = <<>> /\ nodes = <<>> /\ root = NoNode /\ parent = NoNode /\ prev = NoNode
    BY DEF Init, XmlInit
<1>2. document \in Seq(Tokens) /\ nodes \in Seq({ nodes[n] : n \in 1 .. Len(nodes) }) /\ Len(nodes) = 0 /\ Len(document) = 0
    BY <1>1
<1>3. ListOfNodes(nodes)
    BY <1>2 DEF ListOfNodes
<1>4. ElementsOf(document, 0) = 0 /\ DepthOf(document, 0) = 0
    BY CountsAre
<1>5. \A p : InOf(document, 0, p) = {}
    BY DEF InOf
<1>6. Tree(document, 0, nodes, root)
    <2>1. 1 .. 0 = {}
        OBVIOUS
    <2>2. root = FirstOf(InOf(document, 0, NoNode))
        BY <1>1, <1>5 DEF FirstOf
    <2>3. QED
        BY <2>1, <2>2 DEF Tree
<1>7. Cursor(document, 0, parent, prev)
    <2>1. ParentOf(document, 0, 0 + 1) = NoNode
        BY <1>4 DEF ParentOf
    <2>2. LastOf({}) = NoNode
        BY DEF LastOf
    <2>3. QED
        BY <1>1, <1>2, <1>5, <2>1, <2>2 DEF Cursor
<1>8. QED
    BY <1>2, <1>3, <1>4, <1>6, <1>7 DEF TreeInv

LEMMA LengthIs ==
    ASSUME NEW S, NEW list \in Seq(S), NEW n \in Nat, DOMAIN list = 1 .. n
    PROVE  Len(list) = n
<1>1. Len(list) \in Nat /\ DOMAIN list = 1 .. Len(list)
    BY LenProperties
<1> DEFINE m == Len(list)
<1> HIDE DEF m
<1>2. m \in Nat /\ 1 .. m = 1 .. n
    BY <1>1 DEF m
<1>3. m <= n /\ n <= m
    <2>1. \A i \in Nat \ {0} : i \in 1 .. m <=> i \in 1 .. n
        BY <1>2
    <2>2. m # 0 => m \in 1 .. n
        BY <1>2, <2>1
    <2>3. n # 0 => n \in 1 .. m
        BY <1>2, <2>1
    <2>4. QED
        BY <1>2, <2>2, <2>3
<1>4. QED
    BY <1>2, <1>3 DEF m

LEMMA ReadIs ==
    ASSUME NEW kind \in Kinds, NEW tag \in Tags \cup {AnotherTag, ""},
           NEW list \in AttributeLists \cup {<<>>}, NEW text \in Texts \cup {<<>>},
           Read(kind, tag, list, text)
    PROVE  /\ status = "parsing"
           /\ \E token \in Tokens : token.kind = kind /\ document' = Append(document, token)
<1> DEFINE token == [kind |-> kind, tag |-> tag, list |-> list, text |-> text]
<1>1. status = "parsing" /\ document' = Append(document, token)
    BY DEF Read
<1>2. token \in Tokens /\ token.kind = kind
    BY DEF Tokens, Kinds
<1>3. QED
    BY <1>1, <1>2

\* What AddNode does to the pointers.
LEMMA AddNodeIs ==
    ASSUME ListOfNodes(nodes), NEW total \in Nat, Len(nodes) = total,
           NEW tag, NEW list, AddNode(tag, list)
    PROVE  /\ ListOfNodes(nodes') /\ Len(nodes') = total + 1
           /\ \A n \in 1 .. total :
                 /\ nodes'[n].parent = nodes[n].parent
                 /\ nodes'[n].prev = nodes[n].prev
                 /\ nodes'[n].children = IF n = parent /\ nodes[n].children = NoNode THEN total + 1 ELSE nodes[n].children
                 /\ nodes'[n].next = IF n = prev THEN total + 1 ELSE nodes[n].next
                 /\ nodes'[n].attributes = nodes[n].attributes /\ nodes'[n].text = nodes[n].text
           /\ nodes'[total + 1].parent = parent /\ nodes'[total + 1].prev = prev
           /\ nodes'[total + 1].children = NoNode /\ nodes'[total + 1].next = NoNode
           /\ nodes'[total + 1].attributes = FinishStream(ReadAttributes(list).stream)
           /\ nodes'[total + 1].text = EmptySlice
           /\ root' = IF parent = NoNode /\ prev = NoNode THEN total + 1 ELSE root
<1> DEFINE read == ReadAttributes(list)
           node == [ tag |-> tag, attributes |-> FinishStream(read.stream),
                     parent |-> parent, prev |-> prev,
                     children |-> NoNode, next |-> NoNode, text |-> EmptySlice ]
           one(i) == [ nodes[i] EXCEPT !.children = IF i = parent THEN FirstChild(nodes[i], total + 1) ELSE @,
                                       !.next     = IF i = prev THEN total + 1 ELSE @ ]
           link == [ i \in 1 .. total |-> one(i) ]
<1>1. nodes' = Append(link, node) /\ root' = IF parent = NoNode /\ prev = NoNode THEN total + 1 ELSE root
    <2>1. (total + 1) - 1 = total
        OBVIOUS
    <2>2. QED
        BY <2>1 DEF AddNode
<1>2. ASSUME NEW i \in 1 .. total
      PROVE  /\ IsNode(one(i))
             /\ one(i).parent = nodes[i].parent /\ one(i).prev = nodes[i].prev
             /\ one(i).children = IF i = parent /\ nodes[i].children = NoNode THEN total + 1 ELSE nodes[i].children
             /\ one(i).next = IF i = prev THEN total + 1 ELSE nodes[i].next
             /\ one(i).attributes = nodes[i].attributes /\ one(i).text = nodes[i].text
    <2> DEFINE x == nodes[i]
               child == IF i = parent THEN FirstChild(x, total + 1) ELSE x.children
               sibling == IF i = prev THEN total + 1 ELSE x.next
               y == one(i)
    <2>1. IsNode(x)
        BY DEF ListOfNodes
    <2>2. y = [x EXCEPT !.children = child, !.next = sibling]
        OBVIOUS
    <2>3. child = IF i = parent /\ x.children = NoNode THEN total + 1 ELSE x.children
        BY DEF FirstChild
    <2> HIDE DEF x, child, sibling, y
    <2>4. /\ IsNode(y) /\ y.children = child /\ y.next = sibling
          /\ y.parent = x.parent /\ y.prev = x.prev
          /\ y.attributes = x.attributes /\ y.text = x.text
        BY ONLY <2>1, <2>2 DEF IsNode, NodeFields
    <2> HIDE DEF one
    <2>5. QED
        BY <2>3, <2>4 DEF x, sibling, y
<1>3. /\ IsNode(node) /\ node.parent = parent /\ node.prev = prev
      /\ node.children = NoNode /\ node.next = NoNode
      /\ node.attributes = FinishStream(read.stream) /\ node.text = EmptySlice
    BY DEF IsNode, NodeFields
<1> HIDE DEF one, node
<1> DEFINE S == { one(i) : i \in 1 .. total } \cup {node}
<1>4. link \in Seq(S) /\ Len(link) = total /\ node \in S
    <2>1. link \in [1 .. total -> S]
        OBVIOUS
    <2> HIDE DEF S
    <2>2. link \in Seq(S)
        BY <2>1, SeqDef
    <2>3. DOMAIN link = 1 .. total
        OBVIOUS
    <2>4. Len(link) = total
        <3> HIDE DEF link
        <3>1. QED
            BY <2>2, <2>3, LengthIs
    <2>5. QED
        BY <2>2, <2>4 DEF S
<1>5. \A i \in 1 .. total : link[i] = one(i)
    OBVIOUS
<1> HIDE DEF link, S
<1>6. /\ nodes' \in Seq(S) /\ Len(nodes') = total + 1 /\ nodes'[total + 1] = node
      /\ \A i \in 1 .. total : nodes'[i] = one(i)
    BY <1>1, <1>4, <1>5, AppendProperties
<1>7. ListOfNodes(nodes')
    <2>1. nodes' \in Seq({ nodes'[n] : n \in 1 .. Len(nodes') })
        BY <1>6, ListIs
    <2>2. ASSUME NEW n \in 1 .. Len(nodes') PROVE IsNode(nodes'[n])
        <3>1. n \in 1 .. total \/ n = total + 1
            BY <1>6
        <3>2. QED
            BY <1>2, <1>3, <1>6, <3>1
    <2>3. QED
        BY <2>1, <2>2 DEF ListOfNodes
<1> HIDE DEF read
<1>8. QED
    BY <1>1, <1>2, <1>3, <1>6, <1>7 DEF read

LEMMA ReadTextIs ==
    ASSUME ListOfNodes(nodes), NEW total \in Nat, Len(nodes) = total,
           NEW text, ReadText(text)
    PROVE  /\ ListOfNodes(nodes') /\ Len(nodes') = total
           /\ \A n \in 1 .. total :
                 /\ nodes'[n].parent = nodes[n].parent
                 /\ nodes'[n].prev = nodes[n].prev
                 /\ nodes'[n].children = nodes[n].children
                 /\ nodes'[n].next = nodes[n].next
                 /\ nodes'[n].attributes = nodes[n].attributes
                 /\ nodes'[n].text = IF n = parent THEN FinishStream(TextUntil(texts, text)) ELSE nodes[n].text
<1> DEFINE slice == FinishStream(TextUntil(texts, text))
           one(i) == [ nodes[i] EXCEPT !.text = IF i = parent THEN slice ELSE @ ]
           S == { one(i) : i \in 1 .. total }
<1>1. nodes' = [ i \in 1 .. total |-> one(i) ]
    BY DEF ReadText
<1>2. ASSUME NEW i \in 1 .. total
      PROVE  /\ IsNode(one(i))
             /\ one(i).parent = nodes[i].parent /\ one(i).prev = nodes[i].prev
             /\ one(i).children = nodes[i].children /\ one(i).next = nodes[i].next
             /\ one(i).attributes = nodes[i].attributes
             /\ one(i).text = IF i = parent THEN slice ELSE nodes[i].text
    <2> DEFINE x == nodes[i]
               new == IF i = parent THEN slice ELSE x.text
               y == one(i)
    <2>1. IsNode(x)
        BY DEF ListOfNodes
    <2>2. y = [x EXCEPT !.text = new]
        OBVIOUS
    <2> HIDE DEF x, new, y
    <2>3. /\ IsNode(y) /\ y.children = x.children /\ y.next = x.next
          /\ y.parent = x.parent /\ y.prev = x.prev
          /\ y.attributes = x.attributes /\ y.text = new
        BY <2>1, <2>2, TextIs
    <2> HIDE DEF one
    <2>4. QED
        BY <2>3 DEF x, y, new
<1> HIDE DEF one
<1>3. nodes' \in [1 .. total -> S] /\ DOMAIN nodes' = 1 .. total
    BY <1>1
<1>4. \A i \in 1 .. total : nodes'[i] = one(i)
    BY <1>1
<1> HIDE DEF S
<1>5. nodes' \in Seq(S)
    BY <1>3, SeqDef
<1>6. Len(nodes') = total
    BY <1>3, <1>5, LengthIs
<1>7. ListOfNodes(nodes')
    <2>1. nodes' \in Seq({ nodes'[n] : n \in 1 .. Len(nodes') })
        BY <1>5, ListIs
    <2>2. QED
        BY <1>2, <1>4, <1>6, <2>1 DEF ListOfNodes
<1>8. QED
    BY <1>2, <1>4, <1>6, <1>7

\* A node that is added to the tree, whatever its tag is followed by.
LEMMA AddNodeTree ==
    ASSUME TreeInv, status = "parsing",
           NEW token \in Tokens, IsElement(token), document' = Append(document, token),
           NEW tag, NEW list, AddNode(tag, list)
    PROVE  /\ document' \in Seq(Tokens) /\ ListOfNodes(nodes')
           /\ Len(nodes') = ElementsOf(document', Len(document'))
           /\ Len(nodes') = Len(nodes) + 1 /\ Len(nodes) \in Nat
           /\ Sound(document') =>
                  /\ Sound(document)
                  /\ Cursor(document, Len(nodes), parent, prev)
                  /\ Tree(document', Len(nodes'), nodes', root')
                  /\ InOf(document', Len(nodes'), Len(nodes')) = {}
                  /\ LastOf(InOf(document', Len(nodes'), parent)) = Len(nodes')
<1> DEFINE total == Len(nodes)
<1>1. /\ document \in Seq(Tokens) /\ ListOfNodes(nodes)
      /\ total = ElementsOf(document, Len(document))
      /\ Sound(document) => /\ Tree(document, total, nodes, root)
                            /\ Cursor(document, total, parent, prev)
    BY DEF TreeInv
<1>2. /\ document' \in Seq(Tokens) /\ Len(document') = Len(document) + 1
      /\ ElementsOf(document', Len(document) + 1) = total + 1 /\ total \in Nat
    BY <1>1, AppendIs
<1> HIDE DEF total
<1>3. /\ ListOfNodes(nodes') /\ Len(nodes') = total + 1
      /\ \A n \in 1 .. total :
            /\ nodes'[n].parent = nodes[n].parent
            /\ nodes'[n].prev = nodes[n].prev
            /\ nodes'[n].children = IF n = parent /\ nodes[n].children = NoNode THEN total + 1 ELSE nodes[n].children
            /\ nodes'[n].next = IF n = prev THEN total + 1 ELSE nodes[n].next
      /\ nodes'[total + 1].parent = parent /\ nodes'[total + 1].prev = prev
      /\ nodes'[total + 1].children = NoNode /\ nodes'[total + 1].next = NoNode
      /\ root' = IF parent = NoNode /\ prev = NoNode THEN total + 1 ELSE root
    BY <1>1, <1>2, AddNodeIs DEF total
<1>4. ASSUME Sound(document')
      PROVE  /\ Sound(document)
             /\ Cursor(document, total, parent, prev)
             /\ Tree(document', total + 1, nodes', root')
             /\ InOf(document', total + 1, total + 1) = {}
             /\ LastOf(InOf(document', total + 1, parent)) = total + 1
    <2>1. Sound(document)
        BY <1>1, <1>4, SoundBefore
    <2>2. /\ Tree(document, total, nodes, root)
          /\ parent = ParentOf(document, total, Len(document) + 1)
          /\ prev = LastOf(InOf(document, total, parent))
        BY <1>1, <2>1 DEF Cursor
    <2>3. /\ Tree(Append(document, token), total + 1, nodes', IF parent = NoNode /\ prev = NoNode THEN total + 1 ELSE root)
          /\ InOf(Append(document, token), total + 1, total + 1) = {}
          /\ LastOf(InOf(Append(document, token), total + 1, parent)) = total + 1
        BY <1>1, <1>2, <1>3, <2>1, <2>2, AddedIs
    <2>4. QED
        BY <1>1, <1>3, <2>1, <2>3
<1>5. QED
    BY <1>2, <1>3, <1>4 DEF total

\* An opening tag: the new element is open, and nothing is in it yet.
LEMMA OpenTagTree ==
    ASSUME TreeInv, NEW tag \in Tags, NEW list \in AttributeLists, OpenTag(tag, list)
    PROVE  TreeInv'
<1>1. PICK token \in Tokens : token.kind = "open" /\ document' = Append(document, token) /\ status = "parsing"
    BY ReadIs DEF OpenTag, Kinds
<1>2. AddNode(tag, list) /\ prev' = NoNode /\ parent' = Len(nodes')
    BY DEF OpenTag
<1>3. /\ document' \in Seq(Tokens) /\ ListOfNodes(nodes')
      /\ Len(nodes') = ElementsOf(document', Len(document'))
      /\ Len(nodes') \in Nat
      /\ Sound(document') => /\ Sound(document)
                             /\ Tree(document', Len(nodes'), nodes', root')
                             /\ InOf(document', Len(nodes'), Len(nodes')) = {}
    BY <1>1, <1>2, AddNodeTree DEF IsElement
<1>4. ASSUME Sound(document') PROVE Cursor(document', Len(nodes'), parent', prev')
    <2>1. document \in Seq(Tokens) /\ Len(document') = Len(document) + 1 /\ Len(document) \in Nat
        BY <1>1, AppendIs DEF TreeInv
    <2>2. Len(nodes') = ElementsOf(Append(document, token), Len(document) + 1)
        BY <1>1, <1>3, <2>1
    <2>3. ParentOf(document', Len(nodes'), Len(document) + 2) = Len(nodes')
        BY <1>1, <1>3, <1>4, <2>1, <2>2, OpeningIs
    <2>4. LastOf({}) = NoNode
        BY DEF LastOf
    <2>5. Len(document') + 1 = Len(document) + 2
        BY <2>1
    <2>6. QED
        BY <1>2, <1>3, <1>4, <2>3, <2>4, <2>5 DEF Cursor
<1>5. QED
    BY <1>3, <1>4 DEF TreeInv

\* An element without content: what is around it stays open.
LEMMA EmptyTagTree ==
    ASSUME TreeInv, NEW tag \in Tags, NEW list \in AttributeLists, EmptyTag(tag, list)
    PROVE  TreeInv'
<1>1. PICK token \in Tokens : token.kind = "empty" /\ document' = Append(document, token) /\ status = "parsing"
    BY ReadIs DEF EmptyTag, Kinds
<1>2. AddNode(tag, list) /\ prev' = Len(nodes') /\ parent' = parent
    BY DEF EmptyTag
<1>3. /\ document' \in Seq(Tokens) /\ ListOfNodes(nodes')
      /\ Len(nodes') = ElementsOf(document', Len(document'))
      /\ Len(nodes') \in Nat /\ Len(nodes) \in Nat
      /\ Sound(document') => /\ Sound(document)
                             /\ Cursor(document, Len(nodes), parent, prev)
                             /\ Tree(document', Len(nodes'), nodes', root')
                             /\ LastOf(InOf(document', Len(nodes'), parent)) = Len(nodes')
    BY <1>1, <1>2, AddNodeTree DEF IsElement
<1>4. ASSUME Sound(document') PROVE Cursor(document', Len(nodes'), parent', prev')
    <2>1. /\ document \in Seq(Tokens) /\ Len(document') = Len(document) + 1 /\ Len(document) \in Nat
          /\ Len(nodes) = ElementsOf(document, Len(document))
        BY <1>1, AppendIs DEF TreeInv
    <2>2. Len(nodes') = ElementsOf(Append(document, token), Len(document) + 1)
        BY <1>1, <1>3, <2>1
    <2>3. ParentOf(document', Len(nodes'), Len(document) + 2) = ParentOf(document, Len(nodes), Len(document) + 1)
        BY <1>1, <1>3, <1>4, <2>1, <2>2, StayingIs
    <2>4. parent = ParentOf(document, Len(nodes), Len(document) + 1)
        BY <1>3, <1>4 DEF Cursor
    <2>5. Len(document') + 1 = Len(document) + 2
        BY <2>1
    <2>6. QED
        BY <1>2, <1>3, <1>4, <2>3, <2>4, <2>5 DEF Cursor
<1>5. QED
    BY <1>3, <1>4 DEF TreeInv

\* A tag that is not complete: nothing is claimed of the document any more.
LEMMA BrokenTagTree ==
    ASSUME TreeInv, NEW tag \in Tags, NEW list \in AttributeLists, BrokenTag(tag, list)
    PROVE  TreeInv'
<1>1. PICK token \in Tokens : token.kind = "broken" /\ document' = Append(document, token) /\ status = "parsing"
    BY ReadIs DEF BrokenTag, Kinds
<1>2. AddNode(tag, list)
    BY DEF BrokenTag
<1>3. /\ document' \in Seq(Tokens) /\ ListOfNodes(nodes')
      /\ Len(nodes') = ElementsOf(document', Len(document'))
    BY <1>1, <1>2, AddNodeTree DEF IsElement
<1>4. ~Sound(document')
    BY <1>1, SoundBefore DEF TreeInv
<1>5. QED
    BY <1>3, <1>4 DEF TreeInv

\* Markup that is no element leaves the tree as it is.
LEMMA SameNodesTree ==
    ASSUME TreeInv,
           NEW token \in Tokens, ~IsElement(token), document' = Append(document, token),
           Len(nodes') = Len(nodes), ListOfNodes(nodes'), root' = root,
           \A n \in 1 .. Len(nodes) :
               /\ nodes'[n].parent = nodes[n].parent
               /\ nodes'[n].prev = nodes[n].prev
               /\ nodes'[n].children = nodes[n].children
               /\ nodes'[n].next = nodes[n].next
    PROVE  /\ document' \in Seq(Tokens) /\ ListOfNodes(nodes')
           /\ Len(nodes') = ElementsOf(document', Len(document'))
           /\ Len(nodes) \in Nat /\ Len(document) \in Nat /\ Len(document') = Len(document) + 1
           /\ Sound(document') =>
                  /\ Sound(document)
                  /\ Tree(document', Len(nodes'), nodes', root')
                  /\ \A p : InOf(document', Len(nodes'), p) = InOf(document, Len(nodes), p)
<1> DEFINE total == Len(nodes)
<1>1. /\ document \in Seq(Tokens)
      /\ total = ElementsOf(document, Len(document))
      /\ Sound(document) => Tree(document, total, nodes, root)
    BY DEF TreeInv
<1>2. /\ document' \in Seq(Tokens) /\ Len(document') = Len(document) + 1 /\ Len(document) \in Nat
      /\ ElementsOf(document', Len(document) + 1) = total /\ total \in Nat
    BY <1>1, AppendIs
<1>3. ASSUME Sound(document')
      PROVE  /\ Sound(document)
             /\ Tree(document', total, nodes', root')
             /\ \A p : InOf(document', total, p) = InOf(document, total, p)
    <2>1. Sound(document)
        BY <1>1, <1>3, SoundBefore
    <2>2. Tree(document, total, nodes, root)
        BY <1>1, <2>1
    <2>3. Tree(document, total, nodes', root')
        BY <2>2 DEF Tree
    <2> HIDE DEF total
    <2>4. \A p : /\ InOf(Append(document, token), total, p) = InOf(document, total, p)
                 /\ Tree(Append(document, token), total, nodes', root')
        BY <1>1, <1>2, <2>3, SameTree
    <2>5. QED
        BY <2>1, <2>4
<1>4. QED
    BY <1>2, <1>3

\* A closing tag: the element it closes is the last in what is open then.
LEMMA CloseTagTree ==
    ASSUME TreeInv, NEW tag \in Tags \cup {AnotherTag}, CloseTag(tag)
    PROVE  TreeInv'
<1>1. PICK token \in Tokens : token.kind = "close" /\ document' = Append(document, token) /\ status = "parsing"
    BY ReadIs DEF CloseTag, Kinds
<1>2. nodes' = nodes /\ root' = root
    BY DEF CloseTag
<1>3. /\ document' \in Seq(Tokens) /\ ListOfNodes(nodes')
      /\ Len(nodes') = ElementsOf(document', Len(document'))
      /\ Len(nodes) \in Nat /\ Len(document) \in Nat /\ Len(document') = Len(document) + 1
      /\ Sound(document') =>
             /\ Sound(document)
             /\ Tree(document', Len(nodes'), nodes', root')
             /\ \A p : InOf(document', Len(nodes'), p) = InOf(document, Len(nodes), p)
    <2>1. ~IsElement(token) /\ ListOfNodes(nodes')
        BY <1>1, <1>2 DEF IsElement, TreeInv
    <2>2. QED
        BY <1>1, <1>2, <2>1, SameNodesTree
<1>4. ASSUME Sound(document'), status' = "parsing"
      PROVE  Cursor(document', Len(nodes'), parent', prev')
    <2>1. parent # NoNode /\ prev' = parent /\ parent' = nodes[parent].parent
        BY <1>4 DEF CloseTag, AfterClosing
    <2> DEFINE total == Len(nodes)
    <2>2. /\ Sound(document) /\ document \in Seq(Tokens) /\ total \in Nat
          /\ total = ElementsOf(document, Len(document))
          /\ parent = ParentOf(document, total, Len(document) + 1)
          /\ Tree(document, total, nodes, root)
        BY <1>1, <1>3, <1>4 DEF TreeInv, Cursor
    <2> HIDE DEF total
    <2>3. /\ parent \in 1 .. total
          /\ ParentOf(Append(document, token), total, Len(document) + 2) = ParentOf(document, total, PlaceOf(document, parent))
          /\ \A n \in 1 .. total :
                ParentOf(document, total, PlaceOf(document, n)) = ParentOf(document, total, PlaceOf(document, parent)) => n <= parent
        BY <1>1, <2>1, <2>2, ClosingIs
    <2>4. parent' = ParentOf(document, total, PlaceOf(document, parent))
        BY <2>1, <2>2, <2>3 DEF Tree
    <2>5. LastOf(InOf(document, total, parent')) = parent
        <3>1. /\ parent \in InOf(document, total, parent')
              /\ InOf(document, total, parent') \in SUBSET Nat
              /\ \A n \in InOf(document, total, parent') : n <= parent
            BY <2>3, <2>4 DEF InOf
        <3>2. QED
            BY <3>1, LastOfIs
    <2>6. Len(document') + 1 = Len(document) + 2 /\ Len(nodes') = total
        BY <1>2, <1>3 DEF total
    <2>7. parent' = ParentOf(document', total, Len(document') + 1)
        BY <1>1, <2>3, <2>4, <2>6
    <2>8. prev' = LastOf(InOf(document', total, parent'))
        BY <1>3, <1>4, <2>1, <2>5, <2>6 DEF total
    <2>9. QED
        BY <2>6, <2>7, <2>8 DEF Cursor
<1>5. QED
    BY <1>3, <1>4 DEF TreeInv

\* Text changes no pointer.
LEMMA ReadTextTree ==
    ASSUME TreeInv, NEW text \in Texts, ReadText(text)
    PROVE  TreeInv'
<1>1. PICK token \in Tokens : token.kind = "text" /\ document' = Append(document, token) /\ status = "parsing"
    BY ReadIs DEF ReadText, Kinds
<1>2. root' = root /\ parent' = parent /\ prev' = prev
    BY DEF ReadText
<1>3. Len(nodes) \in Nat /\ ListOfNodes(nodes)
    BY CountsAre, LenProperties DEF TreeInv
<1>4. /\ ListOfNodes(nodes') /\ Len(nodes') = Len(nodes)
      /\ \A n \in 1 .. Len(nodes) :
            /\ nodes'[n].parent = nodes[n].parent
            /\ nodes'[n].prev = nodes[n].prev
            /\ nodes'[n].children = nodes[n].children
            /\ nodes'[n].next = nodes[n].next
    BY <1>3, ReadTextIs
<1>5. /\ document' \in Seq(Tokens) /\ ListOfNodes(nodes')
      /\ Len(nodes') = ElementsOf(document', Len(document'))
      /\ Len(document) \in Nat /\ Len(document') = Len(document) + 1
      /\ Sound(document') =>
             /\ Sound(document)
             /\ Tree(document', Len(nodes'), nodes', root')
             /\ \A p : InOf(document', Len(nodes'), p) = InOf(document, Len(nodes), p)
    <2>1. ~IsElement(token)
        BY <1>1 DEF IsElement
    <2>2. QED
        BY <1>1, <1>2, <1>4, <2>1, SameNodesTree
<1>6. ASSUME Sound(document') PROVE Cursor(document', Len(nodes'), parent', prev')
    <2>1. /\ Sound(document) /\ document \in Seq(Tokens)
          /\ Len(nodes) = ElementsOf(document, Len(document))
          /\ parent = ParentOf(document, Len(nodes), Len(document) + 1)
          /\ prev = LastOf(InOf(document, Len(nodes), parent))
        BY <1>1, <1>5, <1>6 DEF TreeInv, Cursor
    <2>2. Len(nodes) = ElementsOf(Append(document, token), Len(document) + 1)
        BY <1>1, <1>4, <1>5
    <2>3. ParentOf(document', Len(nodes), Len(document) + 2) = ParentOf(document, Len(nodes), Len(document) + 1)
        BY <1>1, <1>3, <2>1, <2>2, StayingIs
    <2>4. Len(document') + 1 = Len(document) + 2
        BY <1>5
    <2>5. QED
        BY <1>2, <1>4, <1>5, <1>6, <2>1, <2>3, <2>4 DEF Cursor
<1>7. QED
    BY <1>5, <1>6 DEF TreeInv

\* Every step of the parser.
LEMMA StepTree == TreeInv /\ [Next]_vars => TreeInv'
<1> SUFFICES ASSUME TreeInv, [Next]_vars PROVE TreeInv'
    OBVIOUS
<1>1. CASE XmlNext
    <2>1. ASSUME NEW tag \in Tags, NEW list \in AttributeLists,
                 OpenTag(tag, list) \/ EmptyTag(tag, list) \/ BrokenTag(tag, list)
          PROVE  TreeInv'
        BY <2>1, OpenTagTree, EmptyTagTree, BrokenTagTree
    <2>2. ASSUME NEW tag \in Tags \cup {AnotherTag}, CloseTag(tag) PROVE TreeInv'
        BY <2>2, CloseTagTree
    <2>3. ASSUME NEW text \in Texts, ReadText(text) PROVE TreeInv'
        BY <2>3, ReadTextTree
    <2>4. ASSUME Refuse \/ EndOfData PROVE TreeInv'
        <3>1. document' = document /\ nodes' = nodes /\ root' = root /\ status' # "parsing"
            BY <2>4 DEF Refuse, EndOfData, tree
        <3>2. QED
            BY <3>1 DEF TreeInv
    <2>5. QED
        BY <1>1, <2>1, <2>2, <2>3, <2>4 DEF XmlNext
<1>2. CASE UNCHANGED xmlVars
    <2>1. /\ document' = document /\ nodes' = nodes /\ root' = root
          /\ status' = status /\ parent' = parent /\ prev' = prev
        BY <1>2 DEF xmlVars, tree
    <2>2. QED
        BY <2>1 DEF TreeInv
<1>3. XmlNext \/ UNCHANGED xmlVars
    <2>1. CASE Next
        BY <2>1 DEF Next, TestCrc32, TestIdentity, WriteGzip, TestGzip, InflateGzip, TestUtf8Encode, TestUtf8Decode,
                    UnknownTest, ParseXml, TestXml, LoadFaces, Plain
    <2>2. CASE UNCHANGED vars
        BY <2>2 DEF vars
    <2>3. QED
        BY <2>1, <2>2
<1>4. QED
    BY <1>1, <1>2, <1>3

\* The nodes' pointers make the tree the markup describes (src/xml.cpp:259-281),
\* for every document, however its tags are nested.
THEOREM TreeIsDocumentAlways == Spec => []TreeIsDocument
<1>1. TreeInv => TreeIsDocument
    <2> SUFFICES ASSUME TreeInv, WellFormed PROVE TreeIsDocument
        BY DEF TreeIsDocument
    <2>1. Sound(document)
        BY DEF WellFormed, Sound, Depth, DepthOf, Count, CountOf
    <2>2. Tree(document, Len(nodes), nodes, root)
        BY <2>1 DEF TreeInv
    <2>3. \A n : ElementAt(n) = PlaceOf(document, n)
        BY DEF ElementAt, PlaceOf, ElementsOf, Count, CountOf
    <2>4. \A k : Depth(k) = DepthOf(document, k)
        BY DEF Depth, DepthOf, Count, CountOf
    <2>5. \A k : Enclosing(k) = ParentOf(document, Len(nodes), k)
        BY <2>3, <2>4 DEF Enclosing, ParentOf
    <2>6. \A p : ElementsIn(p) = InOf(document, Len(nodes), p)
        BY <2>3, <2>5 DEF ElementsIn, InOf
    <2>7. QED
        BY <2>2, <2>3, <2>5, <2>6 DEF Tree, TreeIsDocument
<1>2. QED
    BY <1>1, InitTree, StepTree, PTL DEF Spec

-----------------------------------------------------------------------------
(* UTF-8.                                                                  *)

\* Sequences that are put one after another.
Joins(f, s) ==
    /\ f[0] = <<>>
    /\ \A i \in 1 .. Len(s) : f[i] = f[i - 1] \o s[i]

LEMMA EmptyJoins ==
    ASSUME NEW S, NEW s \in Seq(S)
    PROVE  <<>> \o s = s /\ s \o <<>> = s
    OBVIOUS

LEMMA FlattenIs ==
    ASSUME NEW S, NEW s \in Seq(Seq(S))
    PROVE  \E f \in [0 .. Len(s) -> Seq(S)] : Joins(f, s) /\ FlattenSeq(s) = f[Len(s)]
<1> DEFINE n == Len(s)
           step == [p \in Nat \X Seq(S) |-> IF p[1] + 1 \in 1 .. n THEN p[2] \o s[p[1] + 1] ELSE p[2]]
<1>1. n \in Nat /\ \A i \in 1 .. n : s[i] \in Seq(S)
    BY LenProperties, ElementOfSeq
<1>2. step \in [Nat \X Seq(S) -> Seq(S)]
    <2> SUFFICES ASSUME NEW p \in Nat \X Seq(S)
                 PROVE  (IF p[1] + 1 \in 1 .. n THEN p[2] \o s[p[1] + 1] ELSE p[2]) \in Seq(S)
        OBVIOUS
    <2>1. p[2] \in Seq(S)
        OBVIOUS
    <2>2. ASSUME p[1] + 1 \in 1 .. n PROVE p[2] \o s[p[1] + 1] \in Seq(S)
        BY <1>1, <2>1, <2>2, ConcatProperties
    <2>3. QED
        BY <2>1, <2>2
<1>3. <<>> \in Seq(S)
    OBVIOUS
<1> HIDE DEF n
<1>4. PICK g : Unfolds(g, Seq(S), <<>>, step, n)
    <2> HIDE DEF step
    <2>1. QED
        BY <1>1, <1>2, <1>3, RecursionExists, Zenon
<1>5. g \in [0 .. n -> Seq(S)] /\ g[0] = <<>>
    BY <1>4 DEF Unfolds
<1>6. ASSUME NEW i \in 1 .. n PROVE g[i] = g[i - 1] \o s[i]
    <2>1. i - 1 \in 0 .. n - 1 /\ (i - 1) + 1 = i /\ i - 1 \in Nat /\ i - 1 \in 0 .. n
        BY <1>1
    <2>2. g[(i - 1) + 1] = step[<<i - 1, g[i - 1]>>]
        BY <1>4, <2>1 DEF Unfolds
    <2>3. g[i - 1] \in Seq(S)
        BY <1>5, <2>1
    <2>4. <<i - 1, g[i - 1]>> \in Nat \X Seq(S)
        BY <2>1, <2>3
    <2>5. step[<<i - 1, g[i - 1]>>] = g[i - 1] \o s[i]
        BY <2>1, <2>4
    <2>6. QED
        BY <2>1, <2>2, <2>5
<1> HIDE DEF step
<1>7. Joins(g, s)
    BY <1>5, <1>6 DEF Joins, n
<1>8. FlattenSeq(s) = g[n]
    <2>1. CASE n = 0
        <3>1. s = <<>>
            BY <2>1 DEF n
        <3>2. FlattenSeq(s) = s
            BY <2>1 DEF FlattenSeq, n
        <3>3. QED
            BY <1>5, <2>1, <3>1, <3>2
    <2>2. CASE n # 0
        <3> DEFINE Flat(h) == h = [i \in 1 .. n |-> IF i = 1 THEN s[i] ELSE h[i - 1] \o s[i]]
                   h0 == [i \in 1 .. n |-> g[i]]
                   flatten == CHOOSE h : Flat(h)
        <3>1. FlattenSeq(s) = flatten[n]
            BY <2>2 DEF FlattenSeq, n
        <3>2. Flat(h0)
            <4>1. ASSUME NEW i \in 1 .. n
                  PROVE  g[i] = IF i = 1 THEN s[i] ELSE h0[i - 1] \o s[i]
                <5>1. CASE i = 1
                    <6>1. g[1] = g[0] \o s[1]
                        <7>1. 1 \in 1 .. n /\ 1 - 1 = 0
                            BY <5>1
                        <7>2. g[1] = g[1 - 1] \o s[1]
                            BY <1>6, <7>1
                        <7>3. QED
                            BY <7>1, <7>2
                    <6>2. s[1] \in Seq(S)
                        BY <1>1, <5>1
                    <6>3. <<>> \o s[1] = s[1]
                        BY <6>2, EmptyJoins
                    <6>4. QED
                        BY <1>5, <5>1, <6>1, <6>3
                <5>2. CASE i # 1
                    <6>1. i - 1 \in 1 .. n
                        BY <1>1, <5>2
                    <6>2. h0[i - 1] = g[i - 1]
                        BY <6>1
                    <6>3. QED
                        BY <1>6, <5>2, <6>2
                <5>3. QED
                    BY <5>1, <5>2
            <4>2. QED
                BY <4>1
        <3>3. Flat(flatten)
            <4> HIDE DEF Flat, h0
            <4>1. QED
                BY <3>2
        <3> HIDE DEF flatten, h0
        <3>4. \A i \in 1 .. n : flatten[i] = IF i = 1 THEN s[i] ELSE flatten[i - 1] \o s[i]
            BY <3>3
        <3> HIDE DEF Flat
        <3> DEFINE T == { i \in Nat : i + 1 <= n => flatten[i + 1] = g[i + 1] }
        <3>5. 0 \in T
            <4>1. 1 \in 1 .. n /\ 1 - 1 = 0
                BY <1>1, <2>2
            <4>2. g[1] = g[0] \o s[1] /\ s[1] \in Seq(S) /\ flatten[1] = s[1]
                <5>1. g[1] = g[1 - 1] \o s[1] /\ s[1] \in Seq(S) /\ flatten[1] = s[1]
                    BY <1>1, <1>6, <3>4, <4>1
                <5>2. QED
                    BY <4>1, <5>1
            <4>3. <<>> \o s[1] = s[1]
                BY <4>2, EmptyJoins
            <4>4. QED
                BY <1>5, <4>2, <4>3
        <3>6. ASSUME NEW i \in T PROVE i + 1 \in T
            <4> SUFFICES ASSUME (i + 1) + 1 <= n PROVE flatten[(i + 1) + 1] = g[(i + 1) + 1]
                OBVIOUS
            <4> DEFINE j == (i + 1) + 1
            <4>1. j \in 1 .. n /\ j # 1 /\ j - 1 = i + 1 /\ i + 1 <= n
                BY <1>1
            <4>2. flatten[j - 1] = g[j - 1]
                BY <4>1
            <4> HIDE DEF j
            <4>3. flatten[j] = flatten[j - 1] \o s[j] /\ g[j] = g[j - 1] \o s[j]
                BY <1>6, <3>4, <4>1
            <4>4. QED
                BY <4>2, <4>3 DEF j
        <3>7. T = Nat
            <4> HIDE DEF T
            <4>1. T \in SUBSET Nat
                BY DEF T
            <4>2. QED
                BY <3>5, <3>6, <4>1, SetInduction
        <3>8. n - 1 \in T /\ (n - 1) + 1 = n
            <4> HIDE DEF T
            <4>1. QED
                BY <1>1, <2>2, <3>7
        <3>9. QED
            BY <1>1, <3>1, <3>8
    <2>3. QED
        BY <2>1, <2>2
<1>9. QED
    BY <1>5, <1>7, <1>8 DEF n

PieceOf(f, s, i) ==
    /\ Len(f[i - 1]) \in Nat /\ Len(s[i]) \in Nat /\ Len(f[Len(s)]) \in Nat
    /\ Len(f[i]) = Len(f[i - 1]) + Len(s[i])
    /\ Len(f[i]) <= Len(f[Len(s)])
    /\ \A k \in 1 .. Len(s[i]) : f[Len(s)][Len(f[i - 1]) + k] = s[i][k]

\* Each piece is where the ones before it end, and stays there.
LEMMA PieceIs ==
    ASSUME NEW S, NEW s \in Seq(Seq(S)), NEW f \in [0 .. Len(s) -> Seq(S)], Joins(f, s),
           NEW i \in 1 .. Len(s)
    PROVE  PieceOf(f, s, i)
<1> DEFINE n == Len(s)
<1>1. n \in Nat /\ \A j \in 1 .. n : s[j] \in Seq(S)
    BY LenProperties, ElementOfSeq
<1>2. \A j \in 0 .. n : f[j] \in Seq(S) /\ Len(f[j]) \in Nat
    BY LenProperties
<1>3. ASSUME NEW j \in 1 .. n
      PROVE  /\ Len(s[j]) \in Nat /\ j - 1 \in 0 .. n /\ f[j] = f[j - 1] \o s[j]
             /\ Len(f[j]) = Len(f[j - 1]) + Len(s[j])
             /\ \A k \in 1 .. Len(f[j - 1]) : f[j][k] = f[j - 1][k]
             /\ \A k \in 1 .. Len(s[j]) : f[j][Len(f[j - 1]) + k] = s[j][k]
    <2>1. j - 1 \in 0 .. n /\ s[j] \in Seq(S) /\ f[j - 1] \in Seq(S)
        BY <1>1, <1>2
    <2>2. f[j] = f[j - 1] \o s[j]
        BY DEF Joins
    <2>3. Len(s[j]) \in Nat /\ Len(f[j - 1]) \in Nat
        BY <2>1, LenProperties
    <2> DEFINE a == f[j - 1]
               b == s[j]
    <2> HIDE DEF a, b
    <2>4. /\ Len(a \o b) = Len(a) + Len(b)
          /\ \A k \in 1 .. Len(a) + Len(b) : (a \o b)[k] = IF k <= Len(a) THEN a[k] ELSE b[k - Len(a)]
        BY <2>1, ConcatProperties DEF a, b
    <2>5. /\ \A k \in 1 .. Len(a) : (a \o b)[k] = a[k]
          /\ \A k \in 1 .. Len(b) : (a \o b)[Len(a) + k] = b[k]
        <3>1. Len(a) \in Nat /\ Len(b) \in Nat
            BY <2>3 DEF a, b
        <3>2. ASSUME NEW k \in 1 .. Len(a) PROVE (a \o b)[k] = a[k]
            BY <2>4, <3>1
        <3>3. ASSUME NEW k \in 1 .. Len(b) PROVE (a \o b)[Len(a) + k] = b[k]
            <4>1. Len(a) + k \in 1 .. Len(a) + Len(b) /\ ~(Len(a) + k <= Len(a)) /\ (Len(a) + k) - Len(a) = k
                BY <3>1
            <4>2. QED
                BY <2>4, <4>1
        <3>4. QED
            BY <3>2, <3>3
    <2>6. QED
        BY <2>1, <2>2, <2>3, <2>4, <2>5 DEF a, b
<1> DEFINE Starts(j) == /\ Len(f[i]) <= Len(f[j])
                        /\ \A k \in 1 .. Len(f[i]) : f[j][k] = f[i][k]
           T == { j \in Nat : i + j <= n => Starts(i + j) }
<1>4. 0 \in T
    <2>1. i + 0 = i /\ i \in 0 .. n
        BY <1>1
    <2>2. QED
        BY <1>2, <2>1
<1>5. ASSUME NEW j \in T PROVE j + 1 \in T
    <2> SUFFICES ASSUME i + (j + 1) <= n PROVE Starts(i + (j + 1))
        OBVIOUS
    <2> DEFINE m == i + (j + 1)
    <2>1. m \in 1 .. n /\ m - 1 = i + j /\ i + j <= n /\ i \in 0 .. n
        BY <1>1
    <2>2. Starts(m - 1)
        BY <2>1
    <2> HIDE DEF m
    <2>3. /\ Len(f[m]) = Len(f[m - 1]) + Len(s[m]) /\ Len(s[m]) \in Nat /\ m - 1 \in 0 .. n
          /\ \A k \in 1 .. Len(f[m - 1]) : f[m][k] = f[m - 1][k]
        BY <1>3, <2>1
    <2>4. Len(f[i]) \in Nat /\ Len(f[m - 1]) \in Nat
        BY <1>2, <2>1, <2>3
    <2>5. Starts(m)
        <3> DEFINE a == Len(f[i])
                   b == Len(f[m - 1])
        <3>1. a \in Nat /\ b \in Nat /\ a <= b
            BY <2>2, <2>4
        <3>2. \A k \in 1 .. a : k \in 1 .. b
            <4> HIDE DEF a, b
            <4>1. QED
                BY <3>1
        <3>3. \A k \in 1 .. a : f[m][k] = f[i][k]
            BY <2>2, <2>3, <3>2
        <3>4. a <= Len(f[m])
            <4> DEFINE c == Len(s[m])
            <4>1. Len(f[m]) = b + c /\ c \in Nat
                BY <2>3
            <4> HIDE DEF a, b, c
            <4>2. QED
                BY <3>1, <4>1
        <3>5. QED
            BY <3>3, <3>4
    <2>6. QED
        BY <2>5 DEF m
<1>6. T = Nat
    <2> HIDE DEF T
    <2>1. T \in SUBSET Nat
        BY DEF T
    <2>2. QED
        BY <1>4, <1>5, <2>1, SetInduction
<1>7. Starts(n)
    <2>1. n - i \in Nat /\ i + (n - i) = n
        BY <1>1
    <2>2. n - i \in T
        BY <1>6, <2>1
    <2>3. QED
        BY <1>1, <2>1, <2>2
<1>8. /\ Len(s[i]) \in Nat /\ i - 1 \in 0 .. n
      /\ Len(f[i]) = Len(f[i - 1]) + Len(s[i])
      /\ \A k \in 1 .. Len(s[i]) : f[i][Len(f[i - 1]) + k] = s[i][k]
    BY <1>3
<1>9. Len(f[i - 1]) \in Nat /\ Len(f[n]) \in Nat
    BY <1>1, <1>2, <1>8
<1>10. ASSUME NEW k \in 1 .. Len(s[i]) PROVE f[n][Len(f[i - 1]) + k] = s[i][k]
    <2>1. Len(f[i - 1]) + k \in 1 .. Len(f[i])
        <3> DEFINE a == Len(f[i - 1])
                   b == Len(s[i])
        <3>1. a \in Nat /\ b \in Nat /\ Len(f[i]) = a + b /\ k \in 1 .. b
            BY <1>8, <1>9
        <3> HIDE DEF a, b
        <3>2. a + k \in 1 .. a + b
            BY <3>1
        <3>3. QED
            BY <3>1, <3>2 DEF a
    <2>2. QED
        BY <1>7, <1>8, <2>1
<1>11. QED
    BY <1>7, <1>8, <1>9, <1>10 DEF PieceOf

\* What the decoder says of a byte, from what it says of those behind it.
DecodeStep(bytes, h, i) ==
    IF i > Len(bytes) THEN <<>>
    ELSE LET first == Decoded(SubSeq(bytes, i, Len(bytes)))
         IN  IF first.bytes = 0 THEN Refused
             ELSE LET rest == h[i + first.bytes]
                  IN  IF rest = Refused THEN Refused ELSE <<first.codepoint>> \o rest

LEMMA ExtraIs ==
    ASSUME NEW c \in Nat
    PROVE  CodeExtra(c).bytes \in 0 .. 5 /\ (CodeExtra(c).bytes # 0 => c \notin 128 .. 191)
<1>1. CASE c \in 192 .. 223
    BY <1>1 DEF CodeExtra
<1>2. CASE c \notin 192 .. 223 /\ c \in 224 .. 239
    BY <1>2 DEF CodeExtra
<1>3. CASE c \notin 192 .. 223 /\ c \notin 224 .. 239 /\ c \in 240 .. 247
    BY <1>3 DEF CodeExtra
<1>4. CASE c \notin 192 .. 223 /\ c \notin 224 .. 239 /\ c \notin 240 .. 247 /\ c \in 248 .. 251
    BY <1>4 DEF CodeExtra
<1>5. CASE c \notin 192 .. 223 /\ c \notin 224 .. 239 /\ c \notin 240 .. 247 /\ c \notin 248 .. 251 /\ c \in 252 .. 253
    BY <1>5 DEF CodeExtra
<1>6. CASE c \notin 192 .. 223 /\ c \notin 224 .. 239 /\ c \notin 240 .. 247 /\ c \notin 248 .. 251 /\ c \notin 252 .. 253
    BY <1>6 DEF CodeExtra
<1>7. QED
    BY <1>1, <1>2, <1>3, <1>4, <1>5, <1>6

\* How far a character reaches.
LEMMA DecodedIs ==
    ASSUME NEW x \in Seq(Nat)
    PROVE  /\ Decoded(x).bytes \in 0 .. Len(x)
           /\ Decoded(x).bytes # 0 =>
                 /\ x[1] \notin 128 .. 191
                 /\ \A k \in 2 .. Decoded(x).bytes : x[k] \in 128 .. 191
<1>1. Len(x) \in Nat
    BY LenProperties
<1>2. CASE x = <<>>
    BY <1>2 DEF Decoded, Invalid
<1>3. CASE x # <<>>
    <2>1. Len(x) >= 1 /\ x[1] \in Nat
        BY <1>1, <1>3, EmptySeq, ElementOfSeq
    <2>2. CASE x[1] < 128
        <3>1. Decoded(x).bytes = 1
            BY <1>3, <2>2 DEF Decoded
        <3>2. 1 \in 0 .. Len(x) /\ x[1] \notin 128 .. 191 /\ 2 .. 1 = {}
            <4> DEFINE c == x[1]
            <4>1. c \in Nat /\ c < 128
                BY <2>1, <2>2
            <4> HIDE DEF c
            <4>2. c \notin 128 .. 191
                BY <4>1
            <4>3. 1 \in 0 .. Len(x)
                BY <1>1, <2>1
            <4>4. 2 .. 1 = {}
                OBVIOUS
            <4>5. QED
                BY <4>2, <4>3, <4>4 DEF c
        <3>3. QED
            BY <3>1, <3>2
    <2>3. CASE ~(x[1] < 128)
        <3> DEFINE extra == CodeExtra(x[1])
                   bad == \/ extra.bytes = 0
                          \/ extra.bytes + 1 > Len(x)
                          \/ \E i \in 2 .. extra.bytes + 1 : ~Continues(x[i])
        <3>1. Decoded(x).bytes = IF bad THEN 0 ELSE extra.bytes + 1
            BY <1>3, <2>3 DEF Decoded, Invalid
        <3>2. extra.bytes \in 0 .. 5 /\ (extra.bytes # 0 => x[1] \notin 128 .. 191)
            BY <2>1, ExtraIs
        <3>3. CASE bad
            BY <1>1, <3>1, <3>3
        <3>4. CASE ~bad
            <4>1. /\ extra.bytes # 0 /\ ~(extra.bytes + 1 > Len(x))
                  /\ \A i \in 2 .. extra.bytes + 1 : x[i] \in 128 .. 191
                BY <3>4 DEF Continues
            <4>2. Decoded(x).bytes = extra.bytes + 1
                BY <3>1, <3>4
            <4> DEFINE e == extra.bytes
            <4>3. e \in 0 .. 5 /\ ~(e + 1 > Len(x)) /\ (e # 0 => x[1] \notin 128 .. 191) /\ e # 0
                  /\ \A i \in 2 .. e + 1 : x[i] \in 128 .. 191
                BY <3>2, <4>1
            <4>4. Decoded(x).bytes = e + 1
                BY <4>2
            <4> HIDE DEF extra, bad, e
            <4>5. e + 1 \in 0 .. Len(x)
                BY <1>1, <4>3
            <4>6. QED
                BY <4>3, <4>4, <4>5
        <3>5. QED
            BY <3>3, <3>4
    <2>4. QED
        BY <2>2, <2>3
<1>4. QED
    BY <1>2, <1>3

\* The rest of the bytes, from the i-th on.
LEMMA RestIs ==
    ASSUME NEW bytes \in Seq(Nat), NEW i \in 1 .. Len(bytes)
    PROVE  /\ SubSeq(bytes, i, Len(bytes)) \in Seq(Nat)
           /\ Len(SubSeq(bytes, i, Len(bytes))) = Len(bytes) - i + 1
           /\ \A k \in 1 .. Len(bytes) - i + 1 : SubSeq(bytes, i, Len(bytes))[k] = bytes[i + k - 1]
<1>1. Len(bytes) \in Int /\ i \in Int /\ i <= Len(bytes)
    BY LenProperties
<1>2. \A k \in i .. Len(bytes) : bytes[k] \in Nat
    BY <1>1, ElementOfSeq
<1>3. QED
    BY <1>1, <1>2, SubSeqProperties

LEMMA DecodeLooksAhead ==
    ASSUME NEW bytes \in Seq(Nat), NEW i \in 1 .. Len(bytes) + 1, NEW g, NEW h,
           \A j \in i + 1 .. Len(bytes) + 1 : g[j] = h[j]
    PROVE  DecodeStep(bytes, g, i) = DecodeStep(bytes, h, i)
<1>1. Len(bytes) \in Nat
    BY LenProperties
<1>2. CASE i > Len(bytes)
    BY <1>2 DEF DecodeStep
<1>3. CASE ~(i > Len(bytes))
    <2> DEFINE first == Decoded(SubSeq(bytes, i, Len(bytes)))
    <2>1. i \in 1 .. Len(bytes)
        BY <1>1, <1>3
    <2>2. first.bytes \in 0 .. Len(bytes) - i + 1
        <3> DEFINE x == SubSeq(bytes, i, Len(bytes))
        <3>1. x \in Seq(Nat) /\ Len(x) = Len(bytes) - i + 1
            BY <2>1, RestIs
        <3> HIDE DEF x
        <3>2. Decoded(x).bytes \in 0 .. Len(x)
            BY <3>1, DecodedIs
        <3>3. QED
            BY <3>1, <3>2 DEF x
    <2> HIDE DEF first
    <2>3. first.bytes # 0 => i + first.bytes \in i + 1 .. Len(bytes) + 1
        BY <1>1, <2>1, <2>2
    <2>4. first.bytes # 0 => g[i + first.bytes] = h[i + first.bytes]
        BY <2>3
    <2>5. QED
        BY <2>4 DEF DecodeStep, first
<1>4. QED
    BY <1>2, <1>3

LEMMA DecodedAllIs ==
    ASSUME NEW bytes \in Seq(Nat)
    PROVE  \E h : /\ DecodedAll(bytes) = h[1]
                  /\ \A i \in 1 .. Len(bytes) + 1 : h[i] = DecodeStep(bytes, h, i)
<1> DEFINE n == Len(bytes) + 1
           Good(k, h) == \A i \in n - k .. n : h[i] = DecodeStep(bytes, h, i)
           T == { k \in Nat : k < n => \E h : Good(k, h) }
<1>1. n \in Nat /\ n >= 1 /\ Len(bytes) \in Nat
    BY LenProperties
<1> HIDE DEF n
<1>2. 0 \in T
    <2> DEFINE h == [i \in n .. n |-> <<>>]
    <2>1. \A i \in n - 0 .. n : i = n /\ i > Len(bytes) /\ h[i] = <<>>
        BY <1>1 DEF n
    <2>2. \A i \in n - 0 .. n : DecodeStep(bytes, h, i) = <<>>
        BY <2>1 DEF DecodeStep
    <2>3. Good(0, h)
        BY <2>1, <2>2
    <2>4. QED
        BY <2>3
<1>3. ASSUME NEW k \in T PROVE k + 1 \in T
    <2> SUFFICES ASSUME k + 1 < n PROVE \E h : Good(k + 1, h)
        OBVIOUS
    <2>1. PICK g : Good(k, g)
        BY <1>1
    <2> DEFINE m == n - (k + 1)
               h == [i \in m .. n |-> IF i = m THEN DecodeStep(bytes, g, m) ELSE g[i]]
    <2>2. m \in Nat /\ m >= 1 /\ m < n /\ m + 1 = n - k
        BY <1>1
    <2> HIDE DEF m
    <2>3. \A j \in m + 1 .. n : g[j] = h[j]
        BY <1>1, <2>2
    <2>4. h[m] = DecodeStep(bytes, g, m)
        BY <1>1, <2>2
    <2> HIDE DEF h
    <2>5. ASSUME NEW i \in m .. n PROVE DecodeStep(bytes, g, i) = DecodeStep(bytes, h, i)
        <3>1. i \in 1 .. Len(bytes) + 1 /\ \A j \in i + 1 .. Len(bytes) + 1 : g[j] = h[j]
            BY <1>1, <2>2, <2>3 DEF n
        <3>2. QED
            BY <3>1, DecodeLooksAhead
    <2>6. ASSUME NEW i \in m .. n PROVE h[i] = DecodeStep(bytes, h, i)
        <3>1. CASE i = m
            BY <2>4, <2>5, <3>1
        <3>2. CASE i # m
            <4>1. i \in m + 1 .. n
                BY <2>2, <3>2
            <4>2. g[i] = DecodeStep(bytes, g, i)
                BY <2>1, <2>2, <4>1
            <4>3. QED
                BY <2>3, <2>5, <4>1, <4>2
        <3>3. QED
            BY <3>1, <3>2
    <2>7. Good(k + 1, h)
        BY <2>6 DEF m
    <2>8. QED
        BY <2>7
<1>4. T = Nat
    <2> HIDE DEF T
    <2>1. T \in SUBSET Nat
        BY DEF T
    <2>2. QED
        BY <1>2, <1>3, <2>1, SetInduction
<1>5. PICK g : \A i \in 1 .. n : g[i] = DecodeStep(bytes, g, i)
    <2>1. n - 1 \in Nat /\ n - 1 < n /\ n - (n - 1) = 1
        BY <1>1
    <2>2. n - 1 \in T
        BY <1>4, <2>1
    <2>3. PICK g : Good(n - 1, g)
        BY <2>1, <2>2
    <2>4. QED
        BY <2>1, <2>3
<1> DEFINE All(h) == h = [i \in 1 .. n |-> DecodeStep(bytes, h, i)]
           first == [i \in 1 .. n |-> g[i]]
           from == CHOOSE h : All(h)
<1>6. All(first)
    <2>1. ASSUME NEW i \in 1 .. n PROVE DecodeStep(bytes, g, i) = DecodeStep(bytes, first, i)
        <3>1. \A j \in i + 1 .. n : g[j] = first[j]
            BY <1>1
        <3> HIDE DEF first
        <3>2. QED
            BY <3>1, DecodeLooksAhead DEF n
    <2>2. \A i \in 1 .. n : g[i] = DecodeStep(bytes, first, i)
        BY <1>5, <2>1
    <2>3. QED
        BY <2>2
<1>7. All(from)
    <2> HIDE DEF All, first
    <2>1. QED
        BY <1>6
<1>8. DecodedAll(bytes) = from[1]
    BY DEF DecodedAll, DecodeStep, n
<1> HIDE DEF from
<1>9. \A i \in 1 .. n : from[i] = DecodeStep(bytes, from, i)
    BY <1>7
<1>10. QED
    BY <1>8, <1>9 DEF n

\* Numbers in base 64.
LEMMA DigitsAre ==
    ASSUME NEW c \in Nat
    PROVE  /\ c \div 1 = c /\ c \div 64 \in Nat /\ c % 64 \in 0 .. 63 /\ c = 64 * (c \div 64) + (c % 64)
           /\ c \div 4096 \in Nat /\ (c \div 64) % 64 \in 0 .. 63
           /\ c \div 64 = 64 * (c \div 4096) + ((c \div 64) % 64)
           /\ (c \div 4096) % 64 \in 0 .. 63
           /\ c < 2048 => c \div 64 < 32
           /\ c < 65536 => c \div 4096 < 16
           /\ c < 131072 => c \div 262144 = 0 /\ (c \div 4096) % 64 = c \div 4096
<1>1. c \div 1 = c
    OBVIOUS
<1>2. c \div 64 \in Nat /\ c % 64 \in 0 .. 63 /\ c = 64 * (c \div 64) + (c % 64)
    OBVIOUS
<1>3. c \div 4096 \in Nat /\ (c \div 64) % 64 \in 0 .. 63 /\ (c \div 4096) % 64 \in 0 .. 63
    OBVIOUS
<1>4. c \div 64 = 64 * (c \div 4096) + ((c \div 64) % 64)
    OBVIOUS
<1>5. /\ c < 2048 => c \div 64 < 32
      /\ c < 65536 => c \div 4096 < 16
    OBVIOUS
<1>6. c < 131072 => c \div 262144 = 0 /\ (c \div 4096) % 64 = c \div 4096
    OBVIOUS
<1>7. QED
    BY <1>1, <1>2, <1>3, <1>4, <1>5, <1>6

LEMMA ContinuationIs ==
    ASSUME NEW r \in 0 .. 63
    PROVE  /\ 128 + r \in 128 .. 191 /\ 128 + r \in Nat /\ (128 + r) % 64 = r
    OBVIOUS

LEMMA EncodedIs ==
    ASSUME NEW c \in Nat
    PROVE  /\ Encoded(c) \in Seq(Nat)
           /\ c < 131072 => Len(Encoded(c)) \in 1 .. 4
           /\ c >= 131072 => Encoded(c) = <<>>
           /\ c < 128 => Encoded(c) = <<c>>
           /\ c >= 128 /\ c < 2048 => Encoded(c) = <<192 + (c \div 64), 128 + (c % 64)>>
           /\ c >= 2048 /\ c < 65536 =>
                 Encoded(c) = <<224 + (c \div 4096), 128 + ((c \div 64) % 64), 128 + (c % 64)>>
           /\ c >= 65536 /\ c < 131072 =>
                 Encoded(c) = <<240, 128 + (c \div 4096), 128 + ((c \div 64) % 64), 128 + (c % 64)>>
<1>1. Limits[1] = 128 /\ Limits[2] = 2048 /\ Limits[3] = 65536 /\ Limits[4] = 131072
    BY DEF Limits
<1> DEFINE a == c \div 64
           b == c \div 4096
           m == (c \div 64) % 64
           r == c % 64
           top == c \div 262144
           high == (c \div 4096) % 64
<1>2. /\ c \div 1 = c /\ a \in Nat /\ b \in Nat /\ m \in 0 .. 63 /\ r \in 0 .. 63 /\ high \in 0 .. 63
      /\ c < 131072 => top = 0 /\ high = b
    BY DigitsAre
<1>3. Encoded(c) = IF c < 128 THEN <<c>>
                   ELSE IF c < 2048 THEN <<192 + a, 128 + r>>
                   ELSE IF c < 65536 THEN <<224 + b, 128 + m, 128 + r>>
                   ELSE IF c < 131072 THEN <<240 + top, 128 + high, 128 + m, 128 + r>>
                   ELSE <<>>
    BY <1>1, <1>2 DEF Encoded
<1> HIDE DEF a, b, m, r, top, high
<1>4. CASE c < 128
    BY <1>3, <1>4
<1>5. CASE c >= 128 /\ c < 2048
    <2>1. Encoded(c) = <<192 + a, 128 + r>> /\ Len(Encoded(c)) = 2
        BY <1>3, <1>5
    <2>2. 192 + a \in Nat /\ 128 + r \in Nat
        BY <1>2
    <2>3. QED
        BY <1>5, <2>1, <2>2 DEF a, r
<1>6. CASE c >= 2048 /\ c < 65536
    <2>1. Encoded(c) = <<224 + b, 128 + m, 128 + r>> /\ Len(Encoded(c)) = 3
        BY <1>3, <1>6
    <2>2. 224 + b \in Nat /\ 128 + m \in Nat /\ 128 + r \in Nat
        BY <1>2
    <2>3. QED
        BY <1>6, <2>1, <2>2 DEF b, m, r
<1>7. CASE c >= 65536 /\ c < 131072
    <2>1. 240 + top = 240 /\ high = b
        BY <1>2, <1>7
    <2>2. Encoded(c) = <<240, 128 + b, 128 + m, 128 + r>> /\ Len(Encoded(c)) = 4
        BY <1>3, <1>7, <2>1
    <2>3. 240 \in Nat /\ 128 + b \in Nat /\ 128 + m \in Nat /\ 128 + r \in Nat
        BY <1>2
    <2>4. QED
        BY <1>7, <2>2, <2>3 DEF b, m, r
<1>8. CASE c >= 131072
    BY <1>3, <1>8
<1>9. QED
    BY <1>4, <1>5, <1>6, <1>7, <1>8

LEMMA EncodedSize ==
    ASSUME NEW c \in Nat
    PROVE  /\ Encoded(c) \in Seq(Nat)
           /\ c >= 131072 => Encoded(c) = <<>>
           /\ c < 131072 => Len(Encoded(c)) \in 1 .. 4
    BY EncodedIs

\* The bits of a character are gathered one byte after another.
Gathers(p, x, e, bits) ==
    p = [i \in 1 .. e + 1 |-> IF i = 1 THEN bits ELSE (p[i - 1] * 64) + (x[i] % 64)]

Gathered(p, x, e, bits) ==
    /\ p[1] = bits
    /\ \A i \in 2 .. e + 1 : p[i] = (p[i - 1] * 64) + (x[i] % 64)

LEMMA PointIs ==
    ASSUME NEW e \in Nat, NEW x \in Seq(Nat), e + 1 <= Len(x), NEW bits \in Nat
    PROVE  Gathered(CHOOSE p : Gathers(p, x, e, bits), x, e, bits)
<1> DEFINE step == [q \in Nat \X Nat |-> IF q[1] + 2 \in 1 .. Len(x) THEN (q[2] * 64) + (x[q[1] + 2] % 64) ELSE 0]
<1>1. Len(x) \in Nat /\ \A i \in 1 .. Len(x) : x[i] \in Nat
    BY LenProperties, ElementOfSeq
<1>2. step \in [Nat \X Nat -> Nat]
    <2> SUFFICES ASSUME NEW q \in Nat \X Nat
                 PROVE  (IF q[1] + 2 \in 1 .. Len(x) THEN (q[2] * 64) + (x[q[1] + 2] % 64) ELSE 0) \in Nat
        OBVIOUS
    <2>1. q[2] \in Nat
        OBVIOUS
    <2>2. ASSUME q[1] + 2 \in 1 .. Len(x) PROVE (q[2] * 64) + (x[q[1] + 2] % 64) \in Nat
        <3> DEFINE d == x[q[1] + 2]
        <3>1. d \in Nat
            BY <1>1, <2>2
        <3> HIDE DEF d
        <3>2. d % 64 \in Nat
            BY <3>1, DigitsAre
        <3>3. QED
            BY <2>1, <3>2 DEF d
    <2>3. QED
        BY <2>2
<1>3. PICK g : Unfolds(g, Nat, bits, step, e)
    <2> HIDE DEF step
    <2>1. QED
        BY <1>2, RecursionExists, Zenon
<1> DEFINE p0 == [i \in 1 .. e + 1 |-> g[i - 1]]
           point == CHOOSE p : Gathers(p, x, e, bits)
<1>4. g \in [0 .. e -> Nat] /\ g[0] = bits
    BY <1>3 DEF Unfolds
<1>5. ASSUME NEW i \in 2 .. e + 1 PROVE g[i - 1] = (g[i - 2] * 64) + (x[i] % 64)
    <2> DEFINE j == i - 2
    <2>1. j \in 0 .. e - 1 /\ j + 1 = i - 1 /\ j + 2 = i /\ j \in Nat /\ j \in 0 .. e /\ i \in 1 .. Len(x)
        BY <1>1
    <2> HIDE DEF j
    <2>2. g[j + 1] = step[<<j, g[j]>>]
        BY <1>3, <2>1 DEF Unfolds
    <2>3. <<j, g[j]>> \in Nat \X Nat
        BY <1>4, <2>1
    <2>4. step[<<j, g[j]>>] = (g[j] * 64) + (x[j + 2] % 64)
        BY <2>1, <2>3
    <2>5. QED
        BY <2>1, <2>2, <2>4 DEF j
<1> HIDE DEF step
<1>6. Gathers(p0, x, e, bits)
    <2>1. ASSUME NEW i \in 1 .. e + 1
          PROVE  g[i - 1] = IF i = 1 THEN bits ELSE (p0[i - 1] * 64) + (x[i] % 64)
        <3>1. CASE i = 1
            <4>1. i - 1 = 0
                BY <3>1
            <4>2. QED
                BY <1>4, <3>1, <4>1
        <3>2. CASE i # 1
            <4>1. i \in 2 .. e + 1 /\ i - 1 \in 1 .. e + 1 /\ (i - 1) - 1 = i - 2
                BY <3>2
            <4>2. p0[i - 1] = g[i - 2]
                BY <4>1
            <4>3. QED
                BY <1>5, <3>2, <4>1, <4>2
        <3>3. QED
            BY <3>1, <3>2
    <2>2. QED
        BY <2>1 DEF Gathers
<1>7. Gathers(point, x, e, bits)
    <2> HIDE DEF p0
    <2>1. QED
        BY <1>6
<1> HIDE DEF point
<1>8. \A i \in 1 .. e + 1 : point[i] = IF i = 1 THEN bits ELSE (point[i - 1] * 64) + (x[i] % 64)
    BY <1>7 DEF Gathers
<1>9. /\ point[1] = bits
      /\ \A i \in 2 .. e + 1 : point[i] = (point[i - 1] * 64) + (x[i] % 64)
    <2>1. 1 \in 1 .. e + 1 /\ \A i \in 2 .. e + 1 : i \in 1 .. e + 1 /\ i # 1
        OBVIOUS
    <2>2. QED
        BY <1>8, <2>1
<1>10. QED
    BY <1>9 DEF point, Gathered

LEMMA DecodedLong ==
    ASSUME NEW x \in Seq(Nat), x # <<>>, ~(x[1] < 128), NEW e \in 1 .. 3, NEW bits \in Nat,
           CodeExtra(x[1]).bytes = e, CodeExtra(x[1]).bits = bits, e + 1 <= Len(x),
           \A i \in 2 .. e + 1 : x[i] \in 128 .. 191
    PROVE  \E point : Gathered(point, x, e, bits) /\ Decoded(x).codepoint = point[e + 1] /\ Decoded(x).bytes = e + 1
<1> DEFINE extra == CodeExtra(x[1])
           point == CHOOSE p : Gathers(p, x, e, bits)
<1>1. extra.bytes = e /\ extra.bits = bits
    OBVIOUS
<1>2. Len(x) \in Nat /\ e \in Nat
    BY LenProperties
<1>3. Gathered(point, x, e, bits)
    BY <1>2, PointIs
<1> HIDE DEF extra
<1>4. Decoded(x) = IF \/ extra.bytes = 0
                      \/ extra.bytes + 1 > Len(x)
                      \/ \E i \in 2 .. extra.bytes + 1 : ~Continues(x[i])
                   THEN Invalid
                   ELSE LET p[i \in 1 .. extra.bytes + 1] ==
                                IF i = 1 THEN extra.bits ELSE (p[i - 1] * 64) + (x[i] % 64)
                        IN  [codepoint |-> p[extra.bytes + 1], bytes |-> extra.bytes + 1]
    BY DEF Decoded, extra
<1>5. e # 0 /\ ~(e + 1 > Len(x)) /\ ~\E i \in 2 .. e + 1 : ~Continues(x[i])
    BY <1>2 DEF Continues
<1>6. Decoded(x) = [codepoint |-> point[e + 1], bytes |-> e + 1]
    BY <1>1, <1>4, <1>5 DEF Gathers
<1> HIDE DEF point
<1>7. QED
    BY <1>3, <1>6

LEMMA DecodedTwo ==
    ASSUME NEW x \in Seq(Nat), Len(x) >= 2, ~(x[1] < 128), NEW bits \in Nat,
           CodeExtra(x[1]).bytes = 1, CodeExtra(x[1]).bits = bits, x[2] \in 128 .. 191
    PROVE  Decoded(x).codepoint = (bits * 64) + (x[2] % 64) /\ Decoded(x).bytes = 2
<1>1. x # <<>> /\ 1 + 1 <= Len(x) /\ 1 \in 1 .. 3
    BY LenProperties, EmptySeq
<1>2. \A i \in 2 .. 1 + 1 : x[i] \in 128 .. 191
    <2>1. \A i \in 2 .. 1 + 1 : i = 2
        OBVIOUS
    <2>2. QED
        BY <2>1
<1>3. PICK point : Gathered(point, x, 1, bits) /\ Decoded(x).codepoint = point[1 + 1] /\ Decoded(x).bytes = 1 + 1
    BY <1>1, <1>2, DecodedLong
<1>4. 2 \in 2 .. 1 + 1 /\ 2 - 1 = 1
    OBVIOUS
<1>5. point[1] = bits /\ point[2] = (point[2 - 1] * 64) + (x[2] % 64)
    BY <1>3, <1>4 DEF Gathered
<1>6. QED
    BY <1>3, <1>4, <1>5

LEMMA DecodedThree ==
    ASSUME NEW x \in Seq(Nat), Len(x) >= 3, ~(x[1] < 128), NEW bits \in Nat,
           CodeExtra(x[1]).bytes = 2, CodeExtra(x[1]).bits = bits,
           x[2] \in 128 .. 191, x[3] \in 128 .. 191
    PROVE  Decoded(x).codepoint = (((bits * 64) + (x[2] % 64)) * 64) + (x[3] % 64) /\ Decoded(x).bytes = 3
<1>1. x # <<>> /\ 2 + 1 <= Len(x) /\ 2 \in 1 .. 3
    BY LenProperties, EmptySeq
<1>2. \A i \in 2 .. 2 + 1 : x[i] \in 128 .. 191
    <2>1. \A i \in 2 .. 2 + 1 : i = 2 \/ i = 3
        OBVIOUS
    <2>2. QED
        BY <2>1
<1>3. PICK point : Gathered(point, x, 2, bits) /\ Decoded(x).codepoint = point[2 + 1] /\ Decoded(x).bytes = 2 + 1
    BY <1>1, <1>2, DecodedLong
<1>4. 2 \in 2 .. 2 + 1 /\ 3 \in 2 .. 2 + 1 /\ 2 - 1 = 1 /\ 3 - 1 = 2
    OBVIOUS
<1>5. /\ point[1] = bits
      /\ point[2] = (point[2 - 1] * 64) + (x[2] % 64)
      /\ point[3] = (point[3 - 1] * 64) + (x[3] % 64)
    BY <1>3, <1>4 DEF Gathered
<1>6. QED
    BY <1>3, <1>4, <1>5

LEMMA DecodedFour ==
    ASSUME NEW x \in Seq(Nat), Len(x) >= 4, ~(x[1] < 128),
           CodeExtra(x[1]).bytes = 3, CodeExtra(x[1]).bits = 0,
           x[2] \in 128 .. 191, x[3] \in 128 .. 191, x[4] \in 128 .. 191
    PROVE  /\ Decoded(x).codepoint = ((((x[2] % 64) * 64) + (x[3] % 64)) * 64) + (x[4] % 64)
           /\ Decoded(x).bytes = 4
<1>1. x # <<>> /\ 3 + 1 <= Len(x) /\ 3 \in 1 .. 3
    BY LenProperties, EmptySeq
<1>2. \A i \in 2 .. 3 + 1 : x[i] \in 128 .. 191
    <2>1. \A i \in 2 .. 3 + 1 : i = 2 \/ i = 3 \/ i = 4
        OBVIOUS
    <2>2. QED
        BY <2>1
<1>3. PICK point : Gathered(point, x, 3, 0) /\ Decoded(x).codepoint = point[3 + 1] /\ Decoded(x).bytes = 3 + 1
    BY <1>1, <1>2, DecodedLong
<1>4. /\ 2 \in 2 .. 3 + 1 /\ 3 \in 2 .. 3 + 1 /\ 4 \in 2 .. 3 + 1
      /\ 2 - 1 = 1 /\ 3 - 1 = 2 /\ 4 - 1 = 3
    OBVIOUS
<1>5. /\ point[1] = 0
      /\ point[2] = (point[2 - 1] * 64) + (x[2] % 64)
      /\ point[3] = (point[3 - 1] * 64) + (x[3] % 64)
      /\ point[4] = (point[4 - 1] * 64) + (x[4] % 64)
    BY <1>3, <1>4 DEF Gathered
<1>6. x[2] % 64 \in Nat /\ (0 * 64) + (x[2] % 64) = x[2] % 64
    <2>1. \A i \in 128 .. 191 : i % 64 \in Nat /\ (0 * 64) + (i % 64) = i % 64
        OBVIOUS
    <2>2. QED
        BY <2>1, Zenon
<1>7. QED
    BY <1>3, <1>4, <1>5, <1>6

\* Decoding begins with what was encoded first.
LEMMA DecodesEncoded ==
    ASSUME NEW c \in Nat, c < 131072, NEW x \in Seq(Nat),
           Len(Encoded(c)) <= Len(x),
           \A k \in 1 .. Len(Encoded(c)) : x[k] = Encoded(c)[k]
    PROVE  Decoded(x).codepoint = c /\ Decoded(x).bytes = Len(Encoded(c)) /\ Len(Encoded(c)) \in 1 .. 4
<1> DEFINE a == c \div 64
           b == c \div 4096
           m == (c \div 64) % 64
           r == c % 64
<1>1. /\ a \in Nat /\ b \in Nat /\ m \in 0 .. 63 /\ r \in 0 .. 63
      /\ c = (64 * a) + r /\ a = (64 * b) + m
      /\ c < 2048 => a < 32
      /\ c < 65536 => b < 16
      /\ c < 131072 => (c \div 4096) % 64 = b
      /\ (c \div 4096) % 64 \in 0 .. 63
    BY DigitsAre
<1>2. /\ 128 + m \in 128 .. 191 /\ (128 + m) % 64 = m
      /\ 128 + r \in 128 .. 191 /\ (128 + r) % 64 = r
    BY <1>1, ContinuationIs
<1>3. /\ c < 128 => Encoded(c) = <<c>>
      /\ c >= 128 /\ c < 2048 => Encoded(c) = <<192 + a, 128 + r>>
      /\ c >= 2048 /\ c < 65536 => Encoded(c) = <<224 + b, 128 + m, 128 + r>>
      /\ c >= 65536 /\ c < 131072 => Encoded(c) = <<240, 128 + b, 128 + m, 128 + r>>
    BY EncodedIs
<1>4. Len(x) \in Nat /\ (Len(x) >= 1 => x # <<>>)
    BY LenProperties, EmptySeq
<1> HIDE DEF a, b, m, r
<1>5. CASE c < 128
    <2>1. Encoded(c) = <<c>> /\ Len(Encoded(c)) = 1
        BY <1>3, <1>5
    <2>2. x[1] = c /\ x # <<>>
        BY <1>4, <2>1
    <2>3. Decoded(x) = [codepoint |-> x[1], bytes |-> 1]
        BY <1>5, <2>2 DEF Decoded
    <2>4. QED
        BY <2>1, <2>2, <2>3
<1>6. CASE c >= 128 /\ c < 2048
    <2>1. Encoded(c) = <<192 + a, 128 + r>> /\ Len(Encoded(c)) = 2
        BY <1>3, <1>6
    <2>2. x[1] = 192 + a /\ x[2] = 128 + r /\ Len(x) >= 2
        BY <1>4, <2>1
    <2>3. 192 + a \in 192 .. 223 /\ (192 + a) - 192 = a /\ ~(192 + a < 128)
        BY <1>1, <1>6
    <2>4. CodeExtra(x[1]).bytes = 1 /\ CodeExtra(x[1]).bits = a /\ ~(x[1] < 128)
        BY <2>2, <2>3 DEF CodeExtra
    <2>5. Decoded(x).codepoint = (a * 64) + (x[2] % 64) /\ Decoded(x).bytes = 2
        <3>1. a \in Nat /\ Len(x) >= 2 /\ x[2] \in 128 .. 191
            BY <1>1, <1>2, <2>2
        <3>2. QED
            BY <2>4, <3>1, DecodedTwo
    <2>6. (a * 64) + r = c
        BY <1>1
    <2>7. QED
        BY <1>2, <2>1, <2>2, <2>5, <2>6
<1>7. CASE c >= 2048 /\ c < 65536
    <2>1. Encoded(c) = <<224 + b, 128 + m, 128 + r>> /\ Len(Encoded(c)) = 3
        BY <1>3, <1>7
    <2>2. x[1] = 224 + b /\ x[2] = 128 + m /\ x[3] = 128 + r /\ Len(x) >= 3
        BY <1>4, <2>1
    <2>3. 224 + b \notin 192 .. 223 /\ 224 + b \in 224 .. 239 /\ (224 + b) - 224 = b /\ ~(224 + b < 128)
        BY <1>1, <1>7
    <2>4. CodeExtra(x[1]).bytes = 2 /\ CodeExtra(x[1]).bits = b /\ ~(x[1] < 128)
        BY <2>2, <2>3 DEF CodeExtra
    <2>5. Decoded(x).codepoint = (((b * 64) + (x[2] % 64)) * 64) + (x[3] % 64) /\ Decoded(x).bytes = 3
        <3>1. b \in Nat /\ Len(x) >= 3 /\ x[2] \in 128 .. 191 /\ x[3] \in 128 .. 191
            BY <1>1, <1>2, <2>2
        <3>2. QED
            BY <2>4, <3>1, DecodedThree
    <2>6. (((b * 64) + m) * 64) + r = c
        BY <1>1
    <2>7. QED
        BY <1>2, <2>1, <2>2, <2>5, <2>6
<1>8. CASE c >= 65536 /\ c < 131072
    <2>1. Encoded(c) = <<240, 128 + b, 128 + m, 128 + r>> /\ Len(Encoded(c)) = 4
        BY <1>3, <1>8
    <2>2. x[1] = 240 /\ x[2] = 128 + b /\ x[3] = 128 + m /\ x[4] = 128 + r /\ Len(x) >= 4
        BY <1>4, <2>1
    <2>3. 128 + b \in 128 .. 191 /\ (128 + b) % 64 = b
        <3>1. b \in 0 .. 63
            BY <1>1
        <3>2. QED
            BY <3>1, ContinuationIs
    <2>4. CodeExtra(x[1]).bytes = 3 /\ CodeExtra(x[1]).bits = 0 /\ ~(x[1] < 128) /\ 0 \in Nat
        BY <2>2 DEF CodeExtra
    <2>5. /\ Decoded(x).codepoint = ((((x[2] % 64) * 64) + (x[3] % 64)) * 64) + (x[4] % 64)
          /\ Decoded(x).bytes = 4
        <3>1. Len(x) >= 4 /\ x[2] \in 128 .. 191 /\ x[3] \in 128 .. 191 /\ x[4] \in 128 .. 191
            BY <1>1, <1>2, <2>2, <2>3
        <3>2. QED
            BY <2>4, <3>1, DecodedFour
    <2>6. ((((b * 64) + m) * 64) + r) = c
        BY <1>1
    <2>7. QED
        BY <1>2, <2>1, <2>2, <2>3, <2>5, <2>6
<1>9. QED
    BY <1>5, <1>6, <1>7, <1>8

\* What is encoded and decoded comes back, for any codepoints.
LEMMA CodepointsAre ==
    ASSUME NEW cs \in Seq(Nat)
    PROVE  DecodedAll(EncodedAll(cs)) =
               FlattenSeq([ i \in 1 .. Len(cs) |-> IF cs[i] < 131072 THEN <<cs[i]>> ELSE <<>> ])
<1> DEFINE n == Len(cs)
           s == [i \in 1 .. n |-> Encoded(cs[i])]
           t == [i \in 1 .. n |-> IF cs[i] < 131072 THEN <<cs[i]>> ELSE <<>>]
<1>1. n \in Nat /\ \A i \in 1 .. n : cs[i] \in Nat
    BY LenProperties, ElementOfSeq
<1>2. /\ s \in [1 .. n -> Seq(Nat)] /\ t \in [1 .. n -> Seq(Nat)]
      /\ \A i \in 1 .. n : s[i] = Encoded(cs[i])
      /\ \A i \in 1 .. n : t[i] = IF cs[i] < 131072 THEN <<cs[i]>> ELSE <<>>
    <2>1. \A i \in 1 .. n : Encoded(cs[i]) \in Seq(Nat)
        <3>1. \A c \in Nat : Encoded(c) \in Seq(Nat)
            BY EncodedSize
        <3>2. QED
            BY <1>1, <3>1, Zenon
    <2>2. ASSUME NEW i \in 1 .. n PROVE (IF cs[i] < 131072 THEN <<cs[i]>> ELSE <<>>) \in Seq(Nat)
        BY <1>1
    <2>3. QED
        BY <2>1, <2>2
<1>3. EncodedAll(cs) = FlattenSeq(s)
    BY DEF EncodedAll
<1> HIDE DEF s, t, n
<1>4. /\ s \in Seq(Seq(Nat)) /\ t \in Seq(Seq(Nat)) /\ Len(s) = n /\ Len(t) = n
    <2>1. s \in Seq(Seq(Nat)) /\ t \in Seq(Seq(Nat)) /\ DOMAIN s = 1 .. n /\ DOMAIN t = 1 .. n
        BY <1>1, <1>2, SeqDef
    <2>2. QED
        BY <1>1, <2>1, LengthIs
<1>5. PICK f \in [0 .. n -> Seq(Nat)] : Joins(f, s) /\ FlattenSeq(s) = f[n]
    BY <1>4, FlattenIs
<1>6. PICK g \in [0 .. n -> Seq(Nat)] : Joins(g, t) /\ FlattenSeq(t) = g[n]
    BY <1>4, FlattenIs
<1> DEFINE bytes == f[n]
           read == g[n]
<1>7. bytes \in Seq(Nat) /\ read \in Seq(Nat) /\ Len(bytes) \in Nat /\ Len(read) \in Nat
    <2>1. n \in 0 .. n
        BY <1>1
    <2>2. QED
        BY <2>1, LenProperties
<1>8. PICK h : /\ DecodedAll(bytes) = h[1]
               /\ \A i \in 1 .. Len(bytes) + 1 : h[i] = DecodeStep(bytes, h, i)
    BY <1>7, DecodedAllIs
<1>9. ASSUME NEW i \in 1 .. n
      PROVE  /\ Len(f[i - 1]) \in Nat /\ Len(s[i]) \in Nat
             /\ Len(f[i]) = Len(f[i - 1]) + Len(s[i])
             /\ Len(f[i]) <= Len(bytes)
             /\ \A k \in 1 .. Len(s[i]) : bytes[Len(f[i - 1]) + k] = s[i][k]
    <2>1. /\ s \in Seq(Seq(Nat)) /\ f \in [0 .. Len(s) -> Seq(Nat)] /\ Joins(f, s)
          /\ i \in 1 .. Len(s) /\ n = Len(s)
        BY <1>4, <1>5
    <2> HIDE DEF bytes
    <2>2. /\ Len(f[i - 1]) \in Nat /\ Len(s[i]) \in Nat
          /\ Len(f[i]) = Len(f[i - 1]) + Len(s[i])
          /\ Len(f[i]) <= Len(f[Len(s)])
          /\ \A k \in 1 .. Len(s[i]) : f[Len(s)][Len(f[i - 1]) + k] = s[i][k]
        <3>1. PieceOf(f, s, i)
            BY <2>1, PieceIs, Zenon
        <3>2. QED
            BY <3>1, Zenon DEF PieceOf
    <2>3. f[Len(s)] = bytes
        BY <2>1 DEF bytes
    <2>4. QED
        BY <2>2, <2>3, Zenon
<1>10. ASSUME NEW i \in 1 .. n
       PROVE  /\ Len(g[i - 1]) \in Nat /\ Len(t[i]) \in Nat
              /\ Len(g[i]) = Len(g[i - 1]) + Len(t[i])
              /\ Len(g[i]) <= Len(read)
              /\ \A k \in 1 .. Len(t[i]) : read[Len(g[i - 1]) + k] = t[i][k]
    <2>1. /\ t \in Seq(Seq(Nat)) /\ g \in [0 .. Len(t) -> Seq(Nat)] /\ Joins(g, t)
          /\ i \in 1 .. Len(t) /\ n = Len(t)
        BY <1>4, <1>6
    <2> HIDE DEF read
    <2>2. /\ Len(g[i - 1]) \in Nat /\ Len(t[i]) \in Nat
          /\ Len(g[i]) = Len(g[i - 1]) + Len(t[i])
          /\ Len(g[i]) <= Len(g[Len(t)])
          /\ \A k \in 1 .. Len(t[i]) : g[Len(t)][Len(g[i - 1]) + k] = t[i][k]
        <3>1. PieceOf(g, t, i)
            BY <2>1, PieceIs, Zenon
        <3>2. QED
            BY <3>1, Zenon DEF PieceOf
    <2>3. g[Len(t)] = read
        BY <2>1 DEF read
    <2>4. QED
        BY <2>2, <2>3, Zenon
<1> DEFINE Agree(k) == h[Len(f[k]) + 1] = SubSeq(read, Len(g[k]) + 1, Len(read))
           T == { k \in Nat : k <= n => Agree(n - k) }
<1>11. Agree(n)
    <2>1. h[Len(bytes) + 1] = <<>>
        <3>1. Len(bytes) + 1 \in 1 .. Len(bytes) + 1 /\ Len(bytes) + 1 > Len(bytes)
            BY <1>7
        <3>2. QED
            BY <1>8, <3>1 DEF DecodeStep
    <2>2. SubSeq(read, Len(read) + 1, Len(read)) = <<>>
        <3>1. Len(read) + 1 \in Int /\ Len(read) \in Int /\ Len(read) < Len(read) + 1
            BY <1>7
        <3>2. QED
            BY <3>1, SubSeqEmpty
    <2>3. QED
        BY <2>1, <2>2
<1> HIDE DEF bytes, read
<1>12. ASSUME NEW k \in 1 .. n, Agree(k) PROVE Agree(k - 1)
    <2> DEFINE c == cs[k]
               i == Len(f[k - 1]) + 1
               m == Len(g[k - 1]) + 1
    <2>1. c \in Nat
        BY <1>1
    <2>2. CASE ~(c < 131072)
        <3>1. s[k] = <<>> /\ t[k] = <<>>
            <4>1. Encoded(c) = <<>>
                BY <2>1, <2>2, EncodedSize
            <4>2. QED
                BY <1>2, <2>2, <4>1
        <3>2. Len(s[k]) = 0 /\ Len(t[k]) = 0
            BY <3>1
        <3>3. Len(f[k]) = Len(f[k - 1]) /\ Len(g[k]) = Len(g[k - 1])
            <4>1. /\ Len(f[k]) = Len(f[k - 1]) + Len(s[k]) /\ Len(f[k - 1]) \in Nat
                  /\ Len(g[k]) = Len(g[k - 1]) + Len(t[k]) /\ Len(g[k - 1]) \in Nat
                BY <1>9, <1>10
            <4>2. \A a \in Nat : a + 0 = a
                OBVIOUS
            <4>3. QED
                BY <3>2, <4>1, <4>2, Zenon
        <3>4. QED
            BY <1>12, <3>3
    <2>3. CASE c < 131072
        <3>1. s[k] = Encoded(c) /\ t[k] = <<c>> /\ Len(t[k]) = 1
            BY <1>2, <2>3
        <3> HIDE DEF c
        <3>2. /\ i \in Nat /\ Len(s[k]) \in Nat /\ Len(f[k]) = i - 1 + Len(s[k]) /\ Len(f[k]) <= Len(bytes)
              /\ i - 1 = Len(f[k - 1])
            <4> DEFINE p == Len(f[k - 1])
            <4>1. /\ p \in Nat /\ Len(s[k]) \in Nat /\ Len(f[k]) = p + Len(s[k]) /\ Len(f[k]) <= Len(bytes)
                  /\ i = p + 1
                BY <1>9
            <4> HIDE DEF p, i
            <4>2. i \in Nat /\ i - 1 = p
                BY <4>1
            <4>3. QED
                BY <4>1, <4>2 DEF p
        <3>3. /\ m \in 1 .. Len(read) /\ Len(g[k]) = m /\ read[m] = c
            <4>1. Len(g[k - 1]) \in Nat /\ Len(g[k]) = Len(g[k - 1]) + 1 /\ Len(g[k]) <= Len(read)
                BY <1>10, <3>1
            <4>2. read[Len(g[k - 1]) + 1] = t[k][1]
                <5>1. 1 \in 1 .. Len(t[k])
                    BY <3>1
                <5>2. QED
                    BY <1>10, <5>1
            <4>3. t[k][1] = c
                BY <3>1
            <4>4. QED
                BY <1>7, <4>1, <4>2, <4>3
        <3>4. Len(s[k]) >= 1
            <4>1. Len(Encoded(c)) \in 1 .. 4
                BY <2>1, <2>3, EncodedSize DEF c
            <4>2. \A a \in 1 .. 4 : a >= 1
                OBVIOUS
            <4>3. QED
                BY <3>1, <4>1, <4>2, Zenon
        <3> DEFINE x == SubSeq(bytes, i, Len(bytes))
                   l == Len(s[k])
        <3>5. i \in 1 .. Len(bytes)
            <4> HIDE DEF i
            <4>1. i - 1 + l <= Len(bytes) /\ l >= 1 /\ l \in Nat /\ i \in Nat
                BY <3>2, <3>4
            <4>2. i - 1 \in Nat
                BY <1>9, <3>2
            <4> HIDE DEF l
            <4>3. QED
                BY <1>7, <4>1, <4>2
        <3>6. /\ x \in Seq(Nat) /\ Len(x) = Len(bytes) - i + 1
              /\ \A j \in 1 .. Len(bytes) - i + 1 : x[j] = bytes[i + j - 1]
            BY <1>7, <3>5, RestIs
        <3>7. l <= Len(x) /\ l \in Nat
            <4> HIDE DEF i, x
            <4>1. i - 1 + l <= Len(bytes) /\ l \in Nat /\ i \in Nat
                BY <3>2
            <4> HIDE DEF l
            <4>2. QED
                BY <1>7, <3>6, <4>1
        <3>8. \A j \in 1 .. l : x[j] = s[k][j]
            <4> SUFFICES ASSUME NEW j \in 1 .. l PROVE x[j] = s[k][j]
                OBVIOUS
            <4>1. j \in 1 .. Len(x) /\ i + j - 1 = (i - 1) + j
                <5> HIDE DEF i, x, l
                <5>1. QED
                    BY <1>7, <3>2, <3>6, <3>7
            <4>2. x[j] = bytes[i + j - 1]
                BY <3>6, <4>1
            <4>3. bytes[Len(f[k - 1]) + j] = s[k][j]
                BY <1>9
            <4>4. QED
                BY <3>2, <4>1, <4>2, <4>3
        <3> DEFINE first == Decoded(x)
        <3>9. first.codepoint = c /\ first.bytes = l /\ l # 0
            <4> HIDE DEF x, i
            <4>1. c \in Nat /\ c < 131072 /\ x \in Seq(Nat) /\ Len(Encoded(c)) <= Len(x)
                  /\ \A j \in 1 .. Len(Encoded(c)) : x[j] = Encoded(c)[j]
                BY <2>1, <2>3, <3>1, <3>6, <3>7, <3>8 DEF c
            <4>2. Decoded(x).codepoint = c /\ Decoded(x).bytes = Len(Encoded(c))
                BY <4>1, DecodesEncoded
            <4>3. QED
                BY <3>1, <3>4, <4>2
        <3> DEFINE rest == h[i + first.bytes]
        <3>10. rest = SubSeq(read, m + 1, Len(read))
            <4>1. i + l = Len(f[k]) + 1
                <5> HIDE DEF i
                <5>1. l \in Nat /\ i \in Nat /\ Len(f[k]) = i - 1 + l
                    BY <3>2
                <5> HIDE DEF l
                <5>2. QED
                    BY <5>1
            <4> HIDE DEF first
            <4>2. rest = h[Len(f[k]) + 1]
                BY <3>9, <4>1
            <4>3. QED
                BY <1>12, <3>3, <4>2
        <3>11. rest # Refused
            <4>1. \A j \in m + 1 .. Len(read) : read[j] \in Nat
                BY <1>7, <3>3, ElementOfSeq
            <4>2. SubSeq(read, m + 1, Len(read)) \in Seq(Nat)
                <5>1. m + 1 \in Int /\ Len(read) \in Int
                    BY <1>7, <3>3
                <5>2. QED
                    BY <4>1, <5>1, SubSeqProperties
            <4>3. Refused \notin Seq(Nat)
                <5>1. SUFFICES ASSUME Refused \in Seq(Nat) PROVE FALSE
                    OBVIOUS
                <5>2. Len(Refused) = 1 /\ Refused[1] = -1
                    BY DEF Refused
                <5>3. Refused[1] \in Nat
                    <6>1. 1 \in 1 .. Len(Refused)
                        BY <5>2
                    <6>2. QED
                        BY <5>1, <6>1, ElementOfSeq
                <5>4. QED
                    BY <5>2, <5>3
            <4>4. QED
                BY <3>10, <4>2, <4>3
        <3>12. h[i] = <<c>> \o rest
            <4>1. i \in 1 .. Len(bytes) + 1 /\ ~(i > Len(bytes))
                <5> HIDE DEF i
                <5>1. QED
                    BY <1>7, <3>5
            <4>2. h[i] = DecodeStep(bytes, h, i)
                BY <1>8, <4>1 DEF bytes
            <4>3. DecodeStep(bytes, h, i) = IF first.bytes = 0 THEN Refused
                                            ELSE IF rest = Refused THEN Refused ELSE <<first.codepoint>> \o rest
                BY <4>1 DEF DecodeStep
            <4> HIDE DEF first, rest
            <4>4. QED
                BY <3>9, <3>11, <4>2, <4>3
        <3>13. SubSeq(read, m, Len(read)) = <<read[m]>> \o SubSeq(read, m + 1, Len(read))
            <4>1. Len(read) \in m .. Len(read)
                BY <1>7, <3>3
            <4>2. QED
                BY <1>7, <3>3, <4>1, SubSeqRecursiveFirst
        <3> HIDE DEF first, rest, x, l
        <3>14. h[i] = SubSeq(read, m, Len(read))
            BY <3>3, <3>10, <3>12, <3>13
        <3>15. QED
            BY <3>14
    <2> HIDE DEF Agree, c
    <2>4. QED
        BY <2>2, <2>3
<1>13. Agree(0)
    <2>1. 0 \in T
        BY <1>1, <1>11
    <2>2. ASSUME NEW k \in T PROVE k + 1 \in T
        <3> HIDE DEF Agree
        <3> SUFFICES ASSUME k + 1 <= n PROVE Agree(n - (k + 1))
            OBVIOUS
        <3>1. n - k \in 1 .. n /\ (n - k) - 1 = n - (k + 1) /\ k <= n
            BY <1>1
        <3>2. Agree(n - k)
            BY <3>1
        <3> DEFINE j == n - k
        <3> HIDE DEF j
        <3>3. Agree(j - 1)
            BY <1>12, <3>1, <3>2 DEF j
        <3>4. QED
            BY <3>1, <3>3 DEF j
    <2>3. T = Nat
        <3> HIDE DEF T
        <3>1. T \in SUBSET Nat
            BY DEF T
        <3>2. QED
            BY <2>1, <2>2, <3>1, SetInduction
    <2> HIDE DEF Agree
    <2>4. Agree(n - n) /\ n - n = 0
        <3>1. n \in T /\ n <= n /\ n - n = 0
            <4> HIDE DEF T
            <4>1. QED
                BY <1>1, <2>3
        <3>2. QED
            BY <3>1
    <2>5. QED
        BY <2>4
<1>14. h[1] = read
    <2>1. f[0] = <<>> /\ g[0] = <<>>
        BY <1>5, <1>6 DEF Joins
    <2>2. Len(f[0]) + 1 = 1 /\ Len(g[0]) + 1 = 1
        BY <2>1
    <2>3. h[1] = SubSeq(read, 1, Len(read))
        BY <1>13, <2>2
    <2>4. SubSeq(read, 1, Len(read)) = read
        BY <1>7, SubSeqFull
    <2>5. QED
        BY <2>3, <2>4
<1>15. QED
    BY <1>3, <1>5, <1>6, <1>8, <1>14 DEF bytes, read, t, n

\* What is encoded is what has been read.
EncodeInv ==
    user = "utf8_encode" /\ Answered => input \in Seq(Nat) /\ result = EncodedAll(input)

LEMMA EncodeStep == EncodeInv /\ [Next]_vars => EncodeInv'
<1> SUFFICES ASSUME EncodeInv, [Next]_vars PROVE EncodeInv'
    OBVIOUS
<1>1. CASE TestUtf8Encode
    BY <1>1, TestAssumption DEF TestUtf8Encode, EncodeInv
<1>2. CASE UNCHANGED <<user, input, result, leak_amount>>
    BY <1>2 DEF EncodeInv, Answered
<1>3. CASE user' = user /\ user # "utf8_encode"
    BY <1>3 DEF EncodeInv
<1>4. QED
    <2>1. CASE TestCrc32 \/ TestIdentity \/ TestGzip \/ TestUtf8Decode \/ UnknownTest
        BY <1>3, <2>1 DEF TestCrc32, TestIdentity, TestGzip, TestUtf8Decode, UnknownTest, Running, Plain
    <2>2. CASE TestXml \/ LoadFaces
        BY <1>3, <2>2 DEF TestXml, LoadFaces, Running
    <2>3. CASE ParseXml \/ WriteGzip \/ InflateGzip \/ UNCHANGED vars
        BY <1>2, <2>3 DEF ParseXml, WriteGzip, InflateGzip, vars, callVars
    <2>4. QED
        BY <1>1, <2>1, <2>2, <2>3 DEF Next

\* Codepoints that utf8_encode writes and utf8_decode reads again (src/utf.cpp:1-87)
\* come back, whatever they are and whatever they stand next to, but for those
\* from 0x20000 on, which are left out.
THEOREM CodepointsComeBackAlways == Spec => []CodepointsComeBack
<1>1. Init => EncodeInv
    BY DEF Init, EncodeInv, Answered
<1>2. EncodeInv => CodepointsComeBack
    BY CodepointsAre DEF EncodeInv, CodepointsComeBack
<1>3. QED
    BY <1>1, <1>2, EncodeStep, PTL DEF Spec

\* The bytes from i on that can begin a character.
Beginnings(bytes, i) == { j \in i .. Len(bytes) : bytes[j] \notin 128 .. 191 }

\* One byte that begins a character is followed by bytes that do not.
LEMMA BeginningsAre ==
    ASSUME NEW bytes \in Seq(Nat), NEW i \in 1 .. Len(bytes),
           Decoded(SubSeq(bytes, i, Len(bytes))).bytes # 0
    PROVE  LET b == Decoded(SubSeq(bytes, i, Len(bytes))).bytes
           IN  /\ i + b \in i + 1 .. Len(bytes) + 1
               /\ i \notin Beginnings(bytes, i + b)
               /\ Beginnings(bytes, i) = Beginnings(bytes, i + b) \cup {i}
<1> DEFINE n == Len(bytes)
           x == SubSeq(bytes, i, n)
           b == Decoded(x).bytes
<1>1. n \in Nat
    BY LenProperties
<1>2. x \in Seq(Nat) /\ Len(x) = n - i + 1 /\ \A k \in 1 .. n - i + 1 : x[k] = bytes[i + k - 1]
    BY RestIs
<1>3. b \in 0 .. Len(x) /\ b # 0 /\ x[1] \notin 128 .. 191 /\ \A k \in 2 .. b : x[k] \in 128 .. 191
    <2> HIDE DEF x
    <2>1. QED
        BY <1>2, DecodedIs DEF x
<1> HIDE DEF n, x, b
<1>4. i \in 1 .. n
    BY DEF n
<1>5. b \in 1 .. n - i + 1
    BY <1>1, <1>2, <1>3, <1>4
<1>6. i + b \in i + 1 .. n + 1
    BY <1>1, <1>4, <1>5
<1>7. bytes[i] \notin 128 .. 191
    <2>1. 1 \in 1 .. n - i + 1 /\ i + 1 - 1 = i
        BY <1>1, <1>4
    <2>2. QED
        BY <1>2, <1>3, <2>1
<1>8. ASSUME NEW j \in i + 1 .. i + b - 1 PROVE bytes[j] \in 128 .. 191
    <2> DEFINE k == j - i + 1
    <2>1. k \in 2 .. b /\ k \in 1 .. n - i + 1 /\ i + k - 1 = j
        BY <1>1, <1>4, <1>5
    <2> HIDE DEF k
    <2>2. QED
        BY <1>2, <1>3, <2>1
<1>9. i .. n = {i} \cup (i + 1 .. i + b - 1) \cup (i + b .. n)
    BY <1>1, <1>4, <1>5
<1>10. Beginnings(bytes, i) = Beginnings(bytes, i + b) \cup {i}
    BY <1>7, <1>8, <1>9 DEF Beginnings, n
<1>11. i \notin Beginnings(bytes, i + b)
    BY <1>4, <1>5 DEF Beginnings
<1>12. QED
    BY <1>6, <1>10, <1>11 DEF n, x, b

\* A codepoint for each of them.
LEMMA OneEach ==
    ASSUME NEW bytes \in Seq(Nat), DecodedAll(bytes) # Refused
    PROVE  Len(DecodedAll(bytes)) = Cardinality(Beginnings(bytes, 1))
<1> DEFINE n == Len(bytes)
           V == { Decoded(x).codepoint : x \in Seq(Nat) }
<1>1. n \in Nat
    BY LenProperties
<1>2. PICK h : /\ DecodedAll(bytes) = h[1]
               /\ \A i \in 1 .. n + 1 : h[i] = DecodeStep(bytes, h, i)
    BY DecodedAllIs
<1> DEFINE Claim(i) == h[i] # Refused => h[i] \in Seq(V) /\ Len(h[i]) = Cardinality(Beginnings(bytes, i))
           T == { k \in Nat : \A j \in n + 1 - k .. n + 1 : j >= 1 => Claim(j) }
<1>3. \A i : IsFiniteSet(Beginnings(bytes, i)) \/ i \notin Nat
    <2>1. ASSUME NEW i \in Nat PROVE IsFiniteSet(Beginnings(bytes, i))
        <3>1. IsFiniteSet(i .. n)
            BY <1>1, FS_Interval
        <3>2. Beginnings(bytes, i) \subseteq i .. n
            BY DEF Beginnings
        <3>3. QED
            BY <3>1, <3>2, FS_Subset
    <2>2. QED
        BY <2>1
<1>4. Claim(n + 1)
    <2>1. n + 1 \in 1 .. n + 1 /\ n + 1 > n
        BY <1>1
    <2>2. h[n + 1] = <<>>
        BY <1>2, <2>1 DEF DecodeStep
    <2>3. Beginnings(bytes, n + 1) = {}
        BY <1>1 DEF Beginnings
    <2>4. <<>> \in Seq(V) /\ Len(<<>>) = 0
        OBVIOUS
    <2>5. QED
        BY <2>2, <2>3, <2>4, FS_EmptySet
<1>5. ASSUME NEW i \in 1 .. n, \A j \in i + 1 .. n + 1 : Claim(j) PROVE Claim(i)
    <2> DEFINE first == Decoded(SubSeq(bytes, i, n))
               b == first.bytes
               rest == h[i + b]
    <2>1. first.codepoint \in V
        <3>1. SubSeq(bytes, i, n) \in Seq(Nat)
            BY RestIs
        <3>2. QED
            BY <3>1
    <2>2. i \in 1 .. n + 1 /\ ~(i > n)
        BY <1>1
    <2>3. h[i] = IF b = 0 THEN Refused
                 ELSE IF rest = Refused THEN Refused ELSE <<first.codepoint>> \o rest
        BY <1>2, <2>2 DEF DecodeStep
    <2>4. CASE b = 0 \/ rest = Refused
        BY <2>3, <2>4
    <2>5. CASE b # 0 /\ rest # Refused
        <3>1. /\ i + b \in i + 1 .. n + 1
              /\ i \notin Beginnings(bytes, i + b)
              /\ Beginnings(bytes, i) = Beginnings(bytes, i + b) \cup {i}
            BY <2>5, BeginningsAre
        <3>2. rest \in Seq(V) /\ Len(rest) = Cardinality(Beginnings(bytes, i + b))
            BY <1>5, <2>5, <3>1
        <3>3. i + b \in Nat
            <4> HIDE DEF b, n
            <4>1. QED
                BY <1>1, <3>1
        <3>4. Cardinality(Beginnings(bytes, i)) = Cardinality(Beginnings(bytes, i + b)) + 1
            <4> DEFINE B == Beginnings(bytes, i + b)
            <4>1. IsFiniteSet(B) /\ i \notin B /\ Beginnings(bytes, i) = B \cup {i}
                BY <1>3, <3>1, <3>3
            <4> HIDE DEF B
            <4>2. Cardinality(B \cup {i}) = Cardinality(B) + 1
                BY <4>1, FS_AddElement
            <4>3. QED
                BY <4>1, <4>2 DEF B
        <3>5. h[i] = <<first.codepoint>> \o rest
            BY <2>3, <2>5
        <3> HIDE DEF first, rest, V
        <3>6. h[i] \in Seq(V) /\ Len(h[i]) = 1 + Len(rest)
            BY <2>1, <3>2, <3>5
        <3>7. 1 + Len(rest) = Len(rest) + 1
            BY <3>2, LenProperties
        <3>8. QED
            BY <3>2, <3>4, <3>6, <3>7
    <2>6. QED
        BY <2>4, <2>5
<1>6. T = Nat
    <2> HIDE DEF Claim
    <2>1. 0 \in T
        <3>1. \A j \in n + 1 - 0 .. n + 1 : j = n + 1
            BY <1>1
        <3>2. QED
            BY <1>4, <3>1
    <2>2. ASSUME NEW k \in T PROVE k + 1 \in T
        <3> SUFFICES ASSUME NEW j \in n + 1 - (k + 1) .. n + 1, j >= 1 PROVE Claim(j)
            OBVIOUS
        <3>1. CASE j \in n + 1 - k .. n + 1
            BY <3>1
        <3>2. CASE j \notin n + 1 - k .. n + 1
            <4> HIDE DEF n
            <4>1. j \in 1 .. n /\ j + 1 = n + 1 - k
                BY <1>1, <3>2
            <4>2. \A m \in j + 1 .. n + 1 : m >= 1 /\ m \in n + 1 - k .. n + 1
                BY <1>1, <4>1
            <4>3. QED
                BY <1>5, <4>1, <4>2
        <3>3. QED
            BY <3>1, <3>2
    <2>3. T \in SUBSET Nat
        OBVIOUS
    <2> HIDE DEF T
    <2>4. QED
        BY <2>1, <2>2, <2>3, SetInduction
<1>7. Claim(1)
    <2> HIDE DEF Claim, n
    <2>1. n \in T /\ 1 \in n + 1 - n .. n + 1
        <3> HIDE DEF T
        <3>1. QED
            BY <1>1, <1>6
    <2>2. QED
        BY <2>1
<1>8. QED
    BY <1>2, <1>7

\* What is read is what has been decoded.
DecodeInv ==
    user = "utf8_decode" /\ Answered =>
        /\ input \in Seq(Nat)
        /\ result = IF DecodedAll(input) = Refused THEN NoResult ELSE DecodedAll(input)

LEMMA DecodeInvStep == DecodeInv /\ [Next]_vars => DecodeInv'
<1> SUFFICES ASSUME DecodeInv, [Next]_vars PROVE DecodeInv'
    OBVIOUS
<1>1. CASE TestUtf8Decode
    <2>1. Streams \subseteq Seq(Nat)
        <3>1. ASSUME NEW bytes \in Seq(0 .. 255) PROVE bytes \in Seq(Nat)
            <4>1. /\ Len(bytes) \in Nat /\ \A i \in 1 .. Len(bytes) : bytes[i] \in 0 .. 255
                  /\ bytes = [i \in 1 .. Len(bytes) |-> bytes[i]]
                BY LenProperties, ElementOfSeq
            <4>2. \A i \in 1 .. Len(bytes) : bytes[i] \in Nat
                <5>1. \A a \in 0 .. 255 : a \in Nat
                    OBVIOUS
                <5>2. QED
                    BY <4>1, <5>1, Zenon
            <4>3. QED
                BY <4>1, <4>2, SeqDef
        <3>2. QED
            BY <3>1, TestAssumption
    <2>2. QED
        BY <1>1, <2>1 DEF TestUtf8Decode, DecodeInv
<1>2. CASE UNCHANGED <<user, input, result, leak_amount>>
    BY <1>2 DEF DecodeInv, Answered
<1>3. CASE user' = user /\ user # "utf8_decode"
    BY <1>3 DEF DecodeInv
<1>4. QED
    <2>1. CASE TestCrc32 \/ TestIdentity \/ TestGzip \/ TestUtf8Encode \/ UnknownTest
        BY <1>3, <2>1 DEF TestCrc32, TestIdentity, TestGzip, TestUtf8Encode, UnknownTest, Running, Plain
    <2>2. CASE TestXml \/ LoadFaces
        BY <1>3, <2>2 DEF TestXml, LoadFaces, Running
    <2>3. CASE ParseXml \/ WriteGzip \/ InflateGzip \/ UNCHANGED vars
        BY <1>2, <2>3 DEF ParseXml, WriteGzip, InflateGzip, vars, callVars
    <2>4. QED
        BY <1>1, <2>1, <2>2, <2>3 DEF Next

\* What utf8_decode (src/utf.cpp:1-45) accepts falls into characters, for every
\* stream of bytes: one codepoint for each byte that can begin a character.
THEOREM OneForEachBeginningAlways == Spec => []OneForEachBeginning
<1>1. Init => DecodeInv
    BY DEF Init, DecodeInv, Answered
<1>2. DecodeInv => OneForEachBeginning
    <2> SUFFICES ASSUME DecodeInv, user = "utf8_decode", Answered, result # NoResult
                 PROVE  Len(result) = Cardinality({ i \in 1 .. Len(input) : input[i] \notin 128 .. 191 })
        BY DEF OneForEachBeginning
    <2>1. input \in Seq(Nat) /\ DecodedAll(input) # Refused /\ result = DecodedAll(input)
        BY DEF DecodeInv
    <2>2. QED
        BY <2>1, OneEach DEF Beginnings
<1>3. QED
    BY <1>1, <1>2, DecodeInvStep, PTL DEF Spec

-----------------------------------------------------------------------------
(* Recursion.                                                              *)

\* What is gathered from a sequence one element after another.
Gathering(f, T, x, n, step) ==
    /\ f \in [0 .. n -> T]
    /\ f[0] = x
    /\ \A i \in 1 .. n : f[i] = step[<<i, f[i - 1]>>]

LEMMA FoldExists ==
    ASSUME NEW T, NEW x, x \in T, NEW n, n \in Nat, NEW step, step \in [(1 .. n) \X T -> T]
    PROVE  \E f : Gathering(f, T, x, n, step)
<1> DEFINE next == [p \in Nat \X T |-> IF p[1] + 1 \in 1 .. n THEN step[<<p[1] + 1, p[2]>>] ELSE p[2]]
<1>1. next \in [Nat \X T -> T]
    <2> SUFFICES ASSUME NEW p \in Nat \X T
                 PROVE  (IF p[1] + 1 \in 1 .. n THEN step[<<p[1] + 1, p[2]>>] ELSE p[2]) \in T
        OBVIOUS
    <2>1. p[2] \in T
        OBVIOUS
    <2>2. ASSUME p[1] + 1 \in 1 .. n PROVE step[<<p[1] + 1, p[2]>>] \in T
        BY <2>1, <2>2
    <2>3. QED
        BY <2>1, <2>2
<1>2. PICK f : Unfolds(f, T, x, next, n)
    <2> HIDE DEF next
    <2>1. QED
        BY <1>1, RecursionExists, Zenon
<1>3. f \in [0 .. n -> T] /\ f[0] = x
    BY <1>2 DEF Unfolds
<1>4. ASSUME NEW i \in 1 .. n PROVE f[i] = step[<<i, f[i - 1]>>]
    <2>1. i - 1 \in 0 .. n - 1 /\ (i - 1) + 1 = i /\ i - 1 \in Nat /\ i - 1 \in 0 .. n
        OBVIOUS
    <2>2. f[(i - 1) + 1] = next[<<i - 1, f[i - 1]>>]
        BY <1>2, <2>1 DEF Unfolds
    <2>3. <<i - 1, f[i - 1]>> \in Nat \X T
        BY <1>3, <2>1
    <2>4. next[<<i - 1, f[i - 1]>>] = step[<<i, f[i - 1]>>]
        BY <2>1, <2>3
    <2>5. QED
        BY <2>1, <2>2, <2>4
<1>5. QED
    BY <1>3, <1>4 DEF Gathering

\* What is gathered from a tree whose nodes point to later ones, or to none.
Walking(f, T, x, total, step, down, along) ==
    /\ f \in [0 .. total -> T]
    /\ f[0] = x
    /\ \A n \in 1 .. total : f[n] = step[<<n, f[down[n]], f[along[n]]>>]

LEMMA WalkExists ==
    ASSUME NEW T, NEW x, x \in T, NEW total, total \in Nat,
           NEW step, step \in [(1 .. total) \X T \X T -> T],
           NEW down, down \in [1 .. total -> 0 .. total], NEW along, along \in [1 .. total -> 0 .. total],
           \A n \in 1 .. total : down[n] \in {0} \cup n + 1 .. total /\ along[n] \in {0} \cup n + 1 .. total
    PROVE  \E f : Walking(f, T, x, total, step, down, along)
<1> DEFINE Good(k, f) == f[0] = x /\ \A n \in 1 .. total : n > total - k => f[n] = step[<<n, f[down[n]], f[along[n]]>>]
           K == { k \in Nat : k <= total => \E f \in [0 .. total -> T] : Good(k, f) }
<1>1. 0 \in K
    <2> DEFINE f == [n \in 0 .. total |-> x]
    <2>1. f \in [0 .. total -> T] /\ Good(0, f)
        OBVIOUS
    <2>2. QED
        BY <2>1
<1>2. ASSUME NEW k \in K PROVE k + 1 \in K
    <2> SUFFICES ASSUME k + 1 <= total PROVE \E f \in [0 .. total -> T] : Good(k + 1, f)
        OBVIOUS
    <2>1. PICK f \in [0 .. total -> T] : Good(k, f)
        OBVIOUS
    <2> DEFINE m == total - k
               v == step[<<m, f[down[m]], f[along[m]]>>]
               g == [f EXCEPT ![m] = v]
    <2>2. m \in 1 .. total /\ m \in 0 .. total /\ m # 0
        OBVIOUS
    <2>3. v \in T
        <3> HIDE DEF m
        <3>1. down[m] \in 0 .. total /\ along[m] \in 0 .. total
            BY <2>2
        <3>2. QED
            BY <2>2, <3>1
    <2>4. \A n \in 1 .. total : n > total - (k + 1) <=> n >= m
        OBVIOUS
    <2>5. \A n \in 1 .. total : n > total - k <=> n > m
        OBVIOUS
    <2> HIDE DEF m, v
    <2>6. g \in [0 .. total -> T] /\ g[m] = v /\ \A n \in 0 .. total : n # m => g[n] = f[n]
        BY <2>2, <2>3
    <2> HIDE DEF g
    <2>7. ASSUME NEW n \in 1 .. total, n >= m PROVE g[n] = step[<<n, g[down[n]], g[along[n]]>>]
        <3>1. down[n] \in 0 .. total /\ along[n] \in 0 .. total /\ down[n] # m /\ along[n] # m
            BY <2>2, <2>7
        <3>2. g[down[n]] = f[down[n]] /\ g[along[n]] = f[along[n]]
            BY <2>6, <3>1
        <3>3. CASE n = m
            BY <2>6, <3>2, <3>3 DEF v
        <3>4. CASE n # m
            <4>1. n > total - k /\ n \in 0 .. total
                <5>1. n > m /\ n \in 0 .. total
                    BY ONLY <2>2, <2>7, <3>4, total \in Nat, n \in 1 .. total
                <5>2. QED
                    BY <2>5, <5>1, Zenon
            <4>2. f[n] = step[<<n, f[down[n]], f[along[n]]>>]
                BY <2>1, <4>1
            <4>3. QED
                BY <2>6, <3>2, <3>4, <4>1, <4>2
        <3>5. QED
            BY <3>3, <3>4
    <2>8. g[0] = x
        BY <2>1, <2>2, <2>6
    <2>9. Good(k + 1, g)
        BY <2>4, <2>7, <2>8
    <2>10. QED
        BY <2>6, <2>9
<1>3. K = Nat
    <2> HIDE DEF K
    <2>1. K \in SUBSET Nat
        BY DEF K
    <2>2. QED
        BY <1>1, <1>2, <2>1, SetInduction
<1>4. PICK f \in [0 .. total -> T] : Good(total, f)
    <2>1. total \in K /\ total <= total
        <3> HIDE DEF K
        <3>1. QED
            BY <1>3
    <2> HIDE DEF Good
    <2>2. QED
        BY <2>1
<1>5. \A n \in 1 .. total : n > total - total
    OBVIOUS
<1>6. QED
    BY <1>4, <1>5 DEF Walking

-----------------------------------------------------------------------------
(* Push allocators.                                                        *)

AllPages(S) == Seq([size : Nat, cells : Seq(S)])

Filled(pages) == \A i \in 1 .. Len(pages) : Len(pages[i].cells) \in 1 .. pages[i].size

Slices == [page : Nat, start : Nat, length : Nat]

\* The streams into an allocator.
AllStreams(S) == [pages : AllPages(S), start : Nat]

Streaming(stream) == Filled(stream.pages) /\ stream.start <= Position(stream.pages)

LEMMA NewestPage ==
    ASSUME NEW S, NEW pages \in AllPages(S), Filled(pages)
    PROVE  /\ Len(pages) \in Nat
           /\ Position(pages) \in Nat /\ PageSize(pages) \in Nat
           /\ pages = NoPages => Len(pages) = 0 /\ Position(pages) = 0 /\ PageSize(pages) = 0
           /\ pages # NoPages =>
                 /\ Len(pages) \in 1 .. Len(pages)
                 /\ Last(pages) = pages[Len(pages)] /\ Last(pages) \in [size : Nat, cells : Seq(S)]
                 /\ Position(pages) = Len(Last(pages).cells) /\ PageSize(pages) = Last(pages).size
                 /\ Position(pages) \in 1 .. PageSize(pages)
<1>1. Len(pages) \in Nat /\ \A i \in 1 .. Len(pages) : pages[i] \in [size : Nat, cells : Seq(S)]
    BY LenProperties, ElementOfSeq DEF AllPages
<1>2. CASE pages = NoPages
    BY <1>1, <1>2 DEF NoPages, Position, PageSize
<1>3. CASE pages # NoPages
    <2> DEFINE n == Len(pages)
               page == pages[n]
    <2>1. n \in 1 .. n
        <3>1. n # 0
            BY <1>3, EmptySeq DEF NoPages, AllPages
        <3> HIDE DEF n
        <3>2. QED
            BY <1>1, <3>1 DEF n
    <2>2. page \in [size : Nat, cells : Seq(S)] /\ Last(pages) = page
        BY <1>1, <2>1 DEF Last
    <2>3. Len(page.cells) \in 1 .. page.size
        BY <2>1 DEF Filled
    <2>4. Position(pages) = Len(page.cells) /\ PageSize(pages) = page.size
        BY <1>3, <2>2 DEF Position, PageSize
    <2> HIDE DEF n, page
    <2>5. page.size \in Nat /\ Len(page.cells) \in Nat
        BY <2>2, LenProperties
    <2>6. QED
        BY <1>1, <1>3, <2>1, <2>2, <2>3, <2>4, <2>5 DEF n, page
<1>4. QED
    BY <1>2, <1>3

LEMMA StartIs ==
    ASSUME NEW S, NEW pages \in AllPages(S), Filled(pages)
    PROVE  StartStream(pages) \in AllStreams(S) /\ Streaming(StartStream(pages)) /\ StartStream(pages).pages = pages
<1>1. Position(pages) \in Nat /\ Position(pages) <= Position(pages)
    BY NewestPage
<1>2. QED
    BY <1>1 DEF StartStream, AllStreams, Streaming

LEMMA SliceIs ==
    ASSUME NEW S, NEW stream \in AllStreams(S), Streaming(stream)
    PROVE  FinishStream(stream) \in Slices /\ FinishStream(stream).page = Len(stream.pages)
<1>1. stream.pages \in AllPages(S) /\ stream.start \in Nat
    BY DEF AllStreams
<1>2. Len(stream.pages) \in Nat /\ Position(stream.pages) \in Nat /\ stream.start <= Position(stream.pages)
    BY <1>1, NewestPage DEF Streaming
<1> DEFINE p == Position(stream.pages)
           l == Len(stream.pages)
<1> HIDE DEF p, l
<1>3. p - stream.start \in Nat
    BY <1>1, <1>2 DEF p
<1>4. FinishStream(stream) = [page |-> l, start |-> stream.start, length |-> p - stream.start]
    BY DEF FinishStream, p, l
<1>5. l \in Nat
    BY <1>2 DEF l
<1>6. QED
    BY <1>1, <1>3, <1>4, <1>5 DEF Slices, l

\* A page more, with what has been pushed so far and what is pushed now.
LEMMA NewPageIs ==
    ASSUME NEW S, NEW pages \in AllPages(S), Filled(pages),
           NEW cells \in Seq(S), NEW hint \in Nat, Len(cells) \in 1 .. hint
    PROVE  /\ NewPage(pages, hint, cells) \in AllPages(S) /\ Filled(NewPage(pages, hint, cells))
           /\ Len(NewPage(pages, hint, cells)) = Len(pages) + 1
<1> DEFINE n == Len(pages)
           size == IF 2 * PageSize(pages) > hint THEN 2 * PageSize(pages) ELSE hint
           page == [size |-> size, cells |-> cells]
           new == NewPage(pages, hint, cells)
<1>1. n \in Nat /\ PageSize(pages) \in Nat
    BY NewestPage
<1>2. size \in Nat /\ size >= hint
    BY <1>1
<1>3. new = Append(pages, page)
    BY DEF NewPage
<1> HIDE DEF size, new
<1>4. page \in [size : Nat, cells : Seq(S)] /\ Len(page.cells) \in 1 .. page.size
    BY <1>2
<1> HIDE DEF page
<1>5. /\ new \in AllPages(S) /\ Len(new) = n + 1
      /\ \A i \in 1 .. n : new[i] = pages[i]
      /\ new[n + 1] = page
    BY <1>3, <1>4, AppendProperties DEF AllPages
<1>6. Filled(new)
    <2> SUFFICES ASSUME NEW i \in 1 .. Len(new) PROVE Len(new[i].cells) \in 1 .. new[i].size
        BY DEF Filled
    <2>1. i \in 1 .. n \/ i = n + 1
        <3> HIDE DEF n
        <3>1. QED
            BY <1>1, <1>5
    <2>2. CASE i = n + 1
        BY <1>4, <1>5, <2>2
    <2>3. CASE i \in 1 .. n
        BY <1>5, <2>3 DEF Filled
    <2>4. QED
        BY <2>1, <2>2, <2>3
<1>7. QED
    BY <1>5, <1>6 DEF new, n

\* What is pushed fits on the page it is put on, and no page is lost.
LEMMA PushIs ==
    ASSUME NEW S, NEW stream \in AllStreams(S), Streaming(stream), NEW data \in Seq(S), data # <<>>
    PROVE  /\ StreamPush(stream, data) \in AllStreams(S) /\ Streaming(StreamPush(stream, data))
           /\ Len(StreamPush(stream, data).pages) >= Len(stream.pages)
<1> DEFINE pages == stream.pages
           n == Len(pages)
           d == Len(data)
           room == PageSize(pages)
           used == Position(pages)
           new == StreamPush(stream, data)
<1>1. pages \in AllPages(S) /\ Filled(pages) /\ stream.start \in Nat /\ stream.start <= used
    BY DEF AllStreams, Streaming
<1>2. d \in Nat /\ d >= 1
    <2>1. d \in Nat /\ d # 0
        BY LenProperties, EmptySeq
    <2> HIDE DEF d
    <2>2. QED
        BY <2>1
<1>3. /\ n \in Nat /\ used \in Nat /\ room \in Nat
      /\ pages = NoPages => n = 0 /\ used = 0 /\ room = 0
      /\ pages # NoPages =>
            /\ n \in 1 .. n
            /\ Last(pages) = pages[n] /\ Last(pages) \in [size : Nat, cells : Seq(S)]
            /\ used = Len(Last(pages).cells) /\ room = Last(pages).size
            /\ used \in 1 .. room
    BY <1>1, NewestPage
<1>4. CASE HasRoom(pages, data)
    <2>1. new = [stream EXCEPT !.pages[Len(pages)].cells = @ \o data]
        BY <1>4 DEF StreamPush
    <2>2. room - used >= d /\ pages # NoPages
        <3>1. room - used >= d
            BY <1>4 DEF HasRoom
        <3> HIDE DEF room, used, d
        <3>2. QED
            BY <1>2, <1>3, <3>1
    <2> DEFINE page == pages[n]
               more == page.cells \o data
               page2 == [page EXCEPT !.cells = more]
               pages2 == [pages EXCEPT ![n] = page2]
    <2>3. new = [stream EXCEPT !.pages = pages2]
        BY <2>1
    <2>4. page \in [size : Nat, cells : Seq(S)] /\ Len(page.cells) = used /\ page.size = room /\ n \in 1 .. n
        BY <1>3, <2>2
    <2>5. more \in Seq(S) /\ Len(more) = used + d
        <3> DEFINE cells == page.cells
        <3>1. cells \in Seq(S)
            BY <2>4
        <3> HIDE DEF cells
        <3>2. cells \o data \in Seq(S) /\ Len(cells \o data) = Len(cells) + Len(data)
            BY <3>1, ConcatProperties
        <3>3. QED
            BY <2>4, <3>2 DEF cells
    <2>6. used + d \in 1 .. room
        <3> HIDE DEF room, used, d
        <3>1. QED
            BY <1>2, <1>3, <2>2
    <2> HIDE DEF used, d, room, more
    <2>7. page2 \in [size : Nat, cells : Seq(S)] /\ page2.cells = more /\ page2.size = room
        BY <2>4, <2>5
    <2> HIDE DEF page2
    <2>8. /\ pages2 \in AllPages(S) /\ Len(pages2) = n /\ pages2[n] = page2
          /\ \A i \in 1 .. n : i # n => pages2[i] = pages[i]
        <3>1. pages \in Seq([size : Nat, cells : Seq(S)])
            BY <1>1 DEF AllPages
        <3> HIDE DEF pages
        <3>2. QED
            BY <2>4, <2>7, <3>1, ExceptSeq DEF AllPages
    <2> HIDE DEF pages2
    <2>9. Filled(pages2)
        <3> SUFFICES ASSUME NEW i \in 1 .. n PROVE Len(pages2[i].cells) \in 1 .. pages2[i].size
            BY <2>8 DEF Filled
        <3>1. CASE i = n
            BY <2>5, <2>6, <2>7, <2>8, <3>1
        <3>2. CASE i # n
            BY <1>1, <2>8, <3>2 DEF Filled
        <3>3. QED
            BY <3>1, <3>2
    <2>10. Position(pages2) = used + d
        <3>1. pages2 # NoPages
            <4>1. Len(pages2) # 0
                <5> HIDE DEF n
                <5>1. QED
                    BY <1>3, <2>4, <2>8
            <4>2. QED
                BY <4>1 DEF NoPages
        <3>2. Last(pages2) = page2
            BY <2>8 DEF Last
        <3>3. QED
            BY <2>5, <2>7, <3>1, <3>2 DEF Position
    <2>11. new \in AllStreams(S) /\ new.pages = pages2 /\ new.start = stream.start
        <3> HIDE DEF new
        <3>1. QED
            BY <2>3, <2>8 DEF AllStreams
    <2>12. stream.start <= used + d
        BY <1>1, <1>2, <1>3 DEF used, d
    <2>13. n >= n
        BY <1>3
    <2> HIDE DEF new
    <2>14. QED
        BY <2>8, <2>9, <2>10, <2>11, <2>12, <2>13 DEF Streaming, new
<1>5. CASE ~HasRoom(pages, data) /\ pages = NoPages
    <2>1. new = [pages |-> NewPage(pages, d, data), start |-> 0]
        BY <1>5 DEF StreamPush
    <2>2. d \in 1 .. d
        <3> HIDE DEF d
        <3>1. QED
            BY <1>2
    <2> DEFINE pages2 == NewPage(pages, d, data)
    <2>3. pages2 \in AllPages(S) /\ Filled(pages2) /\ Len(pages2) = n + 1
        BY <1>1, <1>2, <2>2, NewPageIs
    <2> HIDE DEF pages2
    <2>4. 0 <= Position(pages2)
        <3>1. Position(pages2) \in Nat
            BY <2>3, NewestPage
        <3>2. QED
            BY <3>1
    <2>5. n + 1 >= n
        <3> HIDE DEF n
        <3>1. QED
            BY <1>3
    <2>6. new = [pages |-> pages2, start |-> 0]
        BY <2>1 DEF pages2
    <2> HIDE DEF new, n
    <2>7. QED
        BY <2>3, <2>4, <2>5, <2>6 DEF AllStreams, Streaming, new, n
<1>6. CASE ~HasRoom(pages, data) /\ pages # NoPages
    <2> DEFINE prefix == SubSeq(Last(pages).cells, stream.start + 1, used)
               hint == SizeHint(prefix, data)
               pages2 == NewPage(pages, hint, prefix \o data)
    <2>1. new = [pages |-> pages2, start |-> 0]
        BY <1>6 DEF StreamPush, StartOnNewPage
    <2>2. prefix \in Seq(S)
        <3> DEFINE cells == Last(pages).cells
                   first == stream.start + 1
        <3>1. cells \in Seq(S) /\ used = Len(cells)
            BY <1>3, <1>6
        <3> HIDE DEF cells, used
        <3>2. first \in Int /\ used \in Int
            BY <1>1, <1>3
        <3>3. \A i \in first .. used : cells[i] \in S
            <4>1. \A i \in first .. used : i \in 1 .. used
                BY <1>1, <1>3
            <4>2. QED
                BY <3>1, <4>1, ElementOfSeq
        <3> HIDE DEF first
        <3>4. SubSeq(cells, first, used) \in Seq(S)
            BY <3>2, <3>3, SubSeqProperties
        <3>5. QED
            BY <3>4 DEF cells, first
    <2> HIDE DEF prefix
    <2>3. prefix \o data \in Seq(S) /\ Len(prefix \o data) = Len(prefix) + Len(data)
        BY <2>2, ConcatProperties
    <2>4. hint \in Nat /\ Len(prefix \o data) \in 1 .. hint
        <3> DEFINE p == Len(prefix)
        <3>1. p \in Nat
            BY <2>2, LenProperties
        <3>2. hint = p + d /\ Len(prefix \o data) = p + d
            BY <2>3 DEF SizeHint
        <3> HIDE DEF p, d, hint
        <3>3. p + d \in Nat /\ p + d \in 1 .. p + d
            BY <1>2, <3>1
        <3>4. QED
            BY <3>2, <3>3
    <2>5. pages2 \in AllPages(S) /\ Filled(pages2) /\ Len(pages2) = n + 1
        <3> HIDE DEF hint
        <3>1. QED
            BY <1>1, <2>3, <2>4, NewPageIs
    <2> HIDE DEF pages2
    <2>6. 0 <= Position(pages2)
        <3>1. Position(pages2) \in Nat
            BY <2>5, NewestPage
        <3>2. QED
            BY <3>1
    <2>7. n + 1 >= n
        <3> HIDE DEF n
        <3>1. QED
            BY <1>3
    <2> HIDE DEF new, n
    <2>8. QED
        BY <2>1, <2>5, <2>6, <2>7 DEF AllStreams, Streaming, new, n
<1>7. QED
    BY <1>4, <1>5, <1>6

\* The streams that go on from some pages.
StreamsFrom(S, pages) ==
    { stream \in AllStreams(S) : Streaming(stream) /\ Len(stream.pages) >= Len(pages) }

LEMMA FromIs ==
    ASSUME NEW S, NEW pages \in AllPages(S), Filled(pages)
    PROVE  /\ StartStream(pages) \in StreamsFrom(S, pages)
           /\ \A stream \in StreamsFrom(S, pages) : \A data \in Seq(S) \ {<<>>} :
                  StreamPush(stream, data) \in StreamsFrom(S, pages)
<1>1. Len(pages) \in Nat /\ Len(pages) >= Len(pages)
    BY NewestPage
<1>2. StartStream(pages) \in StreamsFrom(S, pages)
    BY <1>1, StartIs DEF StreamsFrom
<1>3. ASSUME NEW stream \in StreamsFrom(S, pages), NEW data \in Seq(S), data # <<>>
      PROVE  StreamPush(stream, data) \in StreamsFrom(S, pages)
    <2> DEFINE new == StreamPush(stream, data)
    <2>1. stream \in AllStreams(S) /\ Streaming(stream) /\ Len(stream.pages) >= Len(pages)
        BY DEF StreamsFrom
    <2>2. new \in AllStreams(S) /\ Streaming(new) /\ Len(new.pages) >= Len(stream.pages)
        BY <1>3, <2>1, PushIs
    <2> HIDE DEF new
    <2>3. Len(new.pages) \in Nat /\ Len(stream.pages) \in Nat
        <3>1. /\ new.pages \in AllPages(S) /\ Filled(new.pages)
              /\ stream.pages \in AllPages(S) /\ Filled(stream.pages)
            BY <2>1, <2>2 DEF AllStreams, Streaming
        <3>2. QED
            BY <3>1, NewestPage
    <2>4. Len(new.pages) >= Len(pages)
        <3>1. \A a, b, c \in Nat : a >= b /\ b >= c => a >= c
            OBVIOUS
        <3>2. QED
            BY <1>1, <2>1, <2>2, <2>3, <3>1
    <2>5. new \in StreamsFrom(S, pages)
        BY <2>2, <2>4 DEF StreamsFrom
    <2>6. QED
        BY <2>5 DEF new
<1>4. QED
    BY <1>2, <1>3

\* Pieces that are streamed one by one.
LEMMA TextUntilIs ==
    ASSUME NEW pages \in AllPages(STRING), Filled(pages), NEW text \in Seq(Pieces)
    PROVE  TextUntil(pages, text) \in StreamsFrom(STRING, pages)
<1> DEFINE T == StreamsFrom(STRING, pages)
           x == StartStream(pages)
           n == Len(text)
           step == [q \in (1 .. n) \X T |-> StreamPush(q[2], text[q[1]])]
           Reads(f) == f = [i \in 0 .. n |-> IF i = 0 THEN x ELSE StreamPush(f[i - 1], text[i])]
           read == CHOOSE f : Reads(f)
<1>1. n \in Nat /\ \A i \in 1 .. n : text[i] \in Seq(STRING) \ {<<>>}
    BY LenProperties, ElementOfSeq DEF Pieces
<1>2. x \in T /\ \A stream \in T : \A data \in Seq(STRING) \ {<<>>} : StreamPush(stream, data) \in T
    BY FromIs
<1> HIDE DEF T, x, n
<1>3. step \in [(1 .. n) \X T -> T]
    BY <1>1, <1>2
<1>4. PICK f : /\ f \in [0 .. n -> T] /\ f[0] = x
                 /\ \A i \in 1 .. n : f[i] = step[<<i, f[i - 1]>>]
    <2> HIDE DEF step
    <2>1. PICK f : Gathering(f, T, x, n, step)
        BY <1>1, <1>2, <1>3, FoldExists, Zenon
    <2>2. QED
        BY <2>1 DEF Gathering
<1>5. \A i \in 1 .. n : i - 1 \in 0 .. n
    BY <1>1
<1>6. Reads(f)
    <2>1. ASSUME NEW i \in 0 .. n PROVE f[i] = IF i = 0 THEN x ELSE StreamPush(f[i - 1], text[i])
        <3>1. CASE i = 0
            BY <1>4, <3>1
        <3>2. CASE i # 0
            <4>1. i \in 1 .. n
                BY <1>1, <3>2
            <4>2. <<i, f[i - 1]>> \in (1 .. n) \X T
                BY <1>4, <1>5, <4>1
            <4>3. f[i] = step[<<i, f[i - 1]>>]
                BY <1>4, <4>1
            <4>4. QED
                BY <3>2, <4>2, <4>3
        <3>3. QED
            BY <3>1, <3>2
    <2> HIDE DEF step
    <2>2. QED
        BY <1>4, <2>1
<1>7. Reads(read)
    <2> HIDE DEF Reads
    <2>1. QED
        BY <1>6
<1>8. TextUntil(pages, text) = read[n]
    BY DEF TextUntil, x, n
<1> HIDE DEF read
<1>9. read[0] = x /\ \A i \in 1 .. n : read[i] = StreamPush(read[i - 1], text[i])
    <2>1. 0 \in 0 .. n /\ \A i \in 1 .. n : i \in 0 .. n /\ i # 0
        BY <1>1
    <2>2. QED
        BY <1>7, <2>1
<1> HIDE DEF Reads
<1> DEFINE K == { k \in Nat : k <= n => read[k] \in T }
<1>10. 0 \in K
    BY <1>2, <1>9
<1>11. ASSUME NEW k \in K PROVE k + 1 \in K
    <2> SUFFICES ASSUME k + 1 <= n PROVE read[k + 1] \in T
        OBVIOUS
    <2>1. k <= n /\ k + 1 \in 1 .. n /\ (k + 1) - 1 = k
        BY <1>1
    <2>2. read[k] \in T
        BY <2>1
    <2>3. read[k + 1] = StreamPush(read[k], text[k + 1])
        BY <1>9, <2>1
    <2>4. QED
        BY <1>1, <1>2, <2>1, <2>2, <2>3
<1>12. K = Nat
    <2> HIDE DEF K
    <2>1. K \in SUBSET Nat
        BY DEF K
    <2>2. QED
        BY <1>10, <1>11, <2>1, SetInduction
<1>13. read[n] \in T
    <2>1. n \in K /\ n <= n
        <3> HIDE DEF K
        <3>1. QED
            BY <1>1, <1>12
    <2>2. QED
        BY <2>1
<1>14. QED
    BY <1>8, <1>13 DEF T

\* An attribute as it is stored.
Slots == [key : STRING, value : Slices]

Lists == Seq([key : STRING, value : Seq(Pieces)])

StorageInv ==
    /\ texts \in AllPages(STRING) /\ Filled(texts)
    /\ attributes \in AllPages(Slots) /\ Filled(attributes)

\* What has been read of a list.
ReadsFrom(some, others) ==
    { read \in [texts : AllPages(STRING), stream : StreamsFrom(Slots, others)] :
          Filled(read.texts) /\ Len(read.texts) >= Len(some) }

LEMMA ReadAttributeIs ==
    ASSUME NEW some \in AllPages(STRING), Filled(some), NEW others \in AllPages(Slots), Filled(others),
           NEW read \in ReadsFrom(some, others), NEW attribute \in [key : STRING, value : Seq(Pieces)]
    PROVE  ReadAttribute(read, attribute) \in ReadsFrom(some, others)
<1> DEFINE value == TextUntil(read.texts, attribute.value)
           slot == [key |-> attribute.key, value |-> FinishStream(value)]
           stream == StreamPush(read.stream, <<slot>>)
           new == ReadAttribute(read, attribute)
<1>1. /\ read.texts \in AllPages(STRING) /\ Filled(read.texts) /\ Len(read.texts) >= Len(some)
      /\ read.stream \in StreamsFrom(Slots, others)
      /\ attribute.key \in STRING /\ attribute.value \in Seq(Pieces)
    BY DEF ReadsFrom
<1>2. value \in StreamsFrom(STRING, read.texts)
    BY <1>1, TextUntilIs
<1>3. new = [texts |-> value.pages, stream |-> stream]
    BY DEF ReadAttribute
<1> HIDE DEF value, new
<1>4. /\ value \in AllStreams(STRING) /\ Streaming(value) /\ Len(value.pages) >= Len(read.texts)
      /\ value.pages \in AllPages(STRING) /\ Filled(value.pages)
    BY <1>2 DEF StreamsFrom, Streaming, AllStreams
<1>5. slot \in Slots
    <2>1. FinishStream(value) \in Slices
        BY <1>4, SliceIs
    <2>2. QED
        BY <1>1, <2>1 DEF Slots
<1> HIDE DEF slot
<1>6. stream \in StreamsFrom(Slots, others)
    <2>1. <<slot>> \in Seq(Slots) \ {<<>>}
        BY <1>5
    <2>2. QED
        BY <1>1, <2>1, FromIs
<1> HIDE DEF stream
<1>7. Len(value.pages) >= Len(some)
    <2>1. Len(value.pages) \in Nat /\ Len(read.texts) \in Nat /\ Len(some) \in Nat
        BY <1>1, <1>4, NewestPage
    <2>2. \A a, b, c \in Nat : a >= b /\ b >= c => a >= c
        OBVIOUS
    <2>3. QED
        BY <1>1, <1>4, <2>1, <2>2
<1>8. new \in ReadsFrom(some, others)
    BY <1>3, <1>4, <1>6, <1>7 DEF ReadsFrom
<1>9. QED
    BY <1>8 DEF new

LEMMA ReadAttributesIs ==
    ASSUME StorageInv, NEW list \in Lists
    PROVE  ReadAttributes(list) \in ReadsFrom(texts, attributes)
<1> DEFINE T == ReadsFrom(texts, attributes)
           x == [texts |-> texts, stream |-> StartStream(attributes)]
           n == Len(list)
           step == [q \in (1 .. n) \X T |-> ReadAttribute(q[2], list[q[1]])]
           Reads(f) == f = [i \in 0 .. n |-> IF i = 0 THEN x ELSE ReadAttribute(f[i - 1], list[i])]
           read == CHOOSE f : Reads(f)
<1>1. n \in Nat /\ \A i \in 1 .. n : list[i] \in [key : STRING, value : Seq(Pieces)]
    BY LenProperties, ElementOfSeq DEF Lists
<1>2. x \in T
    <2>1. StartStream(attributes) \in StreamsFrom(Slots, attributes)
        BY FromIs DEF StorageInv
    <2>2. Len(texts) >= Len(texts)
        <3>1. Len(texts) \in Nat
            BY NewestPage DEF StorageInv
        <3>2. QED
            BY <3>1
    <2>3. QED
        BY <2>1, <2>2 DEF ReadsFrom, StorageInv
<1>3. \A q \in T : \A attribute \in [key : STRING, value : Seq(Pieces)] : ReadAttribute(q, attribute) \in T
    BY ReadAttributeIs DEF StorageInv
<1>4. ReadAttributes(list) = read[n]
    BY DEF ReadAttributes
<1> HIDE DEF T, x, n
<1>5. step \in [(1 .. n) \X T -> T]
    BY <1>1, <1>3
<1>6. PICK f : /\ f \in [0 .. n -> T] /\ f[0] = x
                 /\ \A i \in 1 .. n : f[i] = step[<<i, f[i - 1]>>]
    <2> HIDE DEF step
    <2>1. PICK f : Gathering(f, T, x, n, step)
        BY <1>1, <1>2, <1>5, FoldExists, Zenon
    <2>2. QED
        BY <2>1 DEF Gathering
<1>7. \A i \in 1 .. n : i - 1 \in 0 .. n
    BY <1>1
<1>8. Reads(f)
    <2>1. ASSUME NEW i \in 0 .. n PROVE f[i] = IF i = 0 THEN x ELSE ReadAttribute(f[i - 1], list[i])
        <3>1. CASE i = 0
            BY <1>6, <3>1
        <3>2. CASE i # 0
            <4>1. i \in 1 .. n
                BY <1>1, <3>2
            <4>2. <<i, f[i - 1]>> \in (1 .. n) \X T
                BY <1>6, <1>7, <4>1
            <4>3. f[i] = step[<<i, f[i - 1]>>]
                BY <1>6, <4>1
            <4>4. QED
                BY <3>2, <4>2, <4>3
        <3>3. QED
            BY <3>1, <3>2
    <2> HIDE DEF step
    <2>2. QED
        BY <1>6, <2>1
<1>9. Reads(read)
    <2> HIDE DEF Reads
    <2>1. QED
        BY <1>8
<1> HIDE DEF read
<1>10. read[0] = x /\ \A i \in 1 .. n : read[i] = ReadAttribute(read[i - 1], list[i])
    <2>1. 0 \in 0 .. n /\ \A i \in 1 .. n : i \in 0 .. n /\ i # 0
        BY <1>1
    <2>2. QED
        BY <1>9, <2>1
<1> HIDE DEF Reads
<1> DEFINE K == { k \in Nat : k <= n => read[k] \in T }
<1>11. 0 \in K
    BY <1>2, <1>10
<1>12. ASSUME NEW k \in K PROVE k + 1 \in K
    <2> SUFFICES ASSUME k + 1 <= n PROVE read[k + 1] \in T
        OBVIOUS
    <2>1. k <= n /\ k + 1 \in 1 .. n /\ (k + 1) - 1 = k
        BY <1>1
    <2>2. read[k] \in T
        BY <2>1
    <2>3. read[k + 1] = ReadAttribute(read[k], list[k + 1])
        BY <1>10, <2>1
    <2>4. QED
        BY <1>1, <1>3, <2>1, <2>2, <2>3
<1>13. K = Nat
    <2> HIDE DEF K
    <2>1. K \in SUBSET Nat
        BY DEF K
    <2>2. QED
        BY <1>11, <1>12, <2>1, SetInduction
<1>14. read[n] \in T
    <2>1. n \in K /\ n <= n
        <3> HIDE DEF K
        <3>1. QED
            BY <1>1, <1>13
    <2>2. QED
        BY <2>1
<1>15. QED
    BY <1>4, <1>14 DEF T

-----------------------------------------------------------------------------
(* Types and leaks.                                                        *)

\* What is where it should be while nodes are added.  Children and siblings come
\* later than what points to them.
PlacesInv ==
    /\ StorageInv
    /\ ListOfNodes(nodes) /\ Len(nodes) \in Nat
    /\ \A n \in 1 .. Len(nodes) :
           /\ nodes[n].parent \in 0 .. Len(nodes) /\ nodes[n].prev \in 0 .. Len(nodes)
           /\ nodes[n].children \in {0} \cup n + 1 .. Len(nodes)
           /\ nodes[n].next \in {0} \cup n + 1 .. Len(nodes)
           /\ nodes[n].text.page \in 0 .. Len(texts)
           /\ nodes[n].attributes.page \in 0 .. Len(attributes)
    /\ root \in 0 .. Len(nodes) /\ (Len(nodes) # 0 => root # NoNode)

PointersInv ==
    /\ parent \in 0 .. Len(nodes) /\ prev \in 0 .. Len(nodes)
    /\ status \in {"parsing", "parsed", "refused"}

LEMMA AddNodePlaces ==
    ASSUME PlacesInv, PointersInv, NEW tag, NEW list \in Lists, AddNode(tag, list)
    PROVE  PlacesInv' /\ Len(nodes') = Len(nodes) + 1
<1> DEFINE total == Len(nodes)
           read == ReadAttributes(list)
           slice == FinishStream(read.stream)
<1>1. read \in ReadsFrom(texts, attributes) /\ texts' = read.texts /\ attributes' = read.stream.pages
    BY ReadAttributesIs DEF PlacesInv, AddNode
<1> HIDE DEF read
<1>2. /\ read.stream \in AllStreams(Slots) /\ Streaming(read.stream)
      /\ Len(attributes') >= Len(attributes) /\ Len(texts') >= Len(texts)
    BY <1>1 DEF ReadsFrom, StreamsFrom
<1>3. StorageInv'
    BY <1>1, <1>2 DEF ReadsFrom, StreamsFrom, AllStreams, Streaming, StorageInv
<1>4. slice.page = Len(attributes')
    BY <1>1, <1>2, SliceIs
<1>5. Len(texts) \in Nat /\ Len(texts') \in Nat /\ Len(attributes) \in Nat /\ Len(attributes') \in Nat
    <2>1. Len(texts) \in Nat /\ Len(attributes) \in Nat
        BY NewestPage DEF PlacesInv, StorageInv
    <2>2. Len(texts') \in Nat /\ Len(attributes') \in Nat
        BY <1>3, LenProperties DEF StorageInv, AllPages
    <2>3. QED
        BY <2>1, <2>2
<1> HIDE DEF slice, total
<1>6. total \in Nat /\ total = Len(nodes) /\ ListOfNodes(nodes)
    BY DEF PlacesInv, total
<1>7. /\ ListOfNodes(nodes') /\ Len(nodes') = total + 1
      /\ \A n \in 1 .. total :
            /\ nodes'[n].parent = nodes[n].parent
            /\ nodes'[n].prev = nodes[n].prev
            /\ nodes'[n].children = IF n = parent /\ nodes[n].children = NoNode THEN total + 1 ELSE nodes[n].children
            /\ nodes'[n].next = IF n = prev THEN total + 1 ELSE nodes[n].next
            /\ nodes'[n].attributes = nodes[n].attributes /\ nodes'[n].text = nodes[n].text
      /\ nodes'[total + 1].parent = parent /\ nodes'[total + 1].prev = prev
      /\ nodes'[total + 1].children = NoNode /\ nodes'[total + 1].next = NoNode
      /\ nodes'[total + 1].attributes = slice
      /\ nodes'[total + 1].text = EmptySlice
      /\ root' = IF parent = NoNode /\ prev = NoNode THEN total + 1 ELSE root
    BY <1>6, AddNodeIs DEF slice, read
<1>8. /\ parent \in 0 .. total /\ prev \in 0 .. total /\ root \in 0 .. total
      /\ total # 0 => root # NoNode
      /\ \A n \in 1 .. total :
            /\ nodes[n].parent \in 0 .. total /\ nodes[n].prev \in 0 .. total
            /\ nodes[n].children \in {0} \cup n + 1 .. total
            /\ nodes[n].next \in {0} \cup n + 1 .. total
            /\ nodes[n].text.page \in 0 .. Len(texts)
            /\ nodes[n].attributes.page \in 0 .. Len(attributes)
    BY DEF PlacesInv, PointersInv, total
<1>9. 0 .. total \subseteq 0 .. total + 1 /\ total + 1 \in 0 .. total + 1 /\ total + 1 \in Nat
    BY <1>6
<1>10. 0 .. Len(texts) \subseteq 0 .. Len(texts') /\ 0 .. Len(attributes) \subseteq 0 .. Len(attributes')
    <2>1. \A a, b \in Nat : b >= a => 0 .. a \subseteq 0 .. b
        OBVIOUS
    <2>2. QED
        BY <1>2, <1>5, <2>1
<1>11. ASSUME NEW n \in 1 .. total
       PROVE  /\ nodes'[n].parent \in 0 .. total + 1 /\ nodes'[n].prev \in 0 .. total + 1
              /\ nodes'[n].children \in {0} \cup n + 1 .. total + 1
              /\ nodes'[n].next \in {0} \cup n + 1 .. total + 1
              /\ nodes'[n].text.page \in 0 .. Len(texts')
              /\ nodes'[n].attributes.page \in 0 .. Len(attributes')
    <2>1. n + 1 .. total \subseteq n + 1 .. total + 1 /\ total + 1 \in n + 1 .. total + 1
        BY <1>6
    <2>2. nodes'[n].children \in {0} \cup n + 1 .. total + 1
        BY <1>7, <1>8, <2>1
    <2>3. nodes'[n].next \in {0} \cup n + 1 .. total + 1
        BY <1>7, <1>8, <2>1
    <2>4. nodes'[n].parent \in 0 .. total + 1 /\ nodes'[n].prev \in 0 .. total + 1
        BY <1>7, <1>8, <1>9
    <2>5. nodes'[n].text.page \in 0 .. Len(texts') /\ nodes'[n].attributes.page \in 0 .. Len(attributes')
        BY <1>7, <1>8, <1>10
    <2>6. QED
        BY <2>2, <2>3, <2>4, <2>5
<1>12. /\ nodes'[total + 1].parent \in 0 .. total + 1 /\ nodes'[total + 1].prev \in 0 .. total + 1
       /\ nodes'[total + 1].children = 0 /\ nodes'[total + 1].next = 0
       /\ nodes'[total + 1].text.page \in 0 .. Len(texts')
       /\ nodes'[total + 1].attributes.page \in 0 .. Len(attributes')
    <2>1. \A a \in Nat : 0 \in 0 .. a /\ a \in 0 .. a
        OBVIOUS
    <2>2. EmptySlice.page = 0
        BY DEF EmptySlice
    <2>3. QED
        BY <1>4, <1>5, <1>7, <1>8, <1>9, <2>1, <2>2 DEF NoNode
<1>13. root' \in 0 .. total + 1 /\ root' # NoNode
    <2>1. CASE parent = NoNode /\ prev = NoNode
        BY <1>6, <1>7, <1>9, <2>1 DEF NoNode
    <2>2. CASE ~(parent = NoNode /\ prev = NoNode)
        <3>1. total # 0
            BY <1>6, <1>8, <2>2 DEF NoNode
        <3>2. QED
            BY <1>7, <1>8, <1>9, <2>2, <3>1
    <2>3. QED
        BY <2>1, <2>2
<1>14. ASSUME NEW n \in 1 .. Len(nodes')
       PROVE  /\ nodes'[n].parent \in 0 .. Len(nodes') /\ nodes'[n].prev \in 0 .. Len(nodes')
              /\ nodes'[n].children \in {0} \cup n + 1 .. Len(nodes')
              /\ nodes'[n].next \in {0} \cup n + 1 .. Len(nodes')
              /\ nodes'[n].text.page \in 0 .. Len(texts')
              /\ nodes'[n].attributes.page \in 0 .. Len(attributes')
    <2>1. n \in 1 .. total \/ n = total + 1
        BY <1>6, <1>7
    <2>2. CASE n \in 1 .. total
        BY <1>7, <1>11, <2>2
    <2>3. CASE n = total + 1
        BY <1>7, <1>12, <2>3
    <2>4. QED
        BY <2>1, <2>2, <2>3
<1>15. QED
    BY <1>3, <1>6, <1>7, <1>9, <1>13, <1>14 DEF PlacesInv, total

LEMMA ReadTextPlaces ==
    ASSUME PlacesInv, PointersInv, NEW text \in Texts, ReadText(text)
    PROVE  PlacesInv' /\ Len(nodes') = Len(nodes)
<1> DEFINE total == Len(nodes)
           stream == TextUntil(texts, text)
           slice == FinishStream(stream)
<1>1. texts' = stream.pages /\ attributes' = attributes /\ root' = root
    BY DEF ReadText
<1>2. stream \in StreamsFrom(STRING, texts)
    BY TextUntilIs, XmlAssumption DEF PlacesInv, StorageInv
<1> HIDE DEF stream
<1>3. /\ stream \in AllStreams(STRING) /\ Streaming(stream) /\ Len(texts') >= Len(texts)
      /\ texts' \in AllPages(STRING) /\ Filled(texts')
    BY <1>1, <1>2 DEF StreamsFrom, AllStreams, Streaming
<1>4. slice.page = Len(texts')
    BY <1>1, <1>3, SliceIs
<1>5. StorageInv'
    BY <1>1, <1>3 DEF StorageInv, PlacesInv
<1>6. Len(texts) \in Nat /\ Len(texts') \in Nat
    BY <1>3, NewestPage DEF PlacesInv, StorageInv
<1> HIDE DEF slice, total
<1>7. total \in Nat /\ total = Len(nodes) /\ ListOfNodes(nodes)
    BY DEF PlacesInv, total
<1>8. /\ ListOfNodes(nodes') /\ Len(nodes') = total
      /\ \A n \in 1 .. total :
            /\ nodes'[n].parent = nodes[n].parent
            /\ nodes'[n].prev = nodes[n].prev
            /\ nodes'[n].children = nodes[n].children
            /\ nodes'[n].next = nodes[n].next
            /\ nodes'[n].attributes = nodes[n].attributes
            /\ nodes'[n].text = IF n = parent THEN slice ELSE nodes[n].text
    BY <1>7, ReadTextIs DEF slice, stream
<1>9. \A n \in 1 .. total : nodes'[n].text.page \in 0 .. Len(texts')
    <2>1. \A a, b \in Nat : b >= a => 0 .. a \subseteq 0 .. b /\ b \in 0 .. b
        OBVIOUS
    <2>2. 0 .. Len(texts) \subseteq 0 .. Len(texts') /\ Len(texts') \in 0 .. Len(texts')
        BY <1>3, <1>6, <2>1
    <2>3. \A n \in 1 .. total : nodes[n].text.page \in 0 .. Len(texts)
        BY DEF PlacesInv, total
    <2>4. QED
        BY <1>4, <1>8, <2>2, <2>3
<1>10. QED
    BY <1>1, <1>5, <1>7, <1>8, <1>9 DEF PlacesInv, total

LEMMA InitPlaces == Init => PlacesInv /\ PointersInv
<1> SUFFICES ASSUME Init PROVE PlacesInv /\ PointersInv
    OBVIOUS
<1>1. /\ nodes = <<>> /\ root = 0 /\ parent = 0 /\ prev = 0
      /\ texts = <<>> /\ attributes = <<>> /\ status = "parsing"
    BY DEF Init, XmlInit, NoNode, NoPages
<1>2. Len(nodes) = 0 /\ Len(texts) = 0 /\ Len(attributes) = 0
    BY <1>1
<1>3. StorageInv
    BY <1>1, <1>2 DEF StorageInv, AllPages, Filled
<1>4. ListOfNodes(nodes)
    BY <1>1, <1>2 DEF ListOfNodes
<1>5. QED
    BY <1>1, <1>2, <1>3, <1>4 DEF PlacesInv, PointersInv

LEMMA SamePlaces ==
    ASSUME PlacesInv, nodes' = nodes, root' = root, texts' = texts, attributes' = attributes
    PROVE  PlacesInv'
    BY DEF PlacesInv, StorageInv

LEMMA StepPlaces == PlacesInv /\ PointersInv /\ [Next]_vars => PlacesInv' /\ PointersInv'
<1> SUFFICES ASSUME PlacesInv, PointersInv, [Next]_vars PROVE PlacesInv' /\ PointersInv'
    OBVIOUS
<1> DEFINE total == Len(nodes)
<1>1. /\ total \in Nat /\ parent \in 0 .. total /\ prev \in 0 .. total
      /\ 0 .. total \subseteq 0 .. total + 1 /\ total + 1 \in 0 .. total + 1 /\ 0 \in 0 .. total + 1
      /\ status \in {"parsing", "parsed", "refused"}
    <2>1. \A a \in Nat : 0 .. a \subseteq 0 .. a + 1 /\ a + 1 \in 0 .. a + 1 /\ 0 \in 0 .. a + 1
        OBVIOUS
    <2>2. QED
        BY <2>1 DEF PlacesInv, PointersInv
<1>2. ASSUME NEW tag, NEW list \in AttributeLists,
             OpenTag(tag, list) \/ EmptyTag(tag, list) \/ BrokenTag(tag, list)
      PROVE  PlacesInv' /\ PointersInv'
    <2>1. AddNode(tag, list)
        BY <1>2 DEF OpenTag, EmptyTag, BrokenTag
    <2>2. list \in Lists
        BY XmlAssumption DEF Lists
    <2>3. PlacesInv' /\ Len(nodes') = total + 1
        BY <2>1, <2>2, AddNodePlaces
    <2> HIDE DEF total
    <2>4. CASE OpenTag(tag, list)
        <3>1. prev' = 0 /\ parent' = Len(nodes') /\ status' = status
            BY <2>4 DEF OpenTag, NoNode
        <3>2. QED
            BY <1>1, <2>3, <3>1 DEF PointersInv
    <2>5. CASE EmptyTag(tag, list)
        <3>1. prev' = Len(nodes') /\ parent' = parent /\ status' = status
            BY <2>5 DEF EmptyTag
        <3>2. QED
            BY <1>1, <2>3, <3>1 DEF PointersInv
    <2>6. CASE BrokenTag(tag, list)
        <3>1. prev' = prev /\ parent' = parent /\ status' \in {"parsing", "refused"}
            BY <2>6 DEF BrokenTag
        <3>2. QED
            BY <1>1, <2>3, <3>1 DEF PointersInv
    <2>7. QED
        BY <1>2, <2>4, <2>5, <2>6
<1>3. ASSUME NEW tag, CloseTag(tag) PROVE PlacesInv' /\ PointersInv'
    <2>1. nodes' = nodes /\ root' = root /\ texts' = texts /\ attributes' = attributes
        BY <1>3 DEF CloseTag, storage
    <2>2. PlacesInv'
        BY <2>1, SamePlaces
    <2>3. CASE parent # NoNode /\ nodes[parent].tag = tag
        <3>1. prev' = parent /\ parent' = nodes[parent].parent /\ status' = status
            BY <1>3, <2>3 DEF CloseTag, AfterClosing
        <3>2. parent \in 1 .. total
            <4> HIDE DEF total
            <4>1. QED
                BY <1>1, <2>3 DEF NoNode
        <3>3. nodes[parent].parent \in 0 .. total
            BY <3>2 DEF PlacesInv
        <3>4. QED
            BY <1>1, <2>1, <2>2, <3>1, <3>3 DEF PointersInv
    <2>4. CASE ~(parent # NoNode /\ nodes[parent].tag = tag)
        <3>1. prev' = prev /\ parent' = parent /\ status' = "refused"
            BY <1>3, <2>4 DEF CloseTag
        <3>2. QED
            BY <1>1, <2>1, <2>2, <3>1 DEF PointersInv
    <2>5. QED
        BY <2>3, <2>4
<1>4. ASSUME NEW text \in Texts, ReadText(text) PROVE PlacesInv' /\ PointersInv'
    <2>1. PlacesInv' /\ Len(nodes') = total
        BY <1>4, ReadTextPlaces
    <2>2. parent' = parent /\ prev' = prev /\ status' = status
        BY <1>4 DEF ReadText
    <2>3. QED
        BY <1>1, <2>1, <2>2 DEF PointersInv
<1>5. CASE Refuse \/ EndOfData
    <2>1. /\ nodes' = nodes /\ root' = root /\ texts' = texts /\ attributes' = attributes
          /\ parent' = parent /\ prev' = prev /\ status' \in {"parsed", "refused"}
        BY <1>5 DEF Refuse, EndOfData, tree, storage
    <2>2. QED
        BY <1>1, <2>1, SamePlaces DEF PointersInv
<1>6. CASE UNCHANGED xmlVars
    <2>1. /\ nodes' = nodes /\ root' = root /\ texts' = texts /\ attributes' = attributes
          /\ parent' = parent /\ prev' = prev /\ status' = status
        BY <1>6 DEF xmlVars, tree, storage
    <2>2. QED
        BY <1>1, <2>1, SamePlaces DEF PointersInv
<1>7. XmlNext \/ UNCHANGED xmlVars
    <2>1. CASE Next
        BY <2>1 DEF Next, TestCrc32, TestIdentity, WriteGzip, TestGzip, InflateGzip, TestUtf8Encode, TestUtf8Decode,
                    UnknownTest, ParseXml, TestXml, LoadFaces, Plain
    <2>2. CASE UNCHANGED vars
        BY <2>2 DEF vars
    <2>3. QED
        BY <2>1, <2>2
<1>8. QED
    BY <1>2, <1>3, <1>4, <1>5, <1>6, <1>7 DEF XmlNext

\* Everything an allocator has on the heap is freed with it.
LEMMA AllIsFreed ==
    ASSUME NEW S, NEW pages \in AllPages(S)
    PROVE  /\ HeapBlocks(pages) \subseteq FreedBlocks(pages)
           /\ IsFiniteSet(HeapBlocks(pages))
<1> DEFINE n == Len(pages)
           buffers == { <<"buffer", i>> : i \in 1 .. n }
           others == { <<"page", i>> : i \in 1 .. n - 1 }
<1>1. n \in Nat
    BY LenProperties DEF AllPages
<1>2. HeapBlocks(pages) = buffers \cup others
    BY DEF HeapBlocks
<1>3. FreedBlocks(pages) = {<<"buffer", n>>} \cup UNION { { <<"buffer", i>>, <<"page", i>> } : i \in 1 .. n - 1 }
    BY DEF FreedBlocks
<1> HIDE DEF n
<1>4. buffers \subseteq FreedBlocks(pages)
    <2> SUFFICES ASSUME NEW i \in 1 .. n PROVE <<"buffer", i>> \in FreedBlocks(pages)
        OBVIOUS
    <2>1. i = n \/ i \in 1 .. n - 1
        BY <1>1
    <2>2. QED
        BY <1>3, <2>1
<1>5. others \subseteq FreedBlocks(pages)
    BY <1>3
<1>6. IsFiniteSet(buffers) /\ IsFiniteSet(others)
    <2>1. IsFiniteSet(1 .. n) /\ IsFiniteSet(1 .. n - 1)
        <3>1. n - 1 \in Int /\ 1 \in Int /\ n \in Int
            BY <1>1
        <3>2. QED
            BY <3>1, FS_Interval
    <2> DEFINE f == [i \in 1 .. n |-> <<"buffer", i>>]
               g == [i \in 1 .. n - 1 |-> <<"page", i>>]
    <2>2. f \in Surjection(1 .. n, buffers) /\ g \in Surjection(1 .. n - 1, others)
        BY DEF Surjection
    <2> HIDE DEF f, g, buffers, others
    <2>3. QED
        BY <2>1, <2>2, FS_Surjection
<1>7. QED
    BY <1>2, <1>4, <1>5, <1>6, FS_Union

\* How a test ends.
CallInv ==
    /\ user \in Tests \cup {"unknown", "assets"}
    /\ leak_amount \in Nat \cup {Uninitialized}
    /\ Answered => user # "assets"
    /\ Answered /\ user = "xml" => status # "parsing"
    /\ ~Answered => heap = {}
    /\ PrintedXmlIsFreed

LEMMA InitCall == Init => CallInv
    BY DEF Init, CallInv, Answered, PrintedXmlIsFreed

\* What test_xml leaves.
LEMMA XmlLeaves ==
    ASSUME PlacesInv
    PROVE  XmlBlocks \ XmlFreed = {} /\ IsFiniteSet(XmlBlocks)
<1>1. /\ HeapBlocks(texts) \subseteq FreedBlocks(texts) /\ IsFiniteSet(HeapBlocks(texts))
      /\ HeapBlocks(attributes) \subseteq FreedBlocks(attributes) /\ IsFiniteSet(HeapBlocks(attributes))
    BY AllIsFreed DEF PlacesInv, StorageInv
<1> DEFINE A == { <<"attribute">> \o b : b \in HeapBlocks(attributes) }
           B == { <<"text">> \o b : b \in HeapBlocks(texts) }
           C == { <<"xml", b, 0>> : b \in {"nodes", "string_table", "entities"} }
<1>2. XmlBlocks = (A \cup B) \cup C
    BY DEF XmlBlocks
<1>3. A \subseteq XmlFreed /\ B \subseteq XmlFreed /\ C \subseteq XmlFreed
    BY <1>1 DEF XmlFreed
<1>4. IsFiniteSet(A) /\ IsFiniteSet(B)
    <2> DEFINE f == [b \in HeapBlocks(attributes) |-> <<"attribute">> \o b]
               g == [b \in HeapBlocks(texts) |-> <<"text">> \o b]
    <2>1. f \in Surjection(HeapBlocks(attributes), A) /\ g \in Surjection(HeapBlocks(texts), B)
        BY DEF Surjection
    <2> HIDE DEF f, g, A, B
    <2>2. QED
        BY <1>1, <2>1, FS_Surjection
<1>5. IsFiniteSet(C)
    <2> DEFINE f == [b \in {"nodes", "string_table", "entities"} |-> <<"xml", b, 0>>]
    <2>1. f \in Surjection({"nodes", "string_table", "entities"}, C)
        BY DEF Surjection
    <2>2. IsFiniteSet({"nodes", "string_table", "entities"})
        <3>1. IsFiniteSet({"nodes"})
            BY FS_Singleton
        <3>2. IsFiniteSet({"nodes"} \cup {"string_table"})
            BY <3>1, FS_AddElement
        <3>3. IsFiniteSet({"nodes"} \cup {"string_table"} \cup {"entities"})
            BY <3>2, FS_AddElement
        <3>4. {"nodes", "string_table", "entities"} = {"nodes"} \cup {"string_table"} \cup {"entities"}
            OBVIOUS
        <3>5. QED
            BY <3>3, <3>4
    <2> HIDE DEF f, C
    <2>3. QED
        BY <2>1, <2>2, FS_Surjection
<1> HIDE DEF A, B, C
<1>6. IsFiniteSet(XmlBlocks)
    <2>1. IsFiniteSet(A \cup B)
        BY <1>4, FS_Union
    <2>2. QED
        BY <1>2, <1>5, <2>1, FS_Union
<1>7. QED
    BY <1>2, <1>3, <1>6

LEMMA StepCall == PlacesInv /\ PointersInv /\ CallInv /\ [Next]_vars => CallInv'
<1> SUFFICES ASSUME PlacesInv, PointersInv, CallInv, [Next]_vars PROVE CallInv'
    OBVIOUS
<1>1. /\ user \in Tests \cup {"unknown", "assets"}
      /\ leak_amount \in Nat \cup {Uninitialized}
    BY DEF CallInv
\* A test that ends with an empty heap, or as it was.
<1>2. ASSUME user' = user, user \in {"crc32", "identity", "utf8_encode", "utf8_decode", "unknown"},
             heap' = {}, leak_amount' \in Nat
      PROVE  CallInv'
    BY <1>1, <1>2 DEF CallInv, Answered, PrintedXmlIsFreed
<1>3. CASE TestCrc32 \/ TestIdentity \/ TestUtf8Encode \/ TestUtf8Decode
    <2>1. /\ user' = user /\ user \in {"crc32", "identity", "utf8_encode", "utf8_decode", "unknown"}
          /\ LeakIs({})
        BY <1>3 DEF TestCrc32, TestIdentity, TestUtf8Encode, TestUtf8Decode, Plain, Running
    <2>2. heap' = {} /\ leak_amount' \in Nat
        BY <2>1, FS_EmptySet DEF LeakIs
    <2>3. QED
        BY <1>2, <2>1, <2>2
<1>4. CASE UnknownTest
    <2>1. /\ user' = user /\ user = "unknown" /\ leak_amount = Uninitialized /\ heap' = heap
          /\ leak_amount' \in 0 .. 1
        BY <1>4 DEF UnknownTest, Plain, Running
    <2>2. heap = {} /\ leak_amount' \in Nat
        BY <2>1 DEF CallInv, Answered
    <2>3. QED
        BY <1>2, <2>1, <2>2
<1>5. CASE TestGzip
    <2> DEFINE left(k) == { <<"search", "live_chains", i>> : i \in 1 .. k }
    <2>1. user' = user /\ user = "gzip" /\ \E k \in 0 .. MaxCollections : LeakIs(left(k))
        BY <1>5 DEF TestGzip, Plain, Running
    <2>2. PICK k \in 0 .. MaxCollections : leak_amount' = Cardinality(left(k))
        BY <2>1 DEF LeakIs
    <2>3. IsFiniteSet(left(k))
        <3> DEFINE f == [i \in 1 .. k |-> <<"search", "live_chains", i>>]
        <3>1. IsFiniteSet(1 .. k)
            <4>1. k \in Int /\ 1 \in Int
                BY TestAssumption
            <4>2. QED
                BY <4>1, FS_Interval
        <3>2. f \in Surjection(1 .. k, left(k))
            BY DEF Surjection
        <3> HIDE DEF f, left
        <3>3. QED
            BY <3>1, <3>2, FS_Surjection
    <2> HIDE DEF left
    <2>4. leak_amount' \in Nat
        BY <2>2, <2>3, FS_CardinalityType
    <2>5. QED
        BY <1>1, <2>1, <2>4 DEF CallInv, Answered, PrintedXmlIsFreed, Uninitialized
<1>6. CASE TestXml
    <2>1. /\ user' = user /\ user = "xml" /\ status' = status /\ root' = root
          /\ status \in {"parsed", "refused"}
          /\ LeakIs(IF Frees THEN XmlBlocks \ XmlFreed ELSE XmlBlocks \cup {<<"xml", "read_buffer", 0>>})
        BY <1>6 DEF TestXml, Running, xmlVars, tree
    <2>2. XmlBlocks \ XmlFreed = {} /\ IsFiniteSet(XmlBlocks)
        BY XmlLeaves
    <2>3. CASE Frees
        <3>1. heap' = {} /\ leak_amount' = Cardinality({})
            BY <2>1, <2>2, <2>3 DEF LeakIs
        <3>2. leak_amount' = 0
            BY <3>1, FS_EmptySet
        <3>3. QED
            BY <1>1, <2>1, <3>1, <3>2 DEF CallInv, Answered, PrintedXmlIsFreed
    <2>4. CASE ~Frees
        <3> DEFINE left == XmlBlocks \cup {<<"xml", "read_buffer", 0>>}
        <3>1. leak_amount' = Cardinality(left)
            BY <2>1, <2>4 DEF LeakIs
        <3>2. IsFiniteSet(left)
            BY <2>2, FS_AddElement
        <3>3. leak_amount' \in Nat
            BY <3>1, <3>2, FS_CardinalityType
        <3>4. ~Frees'
            BY <2>1, <2>4 DEF Frees
        <3>5. QED
            BY <1>1, <2>1, <3>3, <3>4 DEF CallInv, Answered, PrintedXmlIsFreed, Uninitialized
    <2>5. QED
        BY <2>3, <2>4
<1>7. CASE ParseXml
    <2>1. status = "parsing" /\ user \in {"xml", "assets"} /\ UNCHANGED callVars
        BY <1>7 DEF ParseXml, XmlNext, OpenTag, EmptyTag, BrokenTag, CloseTag, ReadText, Read, Refuse, EndOfData
    <2>2. ~Answered
        BY <2>1 DEF CallInv
    <2>3. user' = user /\ leak_amount' = leak_amount /\ heap' = heap
        BY <2>1 DEF callVars
    <2>4. QED
        BY <1>1, <2>2, <2>3 DEF CallInv, Answered, PrintedXmlIsFreed
<1>8. CASE LoadFaces
    <2>1. user' = user /\ leak_amount' = leak_amount /\ heap' = heap /\ user = "assets"
        BY <1>8 DEF LoadFaces
    <2>2. ~Answered
        BY <2>1 DEF CallInv
    <2>3. QED
        BY <1>1, <2>1, <2>2 DEF CallInv, Answered, PrintedXmlIsFreed
<1>9. CASE WriteGzip \/ InflateGzip \/ UNCHANGED vars
    BY <1>9 DEF WriteGzip, InflateGzip, vars, callVars, xmlVars, tree, CallInv, Answered,
                PrintedXmlIsFreed, Frees
<1>10. QED
    BY <1>3, <1>4, <1>5, <1>6, <1>7, <1>8, <1>9 DEF Next

\* For any documents, texts and attributes, test_xml has freed all it took when it
\* has printed the tree: xml_free gives back every page of both allocators, however
\* many there are and wherever streams moved (src/test_call.cpp:66-69).
THEOREM PrintedXmlIsFreedAlways == Spec => []PrintedXmlIsFreed
<1>1. Init => PlacesInv /\ PointersInv /\ CallInv
    BY InitPlaces, InitCall
<1>2. PlacesInv /\ PointersInv /\ CallInv /\ [Next]_vars => PlacesInv' /\ PointersInv' /\ CallInv'
    BY StepPlaces, StepCall
<1>3. CallInv => PrintedXmlIsFreed
    BY DEF CallInv
<1>4. QED
    BY <1>1, <1>2, <1>3, PTL DEF Spec

\* What svg_walk_xml can find: at most one id of each node.
FoundItems == { item \in { OwnId(n)[1] : n \in 1 .. Len(nodes) } : item.node \in 1 .. Len(nodes) }

LEMMA OwnIs ==
    ASSUME NEW n \in 1 .. Len(nodes)
    PROVE  OwnId(n) \in Seq(FoundItems)
<1> DEFINE own == SelectSeq(AttributesOf(n), LAMBDA attribute : attribute.key = "id")
           item == [id |-> own[1].value, node |-> n]
<1>1. OwnId(n) = IF own = <<>> THEN <<>> ELSE <<item>>
    BY DEF OwnId
<1>2. item.node = n
    OBVIOUS
<1> HIDE DEF own, item
<1>3. CASE own = <<>>
    BY <1>1, <1>3
<1>4. CASE own # <<>>
    <2>1. OwnId(n) = <<item>>
        BY <1>1, <1>4
    <2>2. OwnId(n)[1] = item
        BY <2>1
    <2>3. item \in FoundItems
        BY <1>2, <2>2 DEF FoundItems
    <2>4. QED
        BY <2>1, <2>3
<1>5. QED
    BY <1>3, <1>4

LEMMA WalkIs ==
    ASSUME PlacesInv, root # NoNode
    PROVE  WalkXml(root) \in Seq(FoundItems)
<1> DEFINE total == Len(nodes)
           T == Seq(FoundItems)
           step == [q \in (1 .. total) \X T \X T |-> OwnId(q[1]) \o q[2] \o q[3]]
           down == [n \in 1 .. total |-> nodes[n].children]
           along == [n \in 1 .. total |-> nodes[n].next]
           Walks(f) == f = [n \in 0 .. total |-> IF n = NoNode THEN <<>>
                                                 ELSE OwnId(n) \o f[nodes[n].children] \o f[nodes[n].next]]
           walk == CHOOSE f : Walks(f)
<1>1. /\ total \in Nat /\ root \in 0 .. total
      /\ \A n \in 1 .. total :
            /\ nodes[n].children \in {0} \cup n + 1 .. total
            /\ nodes[n].next \in {0} \cup n + 1 .. total
    BY DEF PlacesInv
<1>2. \A n \in 1 .. total : OwnId(n) \in T
    BY OwnIs
<1>3. WalkXml(root) = OwnId(root) \o walk[nodes[root].children]
    BY DEF WalkXml
<1>4. <<>> \in T
    OBVIOUS
<1>5. \A a, b, c \in T : a \o b \o c \in T
    <2>1. \A a, b \in T : a \o b \in T
        BY ConcatProperties
    <2> HIDE DEF T
    <2>2. QED
        BY <2>1
<1> HIDE DEF T, total
<1>6. step \in [(1 .. total) \X T \X T -> T]
    <2> SUFFICES ASSUME NEW q \in (1 .. total) \X T \X T PROVE OwnId(q[1]) \o q[2] \o q[3] \in T
        OBVIOUS
    <2>1. q[1] \in 1 .. total /\ q[2] \in T /\ q[3] \in T
        OBVIOUS
    <2>2. QED
        BY <1>2, <1>5, <2>1
<1>7. \A n \in 1 .. total : {0} \cup n + 1 .. total \subseteq 0 .. total
    BY <1>1
<1>8. /\ down \in [1 .. total -> 0 .. total] /\ along \in [1 .. total -> 0 .. total]
      /\ \A n \in 1 .. total : down[n] \in {0} \cup n + 1 .. total /\ along[n] \in {0} \cup n + 1 .. total
    BY <1>1, <1>7
<1>9. PICK f : Walking(f, T, <<>>, total, step, down, along)
    <2> HIDE DEF step, down, along
    <2>1. QED
        BY <1>1, <1>4, <1>6, <1>8, WalkExists, Zenon
<1>10. f \in [0 .. total -> T] /\ f[0] = <<>>
    BY <1>9 DEF Walking
<1>11. ASSUME NEW n \in 1 .. total
       PROVE  f[n] = OwnId(n) \o f[nodes[n].children] \o f[nodes[n].next]
    <2>1. down[n] = nodes[n].children /\ along[n] = nodes[n].next
        OBVIOUS
    <2>2. f[n] = step[<<n, f[down[n]], f[along[n]]>>]
        <3> HIDE DEF step, down, along
        <3>1. QED
            BY <1>9 DEF Walking
    <2>3. <<n, f[down[n]], f[along[n]]>> \in (1 .. total) \X T \X T
        <3> HIDE DEF step, down, along
        <3>1. QED
            BY <1>8, <1>10
    <2> HIDE DEF down, along
    <2>4. step[<<n, f[down[n]], f[along[n]]>>] = OwnId(n) \o f[down[n]] \o f[along[n]]
        BY <2>3
    <2> HIDE DEF step
    <2>5. QED
        BY <2>1, <2>2, <2>4
<1> HIDE DEF step, down, along
<1>12. Walks(f)
    <2>1. ASSUME NEW n \in 0 .. total
          PROVE  f[n] = IF n = NoNode THEN <<>> ELSE OwnId(n) \o f[nodes[n].children] \o f[nodes[n].next]
        <3>1. CASE n = 0
            BY <1>10, <3>1 DEF NoNode
        <3>2. CASE n # 0
            <4>1. n \in 1 .. total
                BY <1>1, <3>2
            <4>2. QED
                BY <1>11, <3>2, <4>1 DEF NoNode
        <3>3. QED
            BY <3>1, <3>2
    <2>2. QED
        BY <1>10, <2>1
<1>13. Walks(walk)
    <2> HIDE DEF Walks
    <2>1. QED
        BY <1>12
<1> HIDE DEF walk
<1>14. walk[0] = <<>> /\ \A n \in 1 .. total : walk[n] = OwnId(n) \o walk[nodes[n].children] \o walk[nodes[n].next]
    <2>1. 0 \in 0 .. total /\ \A n \in 1 .. total : n \in 0 .. total /\ n # 0
        BY <1>1
    <2>2. QED
        BY <1>13, <2>1 DEF NoNode
<1> HIDE DEF Walks
\* From the last node to the first.
<1> DEFINE K == { k \in Nat : \A n \in 1 .. total : n > total - k => walk[n] \in T }
<1>15. 0 \in K
    BY <1>1
<1>16. ASSUME NEW k \in K PROVE k + 1 \in K
    <2> SUFFICES ASSUME NEW n \in 1 .. total, n > total - (k + 1) PROVE walk[n] \in T
        OBVIOUS
    <2>1. CASE n > total - k
        BY <2>1
    <2>2. CASE ~(n > total - k)
        <3>1. \A m \in n + 1 .. total : m \in 1 .. total /\ m > total - k
            BY <1>1
        <3>2. \A m \in {0} \cup n + 1 .. total : walk[m] \in T
            BY <1>4, <1>14, <3>1
        <3>3. walk[nodes[n].children] \in T /\ walk[nodes[n].next] \in T
            BY <1>1, <3>2
        <3>4. walk[n] = OwnId(n) \o walk[nodes[n].children] \o walk[nodes[n].next] /\ OwnId(n) \in T
            BY <1>2, <1>14
        <3>5. QED
            BY <1>5, <3>3, <3>4, Zenon
    <2>3. QED
        BY <2>1, <2>2
<1>17. K = Nat
    <2> HIDE DEF K
    <2>1. K \in SUBSET Nat
        BY DEF K
    <2>2. QED
        BY <1>15, <1>16, <2>1, SetInduction
<1>18. \A n \in 1 .. total : walk[n] \in T
    <2>1. total \in K
        <3> HIDE DEF K
        <3>1. QED
            BY <1>1, <1>17
    <2>2. \A n \in 1 .. total : n > total - total
        BY <1>1
    <2>3. QED
        BY <2>1, <2>2
<1>19. root \in 1 .. total
    BY <1>1 DEF NoNode
<1>20. nodes[root].children = 0 \/ nodes[root].children \in 1 .. total
    BY <1>1, <1>19
<1>21. walk[nodes[root].children] \in T
    BY <1>4, <1>14, <1>18, <1>20
<1>22. OwnId(root) \o walk[nodes[root].children] \in T
    <2>1. OwnId(root) \in Seq(FoundItems)
        BY <1>2, <1>19 DEF T
    <2>2. QED
        BY <1>21, <2>1, ConcatProperties DEF T
<1>23. QED
    BY <1>3, <1>22 DEF T

\* The sorted list has ids of the tree.
IdsInv ==
    /\ status = "parsing" => ids = <<>>
    /\ \A i \in 1 .. Len(ids) : ids[i].node \in 1 .. Len(nodes) /\ ids[i].id \in DOMAIN address

LEMMA InitializeIdsIs ==
    ASSUME PlacesInv, root # NoNode, InitializeIds
    PROVE  \A i \in 1 .. Len(ids') : ids'[i].node \in 1 .. Len(nodes) /\ ids'[i].id \in DOMAIN address'
<1> DEFINE list == WalkXml(root)
           m == Len(list)
           known == { list[i].id : i \in 1 .. m }
<1>1. list \in Seq(FoundItems)
    BY WalkIs
<1>2. m \in Nat /\ \A i \in 1 .. m : list[i] \in FoundItems
    BY <1>1, LenProperties, ElementOfSeq
<1>3. DOMAIN address' = known /\ ids' \in SortedIds(list, address')
    BY DEF InitializeIds
<1> HIDE DEF list
<1>4. PICK p \in Bijection(1 .. m, 1 .. m) : ids' = [i \in 1 .. m |-> list[p[i]]]
    BY <1>3 DEF SortedIds
<1>5. p \in [1 .. m -> 1 .. m]
    BY <1>4 DEF Bijection, Injection
<1>6. ids' \in [1 .. m -> FoundItems] /\ DOMAIN ids' = 1 .. m
    BY <1>2, <1>4, <1>5
<1>7. Len(ids') = m
    <2>1. ids' \in Seq(FoundItems)
        BY <1>2, <1>6, SeqDef
    <2> HIDE DEF m
    <2>2. QED
        BY <1>2, <1>6, <2>1, LengthIs
<1>8. ASSUME NEW i \in 1 .. m PROVE ids'[i].node \in 1 .. Len(nodes) /\ ids'[i].id \in known
    <2>1. p[i] \in 1 .. m /\ ids'[i] = list[p[i]]
        BY <1>4, <1>5
    <2>2. list[p[i]].node \in 1 .. Len(nodes)
        BY <1>2, <2>1 DEF FoundItems
    <2>3. QED
        BY <2>1, <2>2
<1>9. QED
    BY <1>3, <1>7, <1>8

LEMMA StepIds == PlacesInv /\ IdsInv /\ [Next]_vars => IdsInv'
<1> SUFFICES ASSUME PlacesInv, IdsInv, [Next]_vars PROVE IdsInv'
    OBVIOUS
<1>1. CASE ParseXml
    <2>1. status = "parsing" /\ ids' = ids
        BY <1>1 DEF ParseXml, XmlNext, OpenTag, EmptyTag, BrokenTag, CloseTag, ReadText, Read,
                    Refuse, EndOfData, svgVars
    <2>2. ids' = <<>>
        BY <2>1 DEF IdsInv
    <2>3. Len(ids') = 0
        BY <2>2
    <2>4. QED
        BY <2>2, <2>3 DEF IdsInv
<1>2. CASE LoadFaces
    <2>1. status' = status /\ nodes' = nodes /\ status # "parsing"
        BY <1>2 DEF LoadFaces, xmlVars, tree
    <2>2. CASE root = NoNode
        <3>1. ids' = ids /\ address' = address
            BY <1>2, <2>2 DEF LoadFaces, svgVars
        <3>2. QED
            BY <2>1, <3>1 DEF IdsInv
    <2>3. CASE root # NoNode
        <3>1. InitializeIds
            BY <1>2, <2>3 DEF LoadFaces
        <3>2. QED
            BY <2>1, <2>3, <3>1, InitializeIdsIs DEF IdsInv
    <2>4. QED
        BY <2>2, <2>3
<1>3. CASE UNCHANGED <<xmlVars, svgVars>>
    BY <1>3 DEF xmlVars, tree, svgVars, IdsInv
<1>4. UNCHANGED <<xmlVars, svgVars>> \/ ParseXml \/ LoadFaces
    <2>1. CASE Next
        BY <2>1 DEF Next, TestCrc32, TestIdentity, WriteGzip, TestGzip, InflateGzip, TestUtf8Encode, TestUtf8Decode,
                    UnknownTest, TestXml, Plain
    <2>2. CASE UNCHANGED vars
        BY <2>2 DEF vars
    <2>3. QED
        BY <2>1, <2>2
<1>5. QED
    BY <1>1, <1>2, <1>3, <1>4

\* Nodes, pages, slices and ids stay where they should be: a page never holds more
\* than its size (src/memory.cpp), a slice never refers to a page that is not there.
THEOREM TestTypes == Spec => []TypeOK
<1>1. Init => PlacesInv /\ PointersInv /\ CallInv /\ IdsInv
    <2>1. Init => IdsInv
        <3> SUFFICES ASSUME Init PROVE IdsInv
            OBVIOUS
        <3>1. ids = <<>> /\ Len(<<>>) = 0
            BY DEF Init
        <3>2. QED
            BY <3>1 DEF IdsInv
    <2>2. QED
        BY <2>1, InitPlaces, InitCall
<1>2. PlacesInv /\ PointersInv /\ CallInv /\ IdsInv /\ [Next]_vars
          => PlacesInv' /\ PointersInv' /\ CallInv' /\ IdsInv'
    BY StepPlaces, StepCall, StepIds
<1>3. PlacesInv /\ PointersInv /\ CallInv /\ IdsInv => TypeOK
    <2> SUFFICES ASSUME PlacesInv, PointersInv, CallInv, IdsInv PROVE TypeOK
        OBVIOUS
    <2>1. \A n \in 1 .. Len(nodes) :
              /\ {nodes[n].parent, nodes[n].children, nodes[n].prev, nodes[n].next} \subseteq 0 .. Len(nodes)
              /\ nodes[n].text.page \in 0 .. Len(texts)
              /\ nodes[n].attributes.page \in 0 .. Len(attributes)
        <3>1. \A n \in 1 .. Len(nodes) : {0} \cup n + 1 .. Len(nodes) \subseteq 0 .. Len(nodes)
            <4>1. \A a \in Nat : \A n \in 1 .. a : {0} \cup n + 1 .. a \subseteq 0 .. a
                OBVIOUS
            <4>2. QED
                BY <4>1 DEF PlacesInv
        <3>2. QED
            BY <3>1 DEF PlacesInv
    <2>2. {root, parent, prev} \subseteq 0 .. Len(nodes)
        BY DEF PlacesInv, PointersInv
    <2>3. /\ \A i \in 1 .. Len(texts) : Len(texts[i].cells) \in 1 .. texts[i].size
          /\ \A i \in 1 .. Len(attributes) : Len(attributes[i].cells) \in 1 .. attributes[i].size
        BY DEF PlacesInv, StorageInv, Filled
    <2>4. QED
        BY <2>1, <2>2, <2>3 DEF TypeOK, PointersInv, CallInv, IdsInv
<1>4. QED
    BY <1>1, <1>2, <1>3, PTL DEF Spec
=============================================================================
