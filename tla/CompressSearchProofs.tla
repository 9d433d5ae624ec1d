----------------------- MODULE CompressSearchProofs -----------------------
(***************************************************************************)
(* Proofs about CompressSearch.tla, for any texts, hash function, sizes    *)
(* and contents of fresh memory: as long as every call of the search gets  *)
(* ahead, what is written stands for the text; and until the storage is    *)
(* collected for the first time, the calls do get ahead, the chains are    *)
(* exact, a probe reads no cells but its chain's, and the matches are the  *)
(* longest of those whose end is in a chain.                               *)
(*                                                                         *)
(* A candidate is compared byte by byte, so for the text a chain may lead  *)
(* anywhere, as long as that is before the position and in the text.       *)
(* Distances are not negative and a candidate is in reach, so this can     *)
(* only go wrong at the text's beginning, in front of which the window     *)
(* reaches. There chains are exact: each ends in a terminator, and the     *)
(* storage cannot have been collected yet, because a block is paid for by  *)
(* the positions inserted since its chain has last been moved.             *)
(*                                                                         *)
(* Further on, a chain's cells still tell its positions one by one, newest *)
(* first, but only until a distance leads out of the window: what follows  *)
(* may be any other chain's. A walk that keeps to the window never gets    *)
(* there. The candidates it skips are no loss: whatever matches for longer *)
(* than the best match so far has its end tuple in the chain that is       *)
(* followed, at the distance that is looked for.                           *)
(***************************************************************************)
EXTENDS CompressSearch, ProofBasics, FiniteSetTheorems, SequenceTheorems

-----------------------------------------------------------------------------
(* The inductive invariant.                                                *)

TextInv ==
    /\ data \in Seq(Bytes)
    /\ \A q \in 0 .. Len(data) - TupleSize : TupleChain(q) \in Chains

Locals == [pos : Nat, head : Nat \ {0}, lastEnd : 0 .. NoChain, lastLength : Nat, lastBest : BOOLEAN]

\* Between positions, all chains are based before the next one.
Between == {"search", "write", "done"}

\* A chain has its room in front of its cells, and cells of its own once it has
\* a position.
Sound(place) ==
    /\ place.capacity > 0 => place.data_index > place.capacity
    /\ place.data_index < DataCount \/ (place.data_index = DataCount /\ place.base < 0)

IndexInv ==
    /\ chains \in [Chains -> [base : Nat \cup {-MaxDist}, capacity : Nat, data_index : Nat]]
    /\ chain_data \in [Memory -> 0 .. Terminator]
    /\ chain_data[0] = Terminator
    /\ \A c \in Chains :
        /\ chains[c].base <= local.pos
        /\ phase \in Between => chains[c].base < local.pos
        /\ phase # "collect" => Sound(chains[c])
        /\ phase = "collect" => /\ chains[c].capacity = 0
                                /\ Sound(chains[c]) \/ chains[c].data_index <= local.head

StateInv ==
    /\ phase \in {"search", "grow", "collect", "probe", "emit", "write", "done"}
    /\ local \in Locals
    /\ phase \in {"write", "done"} => saved = local
    /\ phase \notin Between => local.pos + TupleSize <= Len(data)
    /\ saved \in Locals

\* The chain that has to move, and the blocks a collection keeps.
GrowInv ==
    phase \in {"grow", "collect"} =>
        /\ grow.chain = TupleChain(local.pos)
        /\ chains[grow.chain].base = local.pos
        /\ grow \in [chain : Chains, begin : Nat, from : Nat, length : Nat \ {0},
                     live : SUBSET [chain : Chains, from : Nat, length : Nat \ {0}]]
        /\ grow.begin < local.pos /\ InReach(grow.begin)
        /\ grow.from + grow.length <= DataCount + Beyond
        /\ phase = "grow" =>
            /\ chains[grow.chain].capacity = 0
            /\ grow.from = chains[grow.chain].data_index
            /\ grow.length = OldLength(grow.chain, local.pos - grow.begin)
        /\ phase = "collect" =>
            /\ local.pos >= MaxDist
            /\ \A block \in grow.live : block.from + block.length < DataCount + Beyond

\* The n bytes at position q are those at the position p before it.
Repeats(q, p, n) ==
    /\ p \in Nat /\ p < q /\ q - p <= MaxDist
    /\ q + n <= Len(data)
    /\ \A i \in 1 .. n : data[q + i] = data[p + i]

\* A walk that reads the cells from one on comes by the positions track and
\* ends after them.
Told(cells, from, track) ==
    /\ track \in Seq(Nat) /\ track # <<>>
    /\ from + Len(track) <= DataCount + Beyond
    /\ \A k \in 1 .. Len(track) - 1 : cells[from + k - 1] = track[k] - track[k + 1]
    /\ cells[from + Len(track) - 1] = Terminator

Probes == [begin : Int, iter : Nat, end : 0 .. NoChain, endPos : Int, endIter : Nat,
           target : Nat, length : Nat, matchPos : Int, best : BOOLEAN, syncs : Nat]

\* What would be reported of p is a match.
Sane(p) ==
    /\ p \in Probes
    /\ p.target >= TupleSize
    /\ p.length >= TupleSize /\ p.length >= local.lastLength
          => Repeats(local.pos, p.matchPos, p.length)

\* From p the search can go on, and at the text's beginning it goes on along the
\* positions of one chain.
Walks(p) ==
    /\ p.begin \in Nat /\ p.begin < local.pos /\ p.begin >= Stop
    /\ local.pos < MaxDist =>
         \E track : Told(chain_data, p.iter, track) /\ track[1] = p.begin

ProbeInv ==
    phase \in {"probe", "emit"} =>
        /\ Sane(probe)
        /\ phase = "probe" => Walks(probe)

MatchesInv ==
    /\ matches \in Seq([position : Nat, offset : 1 .. MaxDist, length : Nat])
    /\ \A i \in 1 .. Len(matches) :
        /\ matches[i].length >= TupleSize
        /\ Repeats(matches[i].position, matches[i].position - matches[i].offset, matches[i].length)

\* What is written is the text so far; a match that is being spliced ends where
\* its pieces will end.
OutputInv ==
    /\ written \in 0 .. Len(data)
    /\ decoded = SubSeq(data, 1, written)
    /\ left \in Nat
    /\ left > 0 =>
        /\ phase = "write" /\ matches # <<>> /\ left > 3
        /\ written >= Head(matches).position
        /\ written + left = Head(matches).position + Head(matches).length
    /\ phase = "done" => written = Len(data)

\* The positions before n that are in chain c.
Inserted(c, n) == { q \in 0 .. n - 1 : q + TupleSize <= Len(data) /\ TupleChain(q) = c }

\* Chain c of cs comes by the positions track in its own cells, or in cell 0.
\* For as many positions as it has cells beyond its room, half have not been
\* used to pay for a block.
Stored(cs, cells, head, n, c, track, paid) ==
    LET first == cs[c].data_index
        room  == cs[c].capacity
    IN  /\ Told(cells, first, track)
        /\ track[1] = cs[c].base
        /\ \/ first = 0 /\ Len(track) = 1 /\ room = 0
           \/ first - room >= 1 /\ first + Len(track) <= head
        /\ 2 * Cardinality(Inserted(c, n) \ paid) >= Len(track) - room

Apart(cs, tracks, c, d) ==
    \/ cs[c].data_index + Len(tracks[c]) <= cs[d].data_index - cs[d].capacity
    \/ cs[d].data_index + Len(tracks[d]) <= cs[c].data_index - cs[c].capacity

\* The storage after n positions of which some have paid for it.
Laid(cs, cells, head, n, tracks, paid) ==
    /\ head <= DataCount
    /\ head <= 1 + 4 * Cardinality(paid)
    /\ \A c \in Chains : cs[c].base >= 0 => Stored(cs, cells, head, n, c, tracks[c], paid)
    /\ \A c, d \in Chains :
        c # d /\ cs[c].base >= 0 /\ cs[d].base >= 0 /\ cs[c].data_index # 0 /\ cs[d].data_index # 0
            => Apart(cs, tracks, c, d)

LaidOut(cs, cells, head, n) ==
    \E tracks \in [Chains -> Seq(Nat)], paid \in SUBSET (0 .. n - 1) :
        Laid(cs, cells, head, n, tracks, paid)

\* At the text's beginning the storage is exact.
YoungInv ==
    local.pos < MaxDist =>
        /\ phase \in Between => LaidOut(chains, chain_data, local.head, local.pos)
        /\ phase = "grow" => LaidOut([chains EXCEPT ![grow.chain].base = grow.begin],
                                     chain_data, local.head, local.pos)
        /\ phase \in {"probe", "emit"} => LaidOut(chains, chain_data, local.head, local.pos + 1)

SearchInv ==
    /\ TextInv /\ IndexInv /\ StateInv /\ GrowInv /\ ProbeInv
    /\ MatchesInv /\ OutputInv /\ YoungInv

-----------------------------------------------------------------------------
(* Walks.                                                                  *)

LEMMA SizesAre ==
    /\ ChainCount \in Nat \ {0} /\ DataCount \in Nat \ {0} /\ Beyond \in Nat
    /\ TupleSize \in 1 .. 4 /\ MaxSync \in Nat /\ MaxMatches \in Nat /\ MaxReference \in Nat
    /\ MaxReference > TupleSize
    /\ MaxDist \in Nat \ {0} /\ Terminator \in Nat /\ Terminator > 2 * MaxDist
    /\ DataCount + 3 >= 4 * MaxDist
BY SearchAssumption

\* Sum is what its equations say.
LEMMA SumUnfolds ==
    ASSUME NEW cells \in [Memory -> 0 .. Terminator], NEW from \in Nat, NEW n \in Nat,
           from + n <= DataCount + Beyond
    PROVE  \E g \in [0 .. n -> Nat] :
                /\ g[0] = 0
                /\ \A i \in 0 .. n - 1 : g[i + 1] = g[i] + cells[from + i]
                /\ Sum(cells, from, n) = g[n]
<1> DEFINE step == [p \in Nat \X Nat |-> IF p[1] < n THEN p[2] + cells[from + p[1]] ELSE p[2]]
           eq(g) == g = [k \in 0 .. n |-> IF k = 0 THEN 0 ELSE g[k - 1] + cells[from + k - 1]]
<1>1. \A i \in 0 .. n - 1 : cells[from + i] \in Nat
    <2>1. \A i \in 0 .. n - 1 : from + i \in Memory
        BY SizesAre DEF Memory
    <2>2. 0 .. Terminator \subseteq Nat
        BY SizesAre
    <2>3. QED
        BY <2>1, <2>2
<1>2. step \in [Nat \X Nat -> Nat] /\ \A i \in 0 .. n - 1, x \in Nat : step[<<i, x>>] = x + cells[from + i]
    <2>1. ASSUME NEW p \in Nat \X Nat
          PROVE  (IF p[1] < n THEN p[2] + cells[from + p[1]] ELSE p[2]) \in Nat
        BY <1>1
    <2>2. QED
        BY <2>1
<1> HIDE DEF step
<1>3. PICK g : Unfolds(g, Nat, 0, step, n)
    BY <1>2, RecursionExists, Zenon
<1>4. g \in [0 .. n -> Nat] /\ g[0] = 0 /\ \A i \in 0 .. n - 1 : g[i + 1] = step[<<i, g[i]>>]
    BY <1>3 DEF Unfolds
<1>5. \A i \in 0 .. n - 1 : g[i + 1] = g[i] + cells[from + i]
    <2>1. ASSUME NEW i \in 0 .. n - 1 PROVE g[i + 1] = g[i] + cells[from + i]
        <3>1. i \in Nat /\ i \in 0 .. n
            OBVIOUS
        <3>2. g[i] \in Nat /\ g[i + 1] = step[<<i, g[i]>>]
            BY <1>4, <3>1
        <3>3. QED
            BY <1>2, <3>2
    <2>2. QED
        BY <2>1
<1>6. eq(g)
    <2>1. ASSUME NEW k \in 0 .. n PROVE g[k] = IF k = 0 THEN 0 ELSE g[k - 1] + cells[from + k - 1]
        <3>1. CASE k = 0
            BY <1>4, <3>1
        <3>2. CASE k # 0
            <4>1. k - 1 \in 0 .. n - 1 /\ (k - 1) + 1 = k /\ from + (k - 1) = from + k - 1
                BY <3>2
            <4>2. QED
                BY <1>5, <3>2, <4>1
        <3>3. QED
            BY <3>1, <3>2
    <2>2. QED
        BY <1>4, <2>1
<1>7. \A f : eq(f) => f[n] = g[n]
    <2> SUFFICES ASSUME NEW f, eq(f) PROVE f[n] = g[n]
        OBVIOUS
    <2> DEFINE T == { k \in Nat : k <= n => f[k] = g[k] }
    <2>0. f = [k \in 0 .. n |-> IF k = 0 THEN 0 ELSE f[k - 1] + cells[from + k - 1]]
        OBVIOUS
    <2> HIDE DEF eq
    <2>1. 0 \in T
        BY <1>4, <2>0
    <2>2. ASSUME NEW k \in T PROVE k + 1 \in T
        <3>1. CASE k + 1 <= n
            <4>1. k \in 0 .. n - 1 /\ k + 1 \in 0 .. n /\ k + 1 # 0 /\ (k + 1) - 1 = k
                  /\ from + (k + 1) - 1 = from + k
                BY <3>1
            <4>2. f[k + 1] = f[(k + 1) - 1] + cells[from + (k + 1) - 1]
                BY <2>0, <4>1
            <4>3. f[k] = g[k]
                BY <3>1
            <4>4. QED
                BY <1>5, <4>1, <4>2, <4>3
        <3>2. QED
            BY <3>1
    <2>3. T = Nat
        <3> HIDE DEF T
        <3>1. T \in SUBSET Nat
            BY DEF T
        <3>2. QED
            BY <2>1, <2>2, <3>1, SetInduction
    <2>4. QED
        BY <2>3
<1>8. Sum(cells, from, n) = (CHOOSE f : eq(f))[n]
    BY DEF Sum
<1> HIDE DEF eq
<1>9. eq(CHOOSE f : eq(f))
    BY <1>6
<1>10. QED
    BY <1>4, <1>5, <1>7, <1>8, <1>9

\* A walk of n cells, and of one cell more.
LEMMA SumStarts ==
    ASSUME NEW cells \in [Memory -> 0 .. Terminator], NEW from \in Nat, from <= DataCount + Beyond
    PROVE  Sum(cells, from, 0) = 0
<1>1. from + 0 <= DataCount + Beyond
    BY SizesAre
<1>2. QED
    BY <1>1, SumUnfolds

LEMMA SumNext ==
    ASSUME NEW cells \in [Memory -> 0 .. Terminator], NEW from \in Nat, NEW n \in Nat,
           from + n < DataCount + Beyond
    PROVE  /\ Sum(cells, from, n) \in Nat
           /\ Sum(cells, from, n + 1) = Sum(cells, from, n) + cells[from + n]
           /\ Sum(cells, from, n + 1) >= Sum(cells, from, n)
<1>1. PICK g \in [0 .. n -> Nat] : /\ g[0] = 0
                                   /\ \A i \in 0 .. n - 1 : g[i + 1] = g[i] + cells[from + i]
                                   /\ Sum(cells, from, n) = g[n]
    <2>1. from + n <= DataCount + Beyond
        BY SizesAre
    <2>2. QED
        BY <2>1, SumUnfolds
<1>2. PICK h \in [0 .. n + 1 -> Nat] : /\ h[0] = 0
                                       /\ \A i \in 0 .. (n + 1) - 1 : h[i + 1] = h[i] + cells[from + i]
                                       /\ Sum(cells, from, n + 1) = h[n + 1]
    <2>1. from + (n + 1) <= DataCount + Beyond /\ n + 1 \in Nat
        BY SizesAre
    <2>2. QED
        BY <2>1, SumUnfolds
<1> DEFINE T == { k \in Nat : k <= n => h[k] = g[k] }
<1>3. 0 \in T
    BY <1>1, <1>2
<1>4. ASSUME NEW k \in T PROVE k + 1 \in T
    <2>1. CASE k + 1 <= n
        <3>1. k \in 0 .. n - 1 /\ k \in 0 .. (n + 1) - 1 /\ h[k] = g[k]
            BY <2>1
        <3>2. QED
            BY <1>1, <1>2, <3>1
    <2>2. QED
        BY <2>1
<1>5. T = Nat
    <2> HIDE DEF T
    <2>1. T \in SUBSET Nat
        BY DEF T
    <2>2. QED
        BY <1>3, <1>4, <2>1, SetInduction
<1>6. h[n] = g[n]
    BY <1>5
<1>7. n \in 0 .. (n + 1) - 1 /\ n \in 0 .. n
    OBVIOUS
<1>8. cells[from + n] \in Nat
    <2>1. from + n \in Memory
        BY SizesAre DEF Memory
    <2>2. 0 .. Terminator \subseteq Nat
        BY SizesAre
    <2>3. QED
        BY <2>1, <2>2
<1>9. g[n] \in Nat
    BY <1>7
<1>10. QED
    BY <1>1, <1>2, <1>6, <1>7, <1>8, <1>9

\* Some number of cells is enough to go a distance, or all there are.
LEMMA CellsForIs ==
    ASSUME NEW cells \in [Memory -> 0 .. Terminator], NEW from \in Nat, from <= DataCount + Beyond,
           NEW distance \in Int
    PROVE  LET n == CellsFor(cells, from, distance)
           IN  /\ n \in Nat
               /\ from + n <= DataCount + Beyond
               /\ Sum(cells, from, n) >= distance \/ from + n = DataCount + Beyond
               /\ n > 0 => Sum(cells, from, n - 1) < distance
<1> DEFINE end == DataCount + Beyond - from
           enough(n) == Sum(cells, from, n) >= distance \/ n = end
           T == { n \in Nat : n <= end /\ enough(n) }
           ok(n) == enough(n) /\ (n > 0 => Sum(cells, from, n - 1) < distance)
<1>1. end \in Nat /\ from + end = DataCount + Beyond
    BY SizesAre
<1>2. end \in T
    BY <1>1
<1>3. PICK n \in T : \A m \in T : n <= m
    <2>1. T \in SUBSET Nat /\ T # {}
        BY <1>2
    <2> HIDE DEF T
    <2>2. QED
        BY <2>1, LeastNatural
<1>4. n > 0 => Sum(cells, from, n - 1) < distance
    <2> SUFFICES ASSUME n > 0 PROVE Sum(cells, from, n - 1) < distance
        OBVIOUS
    <2>1. n - 1 \in Nat /\ n - 1 <= end /\ ~(n <= n - 1) /\ from + (n - 1) < DataCount + Beyond
        BY <1>1
    <2>2. ~(Sum(cells, from, n - 1) >= distance)
        BY <1>3, <2>1
    <2>3. Sum(cells, from, n - 1) \in Nat
        BY <2>1, SumNext
    <2>4. QED
        BY <2>2, <2>3
<1>5. n \in 0 .. end /\ ok(n)
    BY <1>1, <1>4
<1>6. CellsFor(cells, from, distance) = CHOOSE k \in 0 .. end : ok(k)
    BY DEF CellsFor
<1> HIDE DEF ok
<1>7. CellsFor(cells, from, distance) \in 0 .. end /\ ok(CellsFor(cells, from, distance))
    BY <1>5, <1>6
<1> DEFINE r == CellsFor(cells, from, distance)
<1>8. r \in 0 .. end /\ ok(r)
    BY <1>7
<1> HIDE DEF r
<1>9. r \in Nat /\ from + r <= DataCount + Beyond /\ (r = end => from + r = DataCount + Beyond)
    BY <1>1, <1>8
<1>10. (Sum(cells, from, r) >= distance \/ r = end) /\ (r > 0 => Sum(cells, from, r - 1) < distance)
    BY <1>8 DEF ok
<1>11. QED
    BY <1>9, <1>10 DEF r

\* A longer walk goes at least as far.
LEMMA SumGrows ==
    ASSUME NEW cells \in [Memory -> 0 .. Terminator], NEW from \in Nat, NEW m \in Nat, NEW n \in Nat,
           m <= n, from + n < DataCount + Beyond
    PROVE  Sum(cells, from, m) <= Sum(cells, from, n)
<1> DEFINE T == { k \in Nat : m <= k /\ k <= n => Sum(cells, from, m) <= Sum(cells, from, k) }
<1>1. \A k \in Nat : k <= n => from + k < DataCount + Beyond
    BY SizesAre
<1>2. \A k \in Nat : k <= n => Sum(cells, from, k) \in Nat /\ Sum(cells, from, k + 1) >= Sum(cells, from, k)
                               /\ Sum(cells, from, k + 1) = Sum(cells, from, k) + cells[from + k]
    BY <1>1, SumNext
<1>3. \A k \in Nat : k <= n => Sum(cells, from, k) \in Nat
    BY <1>2
<1>4. 0 \in T
    BY <1>3
<1>5. ASSUME NEW k \in T PROVE k + 1 \in T
    <2> SUFFICES ASSUME m <= k + 1, k + 1 <= n PROVE Sum(cells, from, m) <= Sum(cells, from, k + 1)
        OBVIOUS
    <2>1. k \in Nat /\ k + 1 \in Nat /\ k <= n /\ (m <= k \/ m = k + 1)
        OBVIOUS
    <2>2. Sum(cells, from, m) \in Nat /\ Sum(cells, from, k) \in Nat /\ Sum(cells, from, k + 1) \in Nat
        BY <1>3, <2>1
    <2>3. CASE m <= k
        <3>1. Sum(cells, from, m) <= Sum(cells, from, k)
            BY <2>1, <2>3
        <3>2. QED
            BY <1>2, <2>1, <2>2, <3>1
    <2>4. CASE m = k + 1
        BY <2>2, <2>4
    <2>5. QED
        BY <2>1, <2>3, <2>4
<1>6. T = Nat
    <2> HIDE DEF T
    <2>1. T \in SUBSET Nat
        BY DEF T
    <2>2. QED
        BY <1>4, <1>5, <2>1, SetInduction
<1>7. QED
    BY <1>6

\* A walk along a track has gone as far as the track.
LEMMA TrackSums ==
    ASSUME NEW cells \in [Memory -> 0 .. Terminator], NEW from \in Nat, NEW track,
           Told(cells, from, track), NEW k \in 0 .. Len(track) - 1
    PROVE  Sum(cells, from, k) = track[1] - track[k + 1]
<1> DEFINE L == Len(track)
           T == { i \in Nat : i <= L - 1 => Sum(cells, from, i) = track[1] - track[i + 1] }
<1>1. L \in Nat /\ L > 0 /\ from + L <= DataCount + Beyond
    BY EmptySeq DEF Told
<1>2. \A i \in 1 .. L : track[i] \in Nat
    BY DEF Told
<1>3. 0 \in T
    <2>1. Sum(cells, from, 0) = 0 /\ track[1] \in Nat
        BY <1>1, <1>2, SumStarts, SizesAre
    <2>2. QED
        BY <2>1
<1>4. ASSUME NEW i \in T PROVE i + 1 \in T
    <2> SUFFICES ASSUME i + 1 <= L - 1
                 PROVE  Sum(cells, from, i + 1) = track[1] - track[(i + 1) + 1]
        OBVIOUS
    <2>1. /\ i \in Nat /\ i <= L - 1 /\ from + i < DataCount + Beyond
          /\ i + 1 \in 1 .. L - 1 /\ i + 1 \in 1 .. L /\ (i + 1) + 1 \in 1 .. L /\ 1 \in 1 .. L
          /\ from + (i + 1) - 1 = from + i
        BY <1>1, SizesAre
    <2>2. Sum(cells, from, i + 1) = Sum(cells, from, i) + cells[from + i]
        BY <2>1, SumNext
    <2>3. cells[from + (i + 1) - 1] = track[i + 1] - track[(i + 1) + 1]
        BY <2>1 DEF Told
    <2>4. Sum(cells, from, i) = track[1] - track[i + 1]
        BY <2>1
    <2>5. track[1] \in Nat /\ track[i + 1] \in Nat /\ track[(i + 1) + 1] \in Nat
        BY <1>2, <2>1, Zenon
    <2>6. QED
        BY <2>1, <2>2, <2>3, <2>4, <2>5
<1>5. T = Nat
    <2> HIDE DEF T
    <2>1. T \in SUBSET Nat
        BY DEF T
    <2>2. QED
        BY <1>3, <1>4, <2>1, SetInduction
<1>6. k \in Nat /\ k <= L - 1
    BY <1>1
<1>7. QED
    BY <1>5, <1>6

\* The cells of a track are just those it takes to leave the text.
LEMMA CellsForTrack ==
    ASSUME NEW cells \in [Memory -> 0 .. Terminator], NEW from \in Nat, NEW track,
           Told(cells, from, track), NEW distance \in Int, track[1] < distance, distance <= Terminator
    PROVE  CellsFor(cells, from, distance) = Len(track)
<1> DEFINE L == Len(track)
           n == CellsFor(cells, from, distance)
           end == DataCount + Beyond
<1>1. L \in Nat /\ L > 0 /\ from + L <= end /\ end \in Nat /\ from + (L - 1) < end /\ L - 1 \in Nat
      /\ from <= end
    BY EmptySeq, SizesAre DEF Told
<1>2. \A i \in 1 .. L : track[i] \in Nat
    BY DEF Told
<1>3. \A k \in 0 .. L - 1 : Sum(cells, from, k) = track[1] - track[k + 1]
    BY TrackSums
<1>4. n \in Nat /\ from + n <= end /\ (Sum(cells, from, n) >= distance \/ from + n = end)
      /\ (n > 0 => Sum(cells, from, n - 1) < distance)
    BY <1>1, CellsForIs
<1> HIDE DEF n, end
<1>5. ASSUME n < L PROVE FALSE
    <2>1. n \in 0 .. L - 1 /\ n + 1 \in 1 .. L /\ 1 \in 1 .. L /\ from + n # end
        BY <1>1, <1>4, <1>5
    <2>2. track[1] \in Nat /\ track[n + 1] \in Nat
        BY <1>2, <2>1, Zenon
    <2>3. Sum(cells, from, n) = track[1] - track[n + 1]
        BY <1>3, <2>1, Zenon
    <2>4. QED
        BY <1>4, <2>1, <2>2, <2>3
<1>6. ASSUME n > L PROVE FALSE
    <2>1. n - 1 \in Nat /\ L <= n - 1 /\ from + (n - 1) < DataCount + Beyond
        BY <1>1, <1>4, <1>6 DEF end
    <2>2. Sum(cells, from, L) <= Sum(cells, from, n - 1)
        BY <1>1, <2>1, SumGrows
    <2>3. Sum(cells, from, (L - 1) + 1) = Sum(cells, from, L - 1) + cells[from + (L - 1)]
          /\ Sum(cells, from, L - 1) \in Nat
        BY <1>1, SumNext DEF end
    <2>4. cells[from + L - 1] = Terminator /\ from + L - 1 = from + (L - 1) /\ (L - 1) + 1 = L
        BY <1>1 DEF Told
    <2>5. Sum(cells, from, L) >= Terminator
        <3>1. Sum(cells, from, L) = Sum(cells, from, L - 1) + Terminator
            BY <2>3, <2>4
        <3>2. QED
            BY <2>3, <3>1, SizesAre
    <2>6. Sum(cells, from, n - 1) \in Nat
        BY <2>1, SumNext
    <2>7. Sum(cells, from, L) \in Nat
        BY <2>3, <2>4, SizesAre
    <2>8. QED
        BY <1>4, <1>6, <1>1, <2>2, <2>5, <2>6, <2>7, SizesAre
<1>7. n = L
    BY <1>1, <1>4, <1>5, <1>6
<1>8. QED
    BY <1>7 DEF n

-----------------------------------------------------------------------------
(* Comparing and repeating bytes.                                          *)

LEMMA StrmatchIs ==
    ASSUME NEW a \in Nat, NEW b \in Nat, NEW n \in Nat
    PROVE  /\ Strmatch(a, b, n) \in 0 .. n
           /\ \A i \in 1 .. Strmatch(a, b, n) : data[a + i] = data[b + i]
           /\ Strmatch(a, b, n) < n => data[a + Strmatch(a, b, n) + 1] # data[b + Strmatch(a, b, n) + 1]
<1> DEFINE ok(k) == /\ \A i \in 1 .. k : data[a + i] = data[b + i]
                    /\ k < n => data[a + k + 1] # data[b + k + 1]
           T == { k \in Nat : k < n => data[a + k + 1] # data[b + k + 1] }
<1>1. PICK k \in T : \A m \in T : k <= m
    <2>1. T \in SUBSET Nat /\ n \in T
        OBVIOUS
    <2> HIDE DEF T
    <2>2. QED
        BY <2>1, LeastNatural
<1>2. k <= n
    BY <1>1
<1>3. ASSUME NEW i \in 1 .. k PROVE data[a + i] = data[b + i]
    <2>1. i - 1 \in Nat /\ ~(k <= i - 1) /\ i - 1 < n /\ a + (i - 1) + 1 = a + i /\ b + (i - 1) + 1 = b + i
        BY <1>2
    <2>2. i - 1 \notin T
        BY <1>1, <2>1
    <2>3. QED
        BY <2>1, <2>2
<1>4. k \in 0 .. n /\ ok(k)
    BY <1>1, <1>2, <1>3
<1>5. Strmatch(a, b, n) = CHOOSE m \in 0 .. n : ok(m)
    BY DEF Strmatch
<1> HIDE DEF ok
<1>6. Strmatch(a, b, n) \in 0 .. n /\ ok(Strmatch(a, b, n))
    BY <1>4, <1>5
<1>7. QED
    BY <1>6 DEF ok

\* Where a text repeats what came an offset before, copying from there goes on
\* with the text, also if the offset is less than what is copied.
LEMMA CopyGoesOn ==
    ASSUME NEW w \in Nat, NEW offset \in Nat \ {0}, offset <= w, NEW n \in Nat,
           \A i \in 1 .. n : data[w + i] = data[w + i - offset],
           NEW i \in 1 .. n
    PROVE  data[w - offset + 1 + ((i - 1) % offset)] = data[w + i]
<1> DEFINE r == (i - 1) % offset
           back(k) == w - offset + 1 + r + k * offset
           T == { k \in Nat : back(k) <= w + n => data[back(k)] = data[back(0)] }
<1>1. r \in 0 .. offset - 1 /\ (i - 1) \div offset \in Int
      /\ i - 1 = offset * ((i - 1) \div offset) + r
    BY Remainder
<1> HIDE DEF r
<1>2. \A k \in Nat : k * offset \in Nat /\ (k + 1) * offset = k * offset + offset
    OBVIOUS
<1>3. 0 \in T
    OBVIOUS
<1>4. ASSUME NEW k \in T PROVE k + 1 \in T
    <2> SUFFICES ASSUME back(k + 1) <= w + n PROVE data[back(k + 1)] = data[back(0)]
        OBVIOUS
    <2> DEFINE m == k * offset
               j == 1 + r + m
    <2>1. m \in Nat /\ (k + 1) * offset = m + offset
        BY <1>2
    <2> HIDE DEF m
    <2>2. back(k + 1) = w + j /\ back(k) = w + j - offset /\ back(k) <= w + n /\ j \in 1 .. n
        BY <1>1, <2>1 DEF m
    <2>3. data[w + j] = data[w + j - offset]
        BY <2>2
    <2>4. data[back(k)] = data[back(0)]
        BY <2>2
    <2>5. QED
        BY <2>2, <2>3, <2>4
<1>5. T = Nat
    <2> HIDE DEF T
    <2>1. T \in SUBSET Nat
        BY DEF T
    <2>2. QED
        BY <1>3, <1>4, <2>1, SetInduction
<1> DEFINE q == (i - 1) \div offset
<1>6. q \in Int /\ i - 1 = offset * q + r
    BY <1>1
<1> HIDE DEF q
<1>7. q \in Nat
    <2> SUFFICES ASSUME q < 0 PROVE FALSE
        BY <1>6
    <2>1. q + 1 <= 0 /\ offset * (q + 1) <= 0 /\ offset * (q + 1) = offset * q + offset
        BY <1>6
    <2>2. QED
        BY <1>1, <1>6, <2>1
<1>8. (q + 1) * offset = offset * q + offset /\ q + 1 \in Nat /\ offset * q \in Nat
    BY <1>7
<1>9. back(q + 1) = w + i /\ back(0) = w - offset + 1 + r
    BY <1>1, <1>6, <1>8
<1>10. data[w + i] = data[w - offset + 1 + r]
    <2>1. q + 1 \in T
        BY <1>5, <1>8
    <2>2. back(q + 1) <= w + n
        BY <1>9
    <2>3. QED
        BY <1>9, <2>1, <2>2
<1>11. QED
    BY <1>10 DEF r

\* What an inflater makes of a legal reference is the text a piece further.
LEMMA Inflated ==
    ASSUME data \in Seq(Bytes), NEW w \in 0 .. Len(data), NEW offset \in 1 .. MaxDist, offset <= w,
           NEW n \in TupleSize .. MaxReference, w + n <= Len(data),
           \A i \in 1 .. n : data[w + i] = data[w + i - offset]
    PROVE  Inflate(SubSeq(data, 1, w), offset, n) = SubSeq(data, 1, w + n)
<1> DEFINE out == SubSeq(data, 1, w)
           more == SubSeq(data, w + 1, w + n)
           copy == [ i \in 1 .. n |-> out[Len(out) - offset + 1 + ((i - 1) % offset)] ]
<1>1. Len(data) \in Nat /\ \A i \in 1 .. Len(data) : data[i] \in Bytes
    BY LenProperties, ElementOfSeq
<1>2. n \in Nat /\ w \in Nat /\ offset \in Nat \ {0} /\ MaxDist \in Nat
    BY <1>1, SizesAre
<1>3. out \in Seq(Bytes) /\ Len(out) = w /\ \A i \in 1 .. w : out[i] = data[i]
    <2>1. \A i \in 1 .. w : data[i] \in Bytes
        BY <1>1
    <2>2. w - 1 + 1 = w /\ (1 <= w \/ w = 0) /\ \A i \in 1 .. w : 1 + i - 1 = i
        BY <1>2
    <2>3. /\ SubSeq(data, 1, w) \in Seq(Bytes)
          /\ Len(SubSeq(data, 1, w)) = IF 1 <= w THEN w - 1 + 1 ELSE 0
          /\ \A i \in 1 .. w - 1 + 1 : SubSeq(data, 1, w)[i] = data[1 + i - 1]
        BY <1>2, <2>1, SubSeqProperties
    <2>4. QED
        BY <2>2, <2>3
<1>4. more \in Seq(Bytes) /\ Len(more) = n /\ \A i \in 1 .. n : more[i] = data[w + i]
    <2>1. \A i \in w + 1 .. w + n : data[i] \in Bytes
        BY <1>1, <1>2
    <2>2. (w + n) - (w + 1) + 1 = n /\ (w + 1 <= w + n \/ n = 0) /\ \A i \in 1 .. n : (w + 1) + i - 1 = w + i
        BY <1>2
    <2>3. /\ SubSeq(data, w + 1, w + n) \in Seq(Bytes)
          /\ Len(SubSeq(data, w + 1, w + n)) = IF w + 1 <= w + n THEN (w + n) - (w + 1) + 1 ELSE 0
          /\ \A i \in 1 .. (w + n) - (w + 1) + 1 : SubSeq(data, w + 1, w + n)[i] = data[(w + 1) + i - 1]
        BY <1>2, <2>1, SubSeqProperties
    <2>4. QED
        BY <2>2, <2>3
<1> HIDE DEF out, more
<1>5. \A i \in 1 .. n : copy[i] = more[i]
    <2> SUFFICES ASSUME NEW i \in 1 .. n PROVE copy[i] = more[i]
        OBVIOUS
    <2> DEFINE r == (i - 1) % offset
    <2>1. r \in 0 .. offset - 1
        <3>1. i - 1 \in Int
            BY <1>2
        <3>2. QED
            BY <1>2, <3>1, Remainder
    <2>2. data[w - offset + 1 + r] = data[w + i]
        BY <1>2, CopyGoesOn
    <2> HIDE DEF r
    <2>3. w - offset + 1 + r \in 1 .. w
        BY <1>2, <2>1
    <2>4. copy[i] = out[w - offset + 1 + r]
        BY <1>3 DEF r
    <2>5. QED
        BY <1>3, <1>4, <2>2, <2>3, <2>4
<1>6. copy = more
    <2>1. more = [i \in 1 .. n |-> more[i]]
        BY <1>4, LenProperties
    <2>2. QED
        BY <1>5, <2>1
<1>7. Inflate(out, offset, n) = out \o copy
    <2>1. offset \in 1 .. Least(Len(out), MaxDist)
        BY <1>2, <1>3 DEF Least
    <2>2. QED
        BY <2>1 DEF Inflate
<1>8. out \o more = SubSeq(data, 1, w + n)
    <2>1. 1 \in 1 .. Len(data) + 1 /\ w \in 1 - 1 .. Len(data) /\ w + n \in w .. Len(data)
        BY <1>1, <1>2
    <2>2. QED
        BY <2>1, ConcatAdjacentSubSeq DEF out, more
<1>9. QED
    BY <1>6, <1>7, <1>8 DEF out

\* What a literal adds.
LEMMA Appended ==
    ASSUME data \in Seq(Bytes), NEW w \in 0 .. Len(data), w < Len(data)
    PROVE  Append(SubSeq(data, 1, w), data[w + 1]) = SubSeq(data, 1, w + 1)
<1>1. Len(data) \in Nat
    BY LenProperties
<1>2. w + 1 \in 1 .. Len(data) /\ 1 \in 1 .. Len(data) /\ w + 1 \in 1 .. Len(data) /\ (w + 1) - 1 = w
    BY <1>1
<1>3. SubSeq(data, 1, w + 1) = SubSeq(data, 1, (w + 1) - 1) \o << data[w + 1] >>
    BY <1>2, SubSeqRecursiveSecond
<1>4. SubSeq(data, 1, w) \in Seq(Bytes)
    <2>1. \A i \in 1 .. w : data[i] \in Bytes
        BY <1>1, ElementOfSeq
    <2>2. QED
        BY <1>1, <2>1, SubSeqProperties
<1>5. data[w + 1] \in Bytes
    BY <1>2, ElementOfSeq
<1>6. Append(SubSeq(data, 1, w), data[w + 1]) = SubSeq(data, 1, w) \o << data[w + 1] >>
    BY <1>4, <1>5, AppendProperties
<1>7. QED
    BY <1>2, <1>3, <1>6

-----------------------------------------------------------------------------
(* The steps of deflate.                                                   *)

\* The storage is about the text, which never changes.
LEMMA SameText ==
    UNCHANGED text =>
        /\ TextInv <=> TextInv'
        /\ \A q : TupleChain(q)' = TupleChain(q)
        /\ \A q, p, n : Repeats(q, p, n)' <=> Repeats(q, p, n)
        /\ \A cs, cells, head, n : LaidOut(cs, cells, head, n)' <=> LaidOut(cs, cells, head, n)
<1> SUFFICES ASSUME UNCHANGED text
             PROVE  /\ TextInv <=> TextInv'
                    /\ \A q : TupleChain(q)' = TupleChain(q)
                    /\ \A q, p, n : Repeats(q, p, n)' <=> Repeats(q, p, n)
                    /\ \A cs, cells, head, n : LaidOut(cs, cells, head, n)' <=> LaidOut(cs, cells, head, n)
    OBVIOUS
<1>1. data' = data /\ hash' = hash
    BY DEF text
<1>2. \A q : TupleChain(q)' = TupleChain(q)
    BY <1>1 DEF TupleChain
<1>3. TextInv <=> TextInv'
    BY <1>1 DEF TextInv, TupleChain
<1>4. \A q, p, n : Repeats(q, p, n)' <=> Repeats(q, p, n)
    BY <1>1 DEF Repeats
<1>5. \A cs, cells, head, n : LaidOut(cs, cells, head, n)' <=> LaidOut(cs, cells, head, n)
    BY <1>1 DEF LaidOut, Laid, Stored, Inserted, TupleChain, Told, Apart
<1>6. QED
    BY <1>2, <1>3, <1>4, <1>5

\* Steps that do not touch the search's state leave its invariant alone.
LEMMA DeflateFrame ==
    ASSUME SearchInv, UNCHANGED <<text, index, saved, grow>>, local' = local,
           phase = "write", phase' \in Between
    PROVE  TextInv' /\ IndexInv' /\ StateInv' /\ GrowInv' /\ ProbeInv' /\ YoungInv'
<1>1. TextInv /\ IndexInv /\ StateInv /\ YoungInv
    BY DEF SearchInv
<1>2. chains' = chains /\ chain_data' = chain_data /\ data' = data /\ saved' = saved
    BY DEF index, text
<1>3. TextInv'
    BY <1>1, SameText
<1>4. IndexInv'
    BY <1>1, <1>2 DEF IndexInv, Between
<1>5. StateInv'
    BY <1>1, <1>2 DEF StateInv, Between
<1>6. GrowInv' /\ ProbeInv'
    BY DEF GrowInv, ProbeInv, Between
<1>7. YoungInv'
    <2> SUFFICES ASSUME local.pos < MaxDist
                 PROVE  LaidOut(chains, chain_data, local.head, local.pos)'
        BY <1>2 DEF YoungInv, Between
    <2>1. LaidOut(chains, chain_data, local.head, local.pos)
        BY <1>1 DEF YoungInv, Between
    <2>2. LaidOut(chains, chain_data, local.head, local.pos)'
            <=> LaidOut(chains, chain_data, local.head, local.pos)
        BY <1>2, SameText
    <2>3. QED
        BY <2>1, <2>2
<1>8. QED
    BY <1>3, <1>4, <1>5, <1>6, <1>7

\* The match that is written next repeats bytes of the text.
LEMMA HeadMatch ==
    ASSUME MatchesInv, matches # <<>>, data \in Seq(Bytes)
    PROVE  LET match == Head(matches)
           IN  /\ match.position \in Nat /\ match.length \in Nat /\ match.length >= TupleSize
               /\ match.offset \in 1 .. MaxDist /\ match.offset <= match.position
               /\ match.position + match.length <= Len(data)
               /\ \A i \in 1 .. match.length :
                    data[match.position + i] = data[match.position - match.offset + i]
<1> DEFINE match == Head(matches)
           M == [position : Nat, offset : 1 .. MaxDist, length : Nat]
<1>1. matches \in Seq(M) /\ Len(matches) \in Nat \ {0}
    BY EmptySeq DEF MatchesInv
<1>2. match = matches[1] /\ match \in M /\ 1 \in 1 .. Len(matches)
    <2>1. 1 \in 1 .. Len(matches)
        BY <1>1
    <2>2. matches[1] \in M
        BY <1>1, <2>1, ElementOfSeq
    <2>3. Head(matches) = matches[1]
        BY <1>1
    <2>4. QED
        BY <2>1, <2>2, <2>3
<1>3. match.length >= TupleSize /\ Repeats(match.position, match.position - match.offset, match.length)
    BY <1>2 DEF MatchesInv
<1>4. match.position \in Nat /\ match.length \in Nat /\ match.offset \in 1 .. MaxDist
    BY <1>2
<1> HIDE DEF match
<1> DEFINE q == match.position
           f == match.offset
           n == match.length
<1>5. q \in Nat /\ n \in Nat /\ f \in 1 .. MaxDist /\ Repeats(q, q - f, n)
    BY <1>3, <1>4
<1> HIDE DEF q, f, n
<1>6. f <= q /\ q + n <= Len(data) /\ \A i \in 1 .. n : data[q + i] = data[q - f + i]
    BY <1>5, SizesAre DEF Repeats
<1>7. QED
    BY <1>3, <1>4, <1>6 DEF q, f, n, match

\* A piece of a match goes on with the text.
LEMMA PieceGoesOn ==
    ASSUME data \in Seq(Bytes), MatchesInv, matches # <<>>, OutputInv,
           Head(matches).position <= written,
           NEW n \in TupleSize .. MaxReference,
           written + n <= Head(matches).position + Head(matches).length
    PROVE  /\ Inflate(decoded, Head(matches).offset, n) = SubSeq(data, 1, written + n)
           /\ written + n \in 0 .. Len(data)
<1> DEFINE q == Head(matches).position
           f == Head(matches).offset
           m == Head(matches).length
<1>1. /\ q \in Nat /\ m \in Nat /\ f \in 1 .. MaxDist /\ f <= q /\ q + m <= Len(data)
      /\ \A i \in 1 .. m : data[q + i] = data[q - f + i]
      /\ q <= written /\ written + n <= q + m
    BY HeadMatch
<1> HIDE DEF q, f, m
<1>2. written \in 0 .. Len(data) /\ decoded = SubSeq(data, 1, written) /\ Len(data) \in Nat /\ n \in Nat
    BY LenProperties, SizesAre DEF OutputInv
<1>3. f <= written /\ written + n <= Len(data) /\ written + n \in 0 .. Len(data)
    BY <1>1, <1>2, SizesAre
<1>4. ASSUME NEW i \in 1 .. n PROVE data[written + i] = data[written + i - f]
    <2>1. (written - q) + i \in 1 .. m /\ q + ((written - q) + i) = written + i
          /\ q - f + ((written - q) + i) = written + i - f
        BY <1>1, <1>2
    <2>2. QED
        BY <1>1, <2>1
<1>5. Inflate(SubSeq(data, 1, written), f, n) = SubSeq(data, 1, written + n)
    BY <1>1, <1>2, <1>3, <1>4, Inflated
<1>6. QED
    BY <1>2, <1>3, <1>5 DEF f

\* The next match is like the ones before it.
LEMMA TailMatches ==
    ASSUME MatchesInv, matches # <<>>, UNCHANGED text, matches' = Tail(matches)
    PROVE  MatchesInv'
<1> DEFINE M == [position : Nat, offset : 1 .. MaxDist, length : Nat]
<1>1. matches \in Seq(M)
    BY DEF MatchesInv
<1>2. /\ matches' \in Seq(M) /\ Len(matches') = Len(matches) - 1 /\ Len(matches) \in Nat
      /\ \A i \in 1 .. Len(matches') : matches'[i] = matches[i + 1]
    BY <1>1, HeadTailProperties, LenProperties
<1>3. ASSUME NEW i \in 1 .. Len(matches')
      PROVE  /\ matches'[i].length >= TupleSize
             /\ Repeats(matches'[i].position, matches'[i].position - matches'[i].offset, matches'[i].length)
    <2>1. i + 1 \in 1 .. Len(matches) /\ matches'[i] = matches[i + 1]
        BY <1>2
    <2>2. QED
        BY <2>1 DEF MatchesInv
<1>4. \A q, p, n : Repeats(q, p, n)' <=> Repeats(q, p, n)
    BY SameText
<1>5. QED
    BY <1>2, <1>3, <1>4 DEF MatchesInv

LEMMA SameMatches == MatchesInv /\ UNCHANGED text /\ matches' = matches => MatchesInv'
<1> SUFFICES ASSUME MatchesInv, UNCHANGED text, matches' = matches PROVE MatchesInv'
    OBVIOUS
<1>1. \A q, p, n : Repeats(q, p, n)' <=> Repeats(q, p, n)
    BY SameText
<1>2. QED
    BY <1>1 DEF MatchesInv

\* A search is called only between matches, and only moves on from there.
LEMMA CallKeeps == SearchInv /\ CallSearch => SearchInv'
<1> SUFFICES ASSUME SearchInv, CallSearch PROVE SearchInv'
    OBVIOUS
<1>1. /\ UNCHANGED <<text, index, saved, grow>> /\ UNCHANGED text /\ local' = local
      /\ phase = "write" /\ phase' = "search" /\ phase' \in Between
      /\ matches' = matches /\ matches = <<>> /\ UNCHANGED output
    BY DEF CallSearch, Writing, Between, SearchInv, StateInv
<1>2. TextInv' /\ IndexInv' /\ StateInv' /\ GrowInv' /\ ProbeInv' /\ YoungInv'
    BY <1>1, DeflateFrame
<1>3. MatchesInv'
    BY <1>1, SameMatches DEF SearchInv
<1>4. OutputInv'
    BY <1>1 DEF SearchInv, OutputInv, text, output
<1>5. QED
    BY <1>2, <1>3, <1>4 DEF SearchInv

LEMMA FinishKeeps == SearchInv /\ Finish => SearchInv'
<1> SUFFICES ASSUME SearchInv, Finish PROVE SearchInv'
    OBVIOUS
<1>1. /\ UNCHANGED <<text, index, saved, grow>> /\ UNCHANGED text /\ local' = local
      /\ phase = "write" /\ phase' = "done" /\ phase' \in Between
      /\ matches' = matches /\ matches = <<>> /\ UNCHANGED output /\ written >= Len(data)
    BY DEF Finish, Writing, Between
<1>2. TextInv' /\ IndexInv' /\ StateInv' /\ GrowInv' /\ ProbeInv' /\ YoungInv'
    BY <1>1, DeflateFrame
<1>3. MatchesInv'
    BY <1>1, SameMatches DEF SearchInv
<1>4. OutputInv'
    <2>1. Len(data) \in Nat
        BY LenProperties DEF SearchInv, TextInv
    <2>2. QED
        BY <1>1, <2>1 DEF SearchInv, OutputInv, text, output
<1>5. QED
    BY <1>2, <1>3, <1>4 DEF SearchInv

LEMMA SkipKeeps == SearchInv /\ SkipCovered => SearchInv'
<1> SUFFICES ASSUME SearchInv, SkipCovered PROVE SearchInv'
    OBVIOUS
<1>1. /\ UNCHANGED <<text, index, saved, grow>> /\ UNCHANGED text /\ local' = local
      /\ phase = "write" /\ phase' = "write" /\ phase' \in Between
      /\ matches # <<>> /\ matches' = Tail(matches) /\ UNCHANGED output /\ left = 0
    BY DEF SkipCovered, Writing, Between
<1>2. TextInv' /\ IndexInv' /\ StateInv' /\ GrowInv' /\ ProbeInv' /\ YoungInv'
    BY <1>1, DeflateFrame
<1>3. MatchesInv'
    BY <1>1, TailMatches DEF SearchInv
<1>4. OutputInv'
    BY <1>1 DEF SearchInv, OutputInv, text, output
<1>5. QED
    BY <1>2, <1>3, <1>4 DEF SearchInv

LEMMA LiteralKeeps == SearchInv /\ WriteLiteral => SearchInv'
<1> SUFFICES ASSUME SearchInv, WriteLiteral PROVE SearchInv'
    OBVIOUS
<1>1. /\ UNCHANGED <<text, index, saved, grow>> /\ UNCHANGED text /\ local' = local
      /\ phase = "write" /\ phase' = "write" /\ phase' \in Between
      /\ matches' = matches /\ left = 0 /\ left' = 0
      /\ IF matches # <<>> THEN written < Head(matches).position ELSE written < Len(data)
      /\ decoded' = Append(decoded, data[written + 1]) /\ written' = written + 1
    BY DEF WriteLiteral, Writing, Between
<1>2. TextInv' /\ IndexInv' /\ StateInv' /\ GrowInv' /\ ProbeInv' /\ YoungInv'
    BY <1>1, DeflateFrame
<1>3. MatchesInv'
    BY <1>1, SameMatches DEF SearchInv
<1>4. data \in Seq(Bytes) /\ Len(data) \in Nat /\ written \in 0 .. Len(data)
      /\ decoded = SubSeq(data, 1, written)
    BY LenProperties DEF SearchInv, TextInv, OutputInv
<1>5. written < Len(data)
    <2>1. CASE matches = <<>>
        BY <1>1, <2>1
    <2>2. CASE matches # <<>>
        <3>1. /\ Head(matches).position \in Nat /\ Head(matches).length \in Nat
              /\ Head(matches).position + Head(matches).length <= Len(data)
            BY <1>4, <2>2, HeadMatch DEF SearchInv
        <3>2. QED
            BY <1>1, <1>4, <2>2, <3>1
    <2>3. QED
        BY <2>1, <2>2
<1>6. Append(decoded, data[written + 1]) = SubSeq(data, 1, written + 1)
    BY <1>4, <1>5, Appended
<1>7. OutputInv'
    BY <1>1, <1>4, <1>5, <1>6 DEF OutputInv, text
<1>8. QED
    BY <1>2, <1>3, <1>7 DEF SearchInv

LEMMA ReferenceKeeps == SearchInv /\ WriteReference => SearchInv'
<1> SUFFICES ASSUME SearchInv, WriteReference PROVE SearchInv'
    OBVIOUS
<1> DEFINE match == Head(matches)
<1>1. /\ UNCHANGED <<text, index, saved, grow>> /\ UNCHANGED text /\ local' = local
      /\ phase = "write" /\ phase' = "write" /\ phase' \in Between
      /\ matches # <<>> /\ left = 0 /\ left' = 0
      /\ AtMatch(match) /\ match.length <= MaxReference
      /\ decoded' = Inflate(decoded, match.offset, match.length)
      /\ written' = written + match.length
      /\ matches' = Tail(matches)
    BY DEF WriteReference, Writing, Between
<1>2. TextInv' /\ IndexInv' /\ StateInv' /\ GrowInv' /\ ProbeInv' /\ YoungInv'
    BY <1>1, DeflateFrame
<1>3. MatchesInv'
    BY <1>1, TailMatches DEF SearchInv
<1>4. data \in Seq(Bytes) /\ Len(data) \in Nat /\ written \in 0 .. Len(data) /\ MatchesInv /\ OutputInv
    BY LenProperties DEF SearchInv, TextInv, OutputInv
<1>5. match.position \in Nat /\ match.length \in Nat /\ match.length >= TupleSize
    BY <1>1, <1>4, HeadMatch
<1>6. match.position = written /\ match.length \in TupleSize .. MaxReference
    BY <1>1, <1>4, <1>5, SizesAre DEF AtMatch, Covered
<1>7. /\ Inflate(decoded, match.offset, match.length) = SubSeq(data, 1, written + match.length)
      /\ written + match.length \in 0 .. Len(data)
    <2>1. match.position <= written /\ written + match.length <= match.position + match.length
        BY <1>4, <1>5, <1>6
    <2>2. QED
        BY <1>1, <1>4, <1>6, <2>1, PieceGoesOn
<1>8. OutputInv'
    BY <1>1, <1>7 DEF OutputInv, text
<1>9. QED
    BY <1>2, <1>3, <1>8 DEF SearchInv

LEMMA PieceKeeps == SearchInv /\ WritePiece => SearchInv'
<1> SUFFICES ASSUME SearchInv, WritePiece PROVE SearchInv'
    OBVIOUS
<1> DEFINE match == Head(matches)
           todo  == IF left = 0 THEN match.length ELSE left
           piece == Least(todo, MaxReference)
<1>1. /\ UNCHANGED <<text, index, saved, grow>> /\ UNCHANGED text /\ local' = local
      /\ phase = "write" /\ phase' = "write" /\ phase' \in Between
      /\ matches # <<>>
      /\ left > 0 \/ (AtMatch(match) /\ match.length > MaxReference)
      /\ decoded' = Inflate(decoded, match.offset, piece)
      /\ written' = written + piece
      /\ IF MorePieces(todo - piece)
         THEN left' = todo - piece /\ UNCHANGED matches
         ELSE left' = 0 /\ matches' = Tail(matches)
    BY DEF WritePiece, Writing, Between
<1>2. TextInv' /\ IndexInv' /\ StateInv' /\ GrowInv' /\ ProbeInv' /\ YoungInv'
    BY <1>1, DeflateFrame
<1>3. MatchesInv'
    BY <1>1, TailMatches, SameMatches DEF SearchInv
<1>4. data \in Seq(Bytes) /\ Len(data) \in Nat /\ written \in 0 .. Len(data) /\ MatchesInv /\ OutputInv
    BY LenProperties DEF SearchInv, TextInv, OutputInv
<1>5. match.position \in Nat /\ match.length \in Nat /\ match.length >= TupleSize
    BY <1>1, <1>4, HeadMatch
<1>6. /\ left \in Nat
      /\ left > 0 => left > 3 /\ written >= match.position /\ written + left = match.position + match.length
    BY <1>4 DEF OutputInv
<1>7. /\ todo \in Nat /\ todo >= TupleSize
      /\ match.position <= written
      /\ written + todo = match.position + match.length
    <2>1. CASE left = 0
        BY <1>1, <1>4, <1>5, <2>1 DEF AtMatch, Covered
    <2>2. CASE left > 0
        BY <1>4, <1>5, <1>6, <2>2, SizesAre
    <2>3. QED
        BY <1>6, <2>1, <2>2
<1> HIDE DEF todo
<1>8. piece \in TupleSize .. MaxReference /\ piece <= todo
    BY <1>7, SizesAre DEF Least
<1> HIDE DEF piece
<1>9. written + piece <= match.position + match.length
    BY <1>4, <1>5, <1>7, <1>8, SizesAre
<1>10. /\ Inflate(decoded, match.offset, piece) = SubSeq(data, 1, written + piece)
       /\ written + piece \in 0 .. Len(data)
    BY <1>1, <1>4, <1>7, <1>8, <1>9, PieceGoesOn
<1>11. left' \in Nat /\ (left' > 0 => /\ matches' = matches /\ left' > 3
                                      /\ written' >= match.position
                                      /\ written' + left' = match.position + match.length)
    BY <1>1, <1>4, <1>5, <1>7, <1>8, SizesAre DEF MorePieces
<1>12. OutputInv'
    <2>1. data' = data
        BY <1>1 DEF text
    <2>2. written' \in 0 .. Len(data) /\ decoded' = SubSeq(data, 1, written')
        BY <1>1, <1>10
    <2>3. QED
        BY <1>1, <1>11, <2>1, <2>2 DEF OutputInv
<1>13. QED
    BY <1>2, <1>3, <1>12 DEF SearchInv

-----------------------------------------------------------------------------
(* The storage at the text's beginning.                                    *)

Places == [base : Nat \cup {-MaxDist}, capacity : Nat, data_index : Nat]

\* A track can be read wherever its cells have been copied to.
LEMMA ToldElsewhere ==
    ASSUME NEW cells, NEW moved, NEW from \in Nat, NEW to \in Nat, NEW track,
           Told(cells, from, track), to + Len(track) <= DataCount + Beyond,
           \A i \in 0 .. Len(track) - 1 : moved[to + i] = cells[from + i]
    PROVE  Told(moved, to, track)
<1> DEFINE L == Len(track)
<1>1. L \in Nat /\ L > 0
    BY EmptySeq DEF Told
<1>2. ASSUME NEW k \in 1 .. L - 1 PROVE moved[to + k - 1] = track[k] - track[k + 1]
    <2>1. k - 1 \in 0 .. L - 1 /\ to + (k - 1) = to + k - 1 /\ from + (k - 1) = from + k - 1
        BY <1>1
    <2>2. moved[to + (k - 1)] = cells[from + (k - 1)]
        BY <2>1
    <2>3. cells[from + k - 1] = track[k] - track[k + 1]
        BY DEF Told
    <2>4. QED
        BY <2>1, <2>2, <2>3
<1>3. moved[to + L - 1] = Terminator
    <2>1. L - 1 \in 0 .. L - 1 /\ to + (L - 1) = to + L - 1 /\ from + (L - 1) = from + L - 1
        BY <1>1
    <2>2. moved[to + (L - 1)] = cells[from + (L - 1)]
        BY <2>1
    <2>3. cells[from + L - 1] = Terminator
        BY DEF Told
    <2>4. QED
        BY <2>1, <2>2, <2>3
<1>4. QED
    BY <1>2, <1>3 DEF Told

InFront(pos, track) == <<pos>> \o track

LEMMA InFrontIs ==
    ASSUME NEW pos \in Nat, NEW track \in Seq(Nat)
    PROVE  /\ InFront(pos, track) \in Seq(Nat)
           /\ Len(InFront(pos, track)) = Len(track) + 1
           /\ InFront(pos, track)[1] = pos
           /\ \A i \in 1 .. Len(track) : InFront(pos, track)[i + 1] = track[i]
<1> DEFINE L == Len(track)
           longer == InFront(pos, track)
<1>1. L \in Nat
    OBVIOUS
<1>2. <<pos>> \in Seq(Nat) /\ Len(<<pos>>) = 1 /\ <<pos>>[1] = pos
    OBVIOUS
<1>3. /\ longer \in Seq(Nat) /\ Len(longer) = 1 + L
      /\ \A i \in 1 .. 1 + L : longer[i] = IF i <= 1 THEN <<pos>>[i] ELSE track[i - 1]
    BY <1>1, <1>2, ConcatProperties DEF InFront
<1>4. ASSUME NEW i \in 1 .. L PROVE longer[i + 1] = track[i]
    <2>1. i + 1 \in 1 .. 1 + L /\ ~(i + 1 <= 1) /\ (i + 1) - 1 = i
        BY <1>1
    <2>2. QED
        BY <1>3, <2>1
<1>5. QED
    BY <1>1, <1>2, <1>3, <1>4

\* A track gets longer at its front.
LEMMA ToldLonger ==
    ASSUME NEW cells, NEW pushed, NEW from \in Nat \ {0}, NEW track, NEW pos \in Nat,
           Told(cells, from, track),
           pushed[from - 1] = pos - track[1],
           \A i \in 0 .. Len(track) - 1 : pushed[from + i] = cells[from + i]
    PROVE  Told(pushed, from - 1, InFront(pos, track))
<1> DEFINE L == Len(track)
           longer == InFront(pos, track)
<1>1. track \in Seq(Nat) /\ L \in Nat /\ L > 0 /\ from + L <= DataCount + Beyond
    BY EmptySeq DEF Told
<1>2. longer \in Seq(Nat) /\ Len(longer) = L + 1 /\ longer[1] = pos
      /\ \A i \in 1 .. L : longer[i + 1] = track[i]
    BY <1>1, InFrontIs
<1>3. longer # <<>>
    BY <1>1, <1>2
<1> HIDE DEF longer
<1>4. ASSUME NEW k \in 1 .. (L + 1) - 1 PROVE pushed[(from - 1) + k - 1] = longer[k] - longer[k + 1]
    <2>1. CASE k = 1
        <3>1. (from - 1) + k - 1 = from - 1 /\ 1 \in 1 .. L
            BY <1>1, <2>1
        <3>2. longer[1] = pos /\ longer[1 + 1] = track[1]
            BY <1>2, <3>1
        <3>3. QED
            BY <2>1, <3>1, <3>2
    <2>2. CASE k # 1
        <3>1. /\ k - 1 \in 1 .. L - 1 /\ k - 1 \in 1 .. L /\ (k - 1) + 1 = k /\ k \in 1 .. L
              /\ (k - 1) - 1 \in 0 .. L - 1
              /\ (from - 1) + k - 1 = from + ((k - 1) - 1) /\ from + (k - 1) - 1 = from + ((k - 1) - 1)
            BY <1>1, <2>2
        <3>2. longer[(k - 1) + 1] = track[k - 1] /\ longer[k + 1] = track[k]
            BY <1>2, <3>1
        <3>3. cells[from + (k - 1) - 1] = track[k - 1] - track[(k - 1) + 1]
            BY <3>1 DEF Told
        <3>4. pushed[from + ((k - 1) - 1)] = cells[from + ((k - 1) - 1)]
            BY <3>1
        <3>5. QED
            BY <3>1, <3>2, <3>3, <3>4
    <2>3. QED
        BY <2>1, <2>2
<1>5. pushed[(from - 1) + (L + 1) - 1] = Terminator
    <2>1. L - 1 \in 0 .. L - 1 /\ (from - 1) + (L + 1) - 1 = from + (L - 1) /\ from + L - 1 = from + (L - 1)
        BY <1>1
    <2>2. pushed[from + (L - 1)] = cells[from + (L - 1)]
        BY <2>1
    <2>3. cells[from + L - 1] = Terminator
        BY DEF Told
    <2>4. QED
        BY <2>1, <2>2, <2>3
<1>6. (from - 1) + (L + 1) <= DataCount + Beyond
    BY <1>1, SizesAre
<1>7. Told(pushed, from - 1, longer)
    BY <1>2, <1>3, <1>4, <1>5, <1>6 DEF Told
<1>8. QED
    BY <1>7 DEF longer

\* One step along a track.
LEMMA ToldShorter ==
    ASSUME NEW cells, NEW from \in Nat, NEW track, Told(cells, from, track)
    PROVE  /\ Len(track) = 1 => cells[from] = Terminator
           /\ Len(track) # 1 =>
                /\ cells[from] = track[1] - track[2] /\ track[2] \in Nat
                /\ Told(cells, from + 1, Tail(track)) /\ Tail(track)[1] = track[2]
<1> DEFINE L == Len(track)
<1>1. track \in Seq(Nat) /\ L \in Nat /\ L > 0 /\ from + L <= DataCount + Beyond
      /\ cells[from + L - 1] = Terminator
    BY EmptySeq DEF Told
<1>2. ASSUME L = 1 PROVE cells[from] = Terminator
    BY <1>1, <1>2
<1>3. ASSUME L # 1
      PROVE  /\ cells[from] = track[1] - track[2] /\ track[2] \in Nat
             /\ Told(cells, from + 1, Tail(track)) /\ Tail(track)[1] = track[2]
    <2>0. L >= 2
        <3>1. \A n \in Nat : n > 0 /\ n # 1 => n >= 2
            OBVIOUS
        <3>2. QED
            BY <1>1, <1>3, <3>1, Zenon
    <2>1. 1 \in 1 .. L - 1 /\ 2 \in 1 .. L /\ from + 1 - 1 = from /\ 1 + 1 = 2
        BY <1>1, <2>0
    <2>2. cells[from] = track[1] - track[2] /\ track[2] \in Nat
        <3>1. cells[from + 1 - 1] = track[1] - track[1 + 1]
            BY <2>1 DEF Told
        <3>2. QED
            BY <1>1, <2>1, <3>1, ElementOfSeq
    <2> DEFINE rest == Tail(track)
    <2>3. rest \in Seq(Nat) /\ Len(rest) = L - 1 /\ \A i \in 1 .. L - 1 : rest[i] = track[i + 1]
        <3>1. track # <<>>
            BY DEF Told
        <3>2. QED
            BY <1>1, <3>1, HeadTailProperties
    <2> HIDE DEF rest
    <2>4. rest[1] = track[2] /\ rest # <<>>
        <3>1. Len(rest) # 0
            BY <1>1, <1>3, <2>3
        <3>2. QED
            BY <2>1, <2>3, <3>1, EmptySeq
    <2>5. ASSUME NEW k \in 1 .. (L - 1) - 1 PROVE cells[(from + 1) + k - 1] = rest[k] - rest[k + 1]
        <3>1. k \in 1 .. L - 1 /\ k + 1 \in 1 .. L - 1 /\ (from + 1) + k - 1 = from + (k + 1) - 1
            BY <1>1
        <3>2. cells[from + (k + 1) - 1] = track[k + 1] - track[(k + 1) + 1]
            BY <3>1 DEF Told
        <3>3. QED
            BY <2>3, <3>1, <3>2
    <2>6. cells[(from + 1) + (L - 1) - 1] = Terminator
        <3>1. (from + 1) + (L - 1) - 1 = from + L - 1
            BY <1>1
        <3>2. QED
            BY <1>1, <3>1
    <2>7. (from + 1) + (L - 1) <= DataCount + Beyond
        BY <1>1, SizesAre
    <2>8. Told(cells, from + 1, rest)
        BY <2>3, <2>4, <2>5, <2>6, <2>7 DEF Told
    <2>9. QED
        BY <2>2, <2>4, <2>8 DEF rest
<1>4. QED
    BY <1>2, <1>3

\* What can still pay is counted, and a position that is inserted adds to it.
LEMMA UnpaidIs ==
    ASSUME NEW n \in Nat, NEW c, NEW paid \in SUBSET (0 .. n - 1)
    PROVE  /\ IsFiniteSet(Inserted(c, n) \ paid) /\ Cardinality(Inserted(c, n) \ paid) \in Nat
           /\ IsFiniteSet(paid) /\ Cardinality(paid) \in Nat /\ Cardinality(paid) <= n
           /\ Cardinality(Inserted(c, n + 1) \ paid) \in Nat
           /\ Cardinality(Inserted(c, n + 1) \ paid) >= Cardinality(Inserted(c, n) \ paid)
           /\ n + TupleSize <= Len(data) /\ TupleChain(n) = c
                => Cardinality(Inserted(c, n + 1) \ paid) = Cardinality(Inserted(c, n) \ paid) + 1
<1> DEFINE A == Inserted(c, n) \ paid
           B == Inserted(c, n + 1) \ paid
<1>1. IsFiniteSet(0 .. n - 1) /\ Cardinality(0 .. n - 1) = n /\ IsFiniteSet(0 .. n)
    BY FS_Interval
<1>2. A \subseteq 0 .. n - 1 /\ B \subseteq 0 .. n /\ A \subseteq B /\ n \notin A
    BY DEF Inserted
<1>3. IsFiniteSet(paid) /\ Cardinality(paid) <= n
    BY <1>1, FS_Subset
<1>4. IsFiniteSet(A) /\ IsFiniteSet(B) /\ Cardinality(A) <= Cardinality(B)
    BY <1>1, <1>2, FS_Subset
<1>5. Cardinality(paid) \in Nat /\ Cardinality(A) \in Nat /\ Cardinality(B) \in Nat
    BY <1>3, <1>4, FS_CardinalityType
<1>6. ASSUME n + TupleSize <= Len(data), TupleChain(n) = c PROVE Cardinality(B) = Cardinality(A) + 1
    <2>1. B = A \cup {n}
        BY <1>6 DEF Inserted
    <2>2. QED
        BY <1>2, <1>4, <2>1, FS_AddElement
<1>7. QED
    BY <1>3, <1>4, <1>5, <1>6

\* Positions that are too near the end for a tuple change nothing.
LEMMA LaidFurther ==
    ASSUME NEW cs, NEW cells, NEW head, NEW n \in Nat, LaidOut(cs, cells, head, n),
           cs \in [Chains -> Places]
    PROVE  LaidOut(cs, cells, head, n + 1)
<1>1. PICK tracks \in [Chains -> Seq(Nat)], paid \in SUBSET (0 .. n - 1) :
            Laid(cs, cells, head, n, tracks, paid)
    BY DEF LaidOut
<1>2. paid \in SUBSET (0 .. (n + 1) - 1)
    OBVIOUS
<1>3. ASSUME NEW c \in Chains, cs[c].base >= 0 PROVE Stored(cs, cells, head, n + 1, c, tracks[c], paid)
    <2>1. Stored(cs, cells, head, n, c, tracks[c], paid)
        BY <1>1, <1>3 DEF Laid
    <2>2. /\ Cardinality(Inserted(c, n) \ paid) \in Nat /\ Cardinality(Inserted(c, n + 1) \ paid) \in Nat
          /\ Cardinality(Inserted(c, n + 1) \ paid) >= Cardinality(Inserted(c, n) \ paid)
        BY UnpaidIs
    <2>3. Len(tracks[c]) \in Nat /\ cs[c].capacity \in Nat
        BY DEF Places
    <2>4. 2 * Cardinality(Inserted(c, n) \ paid) >= Len(tracks[c]) - cs[c].capacity
        BY <2>1 DEF Stored
    <2>5. 2 * Cardinality(Inserted(c, n + 1) \ paid) >= Len(tracks[c]) - cs[c].capacity
        BY <2>2, <2>3, <2>4
    <2>6. QED
        BY <2>1, <2>5 DEF Stored
<1>4. Laid(cs, cells, head, n + 1, tracks, paid)
    BY <1>1, <1>3 DEF Laid
<1>5. QED
    BY <1>2, <1>4 DEF LaidOut

\* A tuple that is new starts a chain at cell 0.
LEMMA LaidStarted ==
    ASSUME NEW cs \in [Chains -> Places], NEW cells, NEW head, NEW n \in Nat,
           LaidOut(cs, cells, head, n), cells[0] = Terminator,
           NEW c \in Chains, cs[c].base < 0, n + TupleSize <= Len(data), TupleChain(n) = c
    PROVE  LaidOut([cs EXCEPT ![c] = [base |-> n, capacity |-> 0, data_index |-> 0]],
                   cells, head, n + 1)
<1> DEFINE started == [cs EXCEPT ![c] = [base |-> n, capacity |-> 0, data_index |-> 0]]
<1>1. PICK tracks \in [Chains -> Seq(Nat)], paid \in SUBSET (0 .. n - 1) :
            Laid(cs, cells, head, n, tracks, paid)
    BY DEF LaidOut
<1> DEFINE longer == [tracks EXCEPT ![c] = <<n>>]
<1>2. paid \in SUBSET (0 .. (n + 1) - 1) /\ longer \in [Chains -> Seq(Nat)]
    OBVIOUS
<1>3. /\ started[c] = [base |-> n, capacity |-> 0, data_index |-> 0] /\ longer[c] = <<n>>
      /\ \A d \in Chains \ {c} : started[d] = cs[d] /\ longer[d] = tracks[d]
    OBVIOUS
<1> HIDE DEF started, longer
<1>4. ASSUME NEW d \in Chains, started[d].base >= 0
      PROVE  Stored(started, cells, head, n + 1, d, longer[d], paid)
    <2>1. /\ Cardinality(Inserted(d, n) \ paid) \in Nat /\ Cardinality(Inserted(d, n + 1) \ paid) \in Nat
          /\ Cardinality(Inserted(d, n + 1) \ paid) >= Cardinality(Inserted(d, n) \ paid)
          /\ d = c => Cardinality(Inserted(d, n + 1) \ paid) = Cardinality(Inserted(d, n) \ paid) + 1
        BY UnpaidIs
    <2>2. CASE d = c
        <3>1. started[d].base = n /\ started[d].capacity = 0 /\ started[d].data_index = 0 /\ longer[d] = <<n>>
            BY <1>3, <2>2
        <3>2. Len(<<n>>) = 1 /\ <<n>>[1] = n /\ <<n>> \in Seq(Nat) /\ <<n>> # <<>>
            OBVIOUS
        <3>3. Told(cells, 0, <<n>>)
            <4>1. 0 + 1 - 1 = 0 /\ 0 + 1 <= DataCount + Beyond
                BY SizesAre
            <4>2. \A k \in 1 .. 1 - 1 : FALSE
                OBVIOUS
            <4>3. QED
                BY <3>2, <4>1, <4>2 DEF Told
        <3>4. 2 * Cardinality(Inserted(d, n + 1) \ paid) >= 1 - 0
            BY <2>1, <2>2
        <3>5. QED
            BY <3>1, <3>2, <3>3, <3>4 DEF Stored
    <2>3. CASE d # c
        <3>1. started[d] = cs[d] /\ longer[d] = tracks[d]
            BY <1>3, <2>3
        <3>2. Stored(cs, cells, head, n, d, tracks[d], paid)
            BY <1>1, <1>4, <3>1 DEF Laid
        <3>3. Len(tracks[d]) \in Nat /\ cs[d].capacity \in Nat
            BY DEF Places
        <3>4. 2 * Cardinality(Inserted(d, n) \ paid) >= Len(tracks[d]) - cs[d].capacity
            BY <3>2 DEF Stored
        <3>5. 2 * Cardinality(Inserted(d, n + 1) \ paid) >= Len(tracks[d]) - cs[d].capacity
            BY <2>1, <3>3, <3>4
        <3>6. QED
            BY <3>1, <3>2, <3>5 DEF Stored
    <2>4. QED
        BY <2>2, <2>3
<1>5. ASSUME NEW d \in Chains, NEW e \in Chains, d # e, started[d].base >= 0, started[e].base >= 0,
             started[d].data_index # 0, started[e].data_index # 0
      PROVE  Apart(started, longer, d, e)
    <2>1. d # c /\ e # c
        BY <1>3, <1>5
    <2>2. started[d] = cs[d] /\ longer[d] = tracks[d] /\ started[e] = cs[e] /\ longer[e] = tracks[e]
        BY <1>3, <2>1
    <2>3. Apart(cs, tracks, d, e)
        BY <1>1, <1>5, <2>2 DEF Laid
    <2>4. QED
        BY <2>2, <2>3 DEF Apart
<1>6. Laid(started, cells, head, n + 1, longer, paid)
    BY <1>1, <1>4, <1>5 DEF Laid
<1>7. QED
    BY <1>2, <1>6 DEF LaidOut, started

\* A position is put in front of a chain that has room.
LEMMA LaidPushed ==
    ASSUME NEW cs \in [Chains -> Places], NEW cells \in [Memory -> 0 .. Terminator], NEW head, head \in Nat,
           NEW n \in Nat, LaidOut(cs, cells, head, n),
           NEW c \in Chains, cs[c].base >= 0, cs[c].capacity > 0,
           n + TupleSize <= Len(data), TupleChain(n) = c
    PROVE  /\ LaidOut([cs EXCEPT ![c] = [base |-> n, capacity |-> cs[c].capacity - 1,
                                         data_index |-> cs[c].data_index - 1]],
                      [cells EXCEPT ![cs[c].data_index - 1] = n - cs[c].base], head, n + 1)
           /\ \E track : /\ Told([cells EXCEPT ![cs[c].data_index - 1] = n - cs[c].base],
                                cs[c].data_index, track)
                         /\ track[1] = cs[c].base
<1> DEFINE first == cs[c].data_index
           room == cs[c].capacity
           pushed == [cs EXCEPT ![c] = [base |-> n, capacity |-> room - 1, data_index |-> first - 1]]
           after == [cells EXCEPT ![first - 1] = n - cs[c].base]
<1>1. PICK tracks \in [Chains -> Seq(Nat)], paid \in SUBSET (0 .. n - 1) :
            Laid(cs, cells, head, n, tracks, paid)
    BY DEF LaidOut
<1> DEFINE longer == [tracks EXCEPT ![c] = InFront(n, tracks[c])]
           L == Len(tracks[c])
<1>2. /\ Told(cells, first, tracks[c]) /\ tracks[c][1] = cs[c].base
      /\ first \in Nat /\ room \in Nat /\ room > 0 /\ L \in Nat
      /\ first - room >= 1 /\ first + L <= head
      /\ 2 * Cardinality(Inserted(c, n) \ paid) >= L - room
      /\ head <= DataCount
    <2>1. Stored(cs, cells, head, n, c, tracks[c], paid) /\ head <= DataCount
        BY <1>1 DEF Laid
    <2>2. first \in Nat /\ room \in Nat /\ room > 0 /\ L \in Nat
        BY DEF Places
    <2>3. QED
        BY <2>1, <2>2 DEF Stored
<1>3. first - 1 \in Memory /\ first \in Nat \ {0}
    <2>1. \A f, r, l, h \in Nat : r > 0 /\ f - r >= 1 /\ f + l <= h /\ h <= DataCount
                                    => f - 1 \in Memory /\ f \in Nat \ {0}
        BY SizesAre DEF Memory
    <2>2. QED
        BY <1>2, <2>1, Zenon
<1>4. /\ after[first - 1] = n - tracks[c][1]
      /\ \A i \in Nat : i # first - 1 => after[i] = cells[i]
    BY <1>2, <1>3
<1>5. /\ Told(after, first - 1, InFront(n, tracks[c])) /\ InFront(n, tracks[c]) \in Seq(Nat)
      /\ InFront(n, tracks[c])[1] = n /\ Len(InFront(n, tracks[c])) = L + 1
    <2>1. \A i \in 0 .. Len(tracks[c]) - 1 : after[first + i] = cells[first + i]
        BY <1>2, <1>4
    <2>2. n \in Nat /\ after[first - 1] = n - tracks[c][1] /\ first \in Nat \ {0}
          /\ Told(cells, first, tracks[c])
        BY <1>2, <1>3, <1>4
    <2>3. Told(after, first - 1, InFront(n, tracks[c]))
        <3> HIDE DEF after, first
        <3>1. QED
            BY <2>1, <2>2, ToldLonger, Zenon
    <2>4. QED
        BY <2>3, InFrontIs
<1>6. paid \in SUBSET (0 .. (n + 1) - 1) /\ longer \in [Chains -> Seq(Nat)]
    BY <1>5
<1>7. /\ pushed[c] = [base |-> n, capacity |-> room - 1, data_index |-> first - 1]
      /\ longer[c] = InFront(n, tracks[c])
      /\ \A d \in Chains \ {c} : pushed[d] = cs[d] /\ longer[d] = tracks[d]
    OBVIOUS
<1> HIDE DEF pushed, longer, after
<1>8. ASSUME NEW d \in Chains, pushed[d].base >= 0
      PROVE  Stored(pushed, after, head, n + 1, d, longer[d], paid)
    <2>1. /\ Cardinality(Inserted(d, n) \ paid) \in Nat /\ Cardinality(Inserted(d, n + 1) \ paid) \in Nat
          /\ Cardinality(Inserted(d, n + 1) \ paid) >= Cardinality(Inserted(d, n) \ paid)
          /\ d = c => Cardinality(Inserted(d, n + 1) \ paid) = Cardinality(Inserted(d, n) \ paid) + 1
        BY UnpaidIs
    <2>2. CASE d = c
        <3>1. /\ pushed[d].base = n /\ pushed[d].capacity = room - 1 /\ pushed[d].data_index = first - 1
              /\ longer[d] = InFront(n, tracks[c])
            BY <1>7, <2>2
        <3>2. 2 * Cardinality(Inserted(d, n + 1) \ paid) >= (L + 1) - (room - 1)
            BY <1>2, <2>1, <2>2
        <3>3. (first - 1) - (room - 1) >= 1 /\ (first - 1) + (L + 1) <= head
            BY <1>2
        <3>4. QED
            BY <1>5, <3>1, <3>2, <3>3 DEF Stored
    <2>3. CASE d # c
        <3>1. pushed[d] = cs[d] /\ longer[d] = tracks[d]
            BY <1>7, <2>3
        <3>2. Stored(cs, cells, head, n, d, tracks[d], paid)
            BY <1>1, <1>8, <3>1 DEF Laid
        <3> DEFINE at == cs[d].data_index
                   rest == cs[d].capacity
                   M == Len(tracks[d])
        <3>3. M \in Nat /\ rest \in Nat /\ at \in Nat
            BY DEF Places
        <3>4. /\ Told(cells, at, tracks[d])
              /\ (at = 0 /\ M = 1 /\ rest = 0) \/ (at - rest >= 1 /\ at + M <= head)
              /\ 2 * Cardinality(Inserted(d, n) \ paid) >= M - rest
            BY <3>2 DEF Stored
        <3>5. \A i \in 0 .. M - 1 : after[at + i] = cells[at + i]
            <4> SUFFICES ASSUME NEW i \in 0 .. M - 1 PROVE at + i # first - 1
                BY <1>4, <3>3
            <4>1. CASE at = 0
                <5>1. M = 1
                    BY <3>3, <3>4, <4>1
                <5>2. \A f, r \in Nat : r > 0 /\ f - r >= 1 => f - 1 # 0
                    OBVIOUS
                <5>3. first - 1 # 0
                    BY <1>2, <5>2, Zenon
                <5>4. at + i = 0
                    <6>1. 0 .. 1 - 1 = {0} /\ 0 + 0 = 0
                        OBVIOUS
                    <6>2. QED
                        BY <4>1, <5>1, <6>1, Zenon
                <5>5. QED
                    BY <5>3, <5>4, Zenon
            <4>2. CASE at # 0
                <5>1. Apart(cs, tracks, c, d)
                    BY <1>1, <1>3, <1>8, <2>3, <3>1, <4>2 DEF Laid
                <5>2. first + L <= at - rest \/ at + M <= first - room
                    BY <5>1 DEF Apart
                <5>3. \A f, l, r, a, m, o, k \in Nat :
                        r > 0 /\ k <= m - 1 /\ (f + l <= a - o \/ a + m <= f - r) => a + k # f - 1
                    OBVIOUS
                <5>4. i \in Nat /\ i <= M - 1
                    BY <3>3
                <5>5. QED
                    BY <1>2, <3>3, <5>2, <5>3, <5>4, Zenon
            <4>3. QED
                BY <4>1, <4>2
        <3>6. Told(after, at, tracks[d])
            <4>1. at + M <= DataCount + Beyond
                BY <3>4 DEF Told
            <4>2. QED
                BY <3>3, <3>4, <3>5, <4>1, ToldElsewhere
        <3>7. 2 * Cardinality(Inserted(d, n + 1) \ paid) >= M - rest
            BY <2>1, <3>3, <3>4
        <3>8. QED
            BY <3>1, <3>2, <3>6, <3>7 DEF Stored
    <2>4. QED
        BY <2>2, <2>3
<1>9. ASSUME NEW d \in Chains, NEW e \in Chains, d # e, pushed[d].base >= 0, pushed[e].base >= 0,
             pushed[d].data_index # 0, pushed[e].data_index # 0
      PROVE  Apart(pushed, longer, d, e)
    <2>1. cs[d].base >= 0 /\ cs[e].base >= 0 /\ cs[d].data_index # 0 /\ cs[e].data_index # 0
        BY <1>2, <1>3, <1>7, <1>9
    <2>2. Apart(cs, tracks, d, e)
        BY <1>1, <1>9, <2>1 DEF Laid
    <2>3. ASSUME NEW f \in Chains
          PROVE  /\ pushed[f].data_index + Len(longer[f]) = cs[f].data_index + Len(tracks[f])
                 /\ pushed[f].data_index - pushed[f].capacity = cs[f].data_index - cs[f].capacity
        <3>1. CASE f = c
            <4>1. /\ pushed[f].capacity = room - 1 /\ pushed[f].data_index = first - 1
                  /\ Len(longer[f]) = L + 1
                BY <1>5, <1>7, <3>1
            <4>2. (first - 1) + (L + 1) = first + L /\ (first - 1) - (room - 1) = first - room
                BY <1>2
            <4>3. QED
                BY <3>1, <4>1, <4>2
        <3>2. CASE f # c
            BY <1>7, <3>2
        <3>3. QED
            BY <3>1, <3>2
    <2>4. QED
        BY <2>2, <2>3 DEF Apart
<1>10. Laid(pushed, after, head, n + 1, longer, paid)
    BY <1>1, <1>8, <1>9 DEF Laid
<1>11. LaidOut(pushed, after, head, n + 1)
    BY <1>6, <1>10 DEF LaidOut
<1>12. Told(after, first, tracks[c])
    <2>1. \A i \in 0 .. L - 1 : after[first + i] = cells[first + i]
        <3>1. \A f, l \in Nat : \A i \in 0 .. l - 1 : f + i \in Nat /\ f + i # f - 1
            OBVIOUS
        <3>2. QED
            BY <1>2, <1>4, <3>1, Zenon
    <2>2. first + L <= DataCount + Beyond /\ Told(cells, first, tracks[c]) /\ first \in Nat
        BY <1>2 DEF Told
    <2> HIDE DEF first
    <2>3. QED
        BY <2>1, <2>2, ToldElsewhere
<1>13. QED
    BY <1>2, <1>11, <1>12 DEF pushed, after

\* Cells are copied to another place.
Copied(cells, from, to, n) ==
    [i \in Memory |-> IF i \in to .. to + n - 1 THEN cells[from + i - to] ELSE cells[i]]

LEMMA CopiedIs ==
    ASSUME NEW cells \in [Memory -> 0 .. Terminator], NEW from \in Nat, NEW to \in Nat, NEW n \in Nat,
           from + n <= DataCount + Beyond, to + n <= DataCount + Beyond
    PROVE  Copied(cells, from, to, n) \in [Memory -> 0 .. Terminator]
<1>1. ASSUME NEW i \in Memory, i \in to .. to + n - 1 PROVE from + i - to \in Memory
    BY <1>1, SizesAre DEF Memory
<1>2. QED
    BY <1>1 DEF Copied

\* A chain without room moves to a block of twice its size.  Its positions pay
\* for that, and those of the whole window could pay for all of chain_data.
LEMMA LaidMoved ==
    ASSUME NEW cs \in [Chains -> Places], NEW cells \in [Memory -> 0 .. Terminator], NEW head \in Nat \ {0},
           NEW n \in Nat, n < MaxDist, LaidOut(cs, cells, head, n),
           NEW c \in Chains, cs[c].base >= 0, cs[c].base < n, cs[c].capacity = 0,
           NEW len
    PROVE  len = CellsFor(cells, cs[c].data_index, MaxDist - (n - cs[c].base))
        => /\ len \in Nat \ {0} /\ head + 2 * len <= DataCount
           /\ LaidOut([cs EXCEPT ![c] = [base |-> cs[c].base, capacity |-> len, data_index |-> head + len]],
                      Copied(cells, cs[c].data_index, head + len, len), head + 2 * len, n)
<1>0. SUFFICES ASSUME len = CellsFor(cells, cs[c].data_index, MaxDist - (n - cs[c].base))
      PROVE  /\ len \in Nat \ {0} /\ head + 2 * len <= DataCount
             /\ LaidOut([cs EXCEPT ![c] = [base |-> cs[c].base, capacity |-> len, data_index |-> head + len]],
                        Copied(cells, cs[c].data_index, head + len, len), head + 2 * len, n)
    OBVIOUS
<1> DEFINE first == cs[c].data_index
           moved == [cs EXCEPT ![c] = [base |-> cs[c].base, capacity |-> len, data_index |-> head + len]]
           after == Copied(cells, first, head + len, len)
<1>1. PICK tracks \in [Chains -> Seq(Nat)], paid \in SUBSET (0 .. n - 1) :
            Laid(cs, cells, head, n, tracks, paid)
    BY DEF LaidOut
<1> DEFINE own == Inserted(c, n)
           after_paid == paid \cup own
           L == Len(tracks[c])
<1>2. /\ Told(cells, first, tracks[c]) /\ tracks[c][1] = cs[c].base
      /\ first \in Nat /\ L \in Nat /\ cs[c].base \in Nat
      /\ (first = 0 /\ L = 1) \/ first + L <= head
      /\ 2 * Cardinality(own \ paid) >= L
      /\ head <= DataCount /\ head <= 1 + 4 * Cardinality(paid)
    <2>1. Stored(cs, cells, head, n, c, tracks[c], paid) /\ head <= DataCount
          /\ head <= 1 + 4 * Cardinality(paid)
        BY <1>1 DEF Laid
    <2>2. first \in Nat /\ L \in Nat /\ cs[c].base \in Nat
        BY SizesAre DEF Places
    <2>3. first - 0 = first /\ L - 0 = L
        BY <2>2
    <2>4. QED
        BY <2>1, <2>2, <2>3 DEF Stored
<1>3. len = L
    <2> DEFINE distance == MaxDist - (n - cs[c].base)
    <2>1. distance \in Int /\ tracks[c][1] < distance
        BY <1>2, SizesAre
    <2>2. distance <= Terminator
        BY <1>2, SizesAre
    <2>3. Told(cells, first, tracks[c]) /\ first \in Nat
        BY <1>2
    <2> DEFINE track == tracks[c]
    <2>4. Told(cells, first, track) /\ track[1] < distance
        BY <2>1, <2>3
    <2> HIDE DEF distance, first, track
    <2>5. CellsFor(cells, first, distance) = Len(track)
        BY <2>1, <2>2, <2>3, <2>4, CellsForTrack, SMT
    <2>6. QED
        BY <1>0, <2>5 DEF distance, first, track
<1>4. /\ IsFiniteSet(own \ paid) /\ Cardinality(own \ paid) \in Nat
      /\ IsFiniteSet(paid) /\ Cardinality(paid) \in Nat
    BY UnpaidIs
<1>5. /\ after_paid \in SUBSET (0 .. n - 1)
      /\ Cardinality(after_paid) \in Nat /\ Cardinality(after_paid) <= n
      /\ Cardinality(after_paid) = Cardinality(paid) + Cardinality(own \ paid)
    <2>1. after_paid \in SUBSET (0 .. n - 1)
        BY DEF Inserted
    <2>2. Cardinality(after_paid) \in Nat /\ Cardinality(after_paid) <= n
        BY <2>1, UnpaidIs
    <2>3. after_paid = paid \cup (own \ paid) /\ paid \cap (own \ paid) = {}
        OBVIOUS
    <2>4. Cardinality(paid \cup (own \ paid))
            = Cardinality(paid) + Cardinality(own \ paid) - Cardinality(paid \cap (own \ paid))
        BY <1>4, FS_Union
    <2>5. Cardinality(paid \cap (own \ paid)) = 0
        BY <2>3, FS_EmptySet
    <2>6. \A p, u \in Nat : p + u - 0 = p + u
        OBVIOUS
    <2>7. Cardinality(after_paid) = Cardinality(paid) + Cardinality(own \ paid)
        BY <1>4, <2>3, <2>4, <2>5, <2>6, Zenon
    <2>8. QED
        BY <2>1, <2>2, <2>7, Zenon
<1> HIDE DEF own, after_paid
<1>6. /\ len \in Nat \ {0} /\ head + len \in Nat /\ head + 2 * len \in Nat
      /\ head + 2 * len <= 1 + 4 * Cardinality(after_paid)
      /\ head + 2 * len <= DataCount
    <2>1. \A p, u, l, a \in Nat : 2 * u >= l /\ head <= 1 + 4 * p /\ a = p + u /\ a <= n
                => head + 2 * l <= 1 + 4 * a /\ head + 2 * l <= DataCount
        BY SizesAre
    <2>2. L # 0
        BY <1>2, EmptySeq DEF Told
    <2>3. len \in Nat \ {0}
        BY <1>2, <1>3, <2>2
    <2>4. 2 * Cardinality(own \ paid) >= len /\ head <= 1 + 4 * Cardinality(paid)
        BY <1>2, <1>3
    <2>5. len \in Nat
        BY <2>3
    <2>6. /\ head + 2 * len <= 1 + 4 * Cardinality(after_paid)
          /\ head + 2 * len <= DataCount
        BY <1>4, <1>5, <2>1, <2>4, <2>5, Zenon
    <2>7. QED
        BY <2>3, <2>6
<1>7. /\ after \in [Memory -> 0 .. Terminator]
      /\ \A i \in 0 .. len - 1 : after[(head + len) + i] = cells[first + i]
      /\ \A i \in Memory : i < head + len => after[i] = cells[i]
    <2>1. first + len <= DataCount + Beyond /\ first \in Nat
        BY <1>2, <1>3 DEF Told
    <2>2. (head + len) + len <= DataCount + Beyond /\ len \in Nat /\ head + len \in Nat
        BY <1>6, SizesAre
    <2> DEFINE to == head + len
    <2>3. to \in Nat /\ to + len <= DataCount + Beyond
        BY <2>2
    <2> HIDE DEF first, to
    <2>4. Copied(cells, first, to, len) \in [Memory -> 0 .. Terminator]
        BY <2>1, <2>2, <2>3, CopiedIs
    <2>5. ASSUME NEW i \in 0 .. len - 1 PROVE Copied(cells, first, to, len)[to + i] = cells[first + i]
        <3>1. to + i \in Memory /\ to + i \in to .. to + len - 1 /\ first + (to + i) - to = first + i
            <4>1. len \in Nat /\ to \in Nat /\ first \in Nat /\ i \in Nat /\ i <= len - 1
                BY <2>1, <2>2, <2>3
            <4>2. to + i \in to .. to + len - 1
                BY <4>1
            <4>3. to + i \in Memory
                BY <2>3, <4>1, SizesAre DEF Memory
            <4>4. first + (to + i) - to = first + i
                BY <4>1
            <4>5. QED
                BY <4>2, <4>3, <4>4
        <3>2. QED
            BY <3>1 DEF Copied
    <2>6. ASSUME NEW i \in Memory, i < to PROVE Copied(cells, first, to, len)[i] = cells[i]
        <3>1. i \notin to .. to + len - 1
            BY <2>2, <2>3, <2>6 DEF Memory
        <3>2. QED
            BY <3>1 DEF Copied
    <2>7. QED
        BY <2>4, <2>5, <2>6 DEF to
<1>8. /\ moved[c] = [base |-> cs[c].base, capacity |-> len, data_index |-> head + len]
      /\ \A d \in Chains \ {c} : moved[d] = cs[d]
    OBVIOUS
<1> HIDE DEF after, moved
<1>9. ASSUME NEW d \in Chains, d # c, cs[d].base >= 0
      PROVE  Stored(moved, after, head + 2 * len, n, d, tracks[d], after_paid)
    <2> DEFINE at == cs[d].data_index
               room == cs[d].capacity
               M == Len(tracks[d])
    <2>1. moved[d] = cs[d] /\ Stored(cs, cells, head, n, d, tracks[d], paid)
        BY <1>1, <1>8, <1>9 DEF Laid
    <2>2. M \in Nat /\ room \in Nat /\ at \in Nat
        BY DEF Places
    <2>3. /\ Told(cells, at, tracks[d]) /\ tracks[d][1] = cs[d].base
          /\ (at = 0 /\ M = 1 /\ room = 0) \/ (at - room >= 1 /\ at + M <= head)
          /\ 2 * Cardinality(Inserted(d, n) \ paid) >= M - room
        BY <2>1 DEF Stored
    <2>4. Inserted(d, n) \ after_paid = Inserted(d, n) \ paid
        BY <1>9 DEF own, after_paid, Inserted
    <2>5. at + M <= head + len
        <3>1. \A a, m, l \in Nat : (a = 0 /\ m = 1) \/ a + m <= head => a + m <= head + l
            OBVIOUS
        <3>2. QED
            BY <1>6, <2>2, <2>3, <3>1
    <2>6. \A i \in 0 .. M - 1 : after[at + i] = cells[at + i]
        <3> SUFFICES ASSUME NEW i \in 0 .. M - 1 PROVE after[at + i] = cells[at + i]
            OBVIOUS
        <3>1. at + i \in Memory /\ at + i < head + len
            <4>1. \A a, m, l, k \in Nat : k <= m - 1 /\ a + m <= head + l /\ head + 2 * l <= DataCount
                                        => a + k \in 0 .. DataCount + Beyond - 1 /\ a + k < head + l
                BY SizesAre
            <4>2. i \in Nat /\ i <= M - 1
                BY <2>2
            <4>3. len \in Nat
                BY <1>6
            <4>4. at + i \in 0 .. DataCount + Beyond - 1 /\ at + i < head + len
                BY <1>6, <2>2, <2>5, <4>1, <4>2, <4>3, Zenon
            <4>5. QED
                BY <4>4 DEF Memory
        <3>2. QED
            BY <1>7, <3>1
    <2>7. Told(after, at, tracks[d])
        <3>1. at + M <= DataCount + Beyond
            BY <2>3 DEF Told
        <3>2. Told(cells, at, tracks[d]) /\ at \in Nat
            BY <2>2, <2>3
        <3> HIDE DEF at
        <3>3. QED
            BY <2>6, <3>1, <3>2, ToldElsewhere
    <2>8. at - room >= 1 /\ at + M <= head => at + M <= head + 2 * len
        BY <1>6, <2>2
    <2>9. QED
        BY <2>1, <2>3, <2>4, <2>7, <2>8 DEF Stored
<1>10. Stored(moved, after, head + 2 * len, n, c, tracks[c], after_paid)
    <2>1. /\ moved[c].base = cs[c].base /\ moved[c].capacity = len
          /\ moved[c].data_index = head + len
        BY <1>8
    <2>2. Told(after, head + len, tracks[c])
        <3>1. (head + len) + L <= DataCount + Beyond /\ head + len \in Nat
            BY <1>2, <1>3, <1>6, SizesAre
        <3>2. \A i \in 0 .. L - 1 : after[(head + len) + i] = cells[first + i]
            BY <1>3, <1>7
        <3> HIDE DEF first
        <3>3. QED
            BY <1>2, <3>1, <3>2, ToldElsewhere
    <2>3. Inserted(c, n) \ after_paid = {}
        BY DEF own, after_paid
    <2>4. 2 * Cardinality(Inserted(c, n) \ after_paid) >= L - len
        <3>1. Cardinality(Inserted(c, n) \ after_paid) = 0
            BY <2>3, FS_EmptySet
        <3>2. \A l \in Nat : 2 * 0 >= l - l
            OBVIOUS
        <3>3. QED
            BY <1>2, <1>3, <3>1, <3>2, Zenon
    <2>5. (head + len) - len >= 1 /\ (head + len) + L <= head + 2 * len
        BY <1>2, <1>3, <1>6
    <2>6. QED
        BY <1>2, <2>1, <2>2, <2>4, <2>5 DEF Stored
<1>11. ASSUME NEW d \in Chains, NEW e \in Chains, d # e, moved[d].base >= 0, moved[e].base >= 0,
              moved[d].data_index # 0, moved[e].data_index # 0
       PROVE  Apart(moved, tracks, d, e)
    <2>1. ASSUME NEW f \in Chains, f # c, moved[f].base >= 0, moved[f].data_index # 0
          PROVE  moved[f].data_index + Len(tracks[f]) <= moved[c].data_index - moved[c].capacity
        <3>1. moved[f] = cs[f] /\ Stored(cs, cells, head, n, f, tracks[f], paid)
            BY <1>1, <1>8, <2>1 DEF Laid
        <3>2. cs[f].data_index + Len(tracks[f]) <= head
            BY <2>1, <3>1 DEF Stored
        <3>3. moved[c].data_index - moved[c].capacity = head
            BY <1>6, <1>8
        <3>4. QED
            BY <3>1, <3>2, <3>3
    <2>2. CASE d = c
        BY <1>11, <2>1, <2>2 DEF Apart
    <2>3. CASE e = c
        BY <1>11, <2>1, <2>3 DEF Apart
    <2>4. CASE d # c /\ e # c
        <3>1. moved[d] = cs[d] /\ moved[e] = cs[e]
            BY <1>8, <2>4
        <3>2. Apart(cs, tracks, d, e)
            BY <1>1, <1>11, <3>1 DEF Laid
        <3>3. QED
            BY <3>1, <3>2 DEF Apart
    <2>5. QED
        BY <2>2, <2>3, <2>4
<1>12. \A d \in Chains : moved[d].base >= 0 => Stored(moved, after, head + 2 * len, n, d, tracks[d], after_paid)
    BY <1>8, <1>9, <1>10
<1>13. Laid(moved, after, head + 2 * len, n, tracks, after_paid)
    BY <1>6, <1>11, <1>12 DEF Laid
<1>14. LaidOut(moved, after, head + 2 * len, n)
    BY <1>5, <1>13 DEF LaidOut
<1>15. QED
    BY <1>6, <1>14 DEF moved, after

-----------------------------------------------------------------------------
(* The steps of a search that insert a position.                           *)

LEMMA SearchIs ==
    ASSUME SearchInv
    PROVE  /\ Len(data) \in Nat /\ data \in Seq(Bytes)
           /\ local \in Locals /\ local.pos \in Nat /\ local.head \in Nat \ {0}
           /\ local.lastEnd \in 0 .. NoChain /\ local.lastLength \in Nat /\ local.lastBest \in BOOLEAN
           /\ chains \in [Chains -> Places] /\ chain_data \in [Memory -> 0 .. Terminator]
           /\ local.pos + TupleSize <= Len(data) => TupleChain(local.pos) \in Chains
<1>1. data \in Seq(Bytes) /\ Len(data) \in Nat /\ \A q \in 0 .. Len(data) - TupleSize : TupleChain(q) \in Chains
    BY LenProperties DEF SearchInv, TextInv
<1>2. local \in Locals
    BY DEF SearchInv, StateInv
<1>3. /\ local.pos \in Nat /\ local.head \in Nat \ {0}
      /\ local.lastEnd \in 0 .. NoChain /\ local.lastLength \in Nat /\ local.lastBest \in BOOLEAN
    BY <1>2 DEF Locals
<1>4. chains \in [Chains -> Places] /\ chain_data \in [Memory -> 0 .. Terminator]
    BY DEF SearchInv, IndexInv, Places
<1>5. local.pos + TupleSize <= Len(data) => local.pos \in 0 .. Len(data) - TupleSize
    BY <1>1, <1>3, SizesAre
<1>6. QED
    BY <1>1, <1>2, <1>3, <1>4, <1>5

\* A search writes nothing.
LEMMA SearchFrame ==
    ASSUME SearchInv, UNCHANGED text, UNCHANGED output,
           phase \notin {"write", "done"}, phase' # "done"
    PROVE  TextInv' /\ OutputInv' /\ (matches' = matches => MatchesInv')
<1>1. TextInv'
    BY SameText DEF SearchInv
<1>2. OutputInv'
    <2>1. data' = data /\ written' = written /\ left' = left /\ decoded' = decoded
        BY DEF text, output
    <2>2. OutputInv /\ left = 0
        BY DEF SearchInv, OutputInv
    <2>3. QED
        BY <2>1, <2>2 DEF OutputInv
<1>3. matches' = matches => MatchesInv'
    BY SameMatches DEF SearchInv
<1>4. QED
    BY <1>1, <1>2, <1>3

\* Nothing that the next position does not already satisfy is asked of the last.
LEMMA MovedOn ==
    ASSUME SearchInv
    PROVE  local' = [local EXCEPT !.pos = @ + 1] =>
                /\ local' \in Locals /\ local'.pos = local.pos + 1 /\ local'.head = local.head
BY SearchIs DEF Locals

LEMMA SkipTailKeeps == SearchInv /\ SkipTail => SearchInv'
<1> SUFFICES ASSUME SearchInv, SkipTail PROVE SearchInv'
    OBVIOUS
<1>1. /\ UNCHANGED text /\ UNCHANGED output /\ phase = "search" /\ phase' = "search"
      /\ phase \notin {"write", "done"} /\ phase' # "done"
      /\ chains' = chains /\ chain_data' = chain_data /\ saved' = saved /\ matches' = matches
      /\ local' = [local EXCEPT !.pos = @ + 1]
    BY DEF SkipTail, Searching, index
<1>2. TextInv' /\ OutputInv' /\ MatchesInv'
    BY <1>1, SearchFrame
<1>3. local' \in Locals /\ local'.pos = local.pos + 1 /\ local'.head = local.head /\ local.pos \in Nat
    BY <1>1, MovedOn, SearchIs
<1>4. IndexInv'
    <2>1. \A c \in Chains : chains[c].base \in Int /\ chains[c].base < local.pos
        BY <1>1, SizesAre DEF SearchInv, IndexInv, Between
    <2>2. \A c \in Chains : chains[c].base < local'.pos /\ chains[c].base <= local'.pos
        BY <1>3, <2>1
    <2>3. QED
        BY <1>1, <2>2 DEF SearchInv, IndexInv, Between
<1>5. StateInv'
    BY <1>1, <1>3 DEF SearchInv, StateInv, Between
<1>6. GrowInv' /\ ProbeInv'
    BY <1>1 DEF GrowInv, ProbeInv
<1>7. YoungInv'
    <2> SUFFICES ASSUME local.pos + 1 < MaxDist
                 PROVE  LaidOut(chains, chain_data, local.head, local.pos)'
        BY <1>1, <1>3 DEF YoungInv, Between
    <2>1. LaidOut(chains, chain_data, local.head, local.pos)
        BY <1>1, <1>3, SizesAre DEF SearchInv, YoungInv, Between
    <2>2. LaidOut(chains, chain_data, local.head, local.pos + 1)
        BY <1>3, <2>1, SearchIs, LaidFurther
    <2>3. QED
        BY <1>1, <1>3, <2>2, SameText
<1>8. QED
    BY <1>2, <1>4, <1>5, <1>6, <1>7 DEF SearchInv

LEMMA ReturnKeeps == SearchInv /\ Return => SearchInv'
<1> SUFFICES ASSUME SearchInv, Return PROVE SearchInv'
    OBVIOUS
<1>1. /\ UNCHANGED text /\ UNCHANGED output /\ phase = "search" /\ phase' = "write"
      /\ phase \notin {"write", "done"} /\ phase' # "done"
      /\ chains' = chains /\ chain_data' = chain_data /\ saved' = local /\ matches' = matches
      /\ local' = local
    BY DEF Return, index
<1>2. TextInv' /\ OutputInv' /\ MatchesInv'
    BY <1>1, SearchFrame
<1>3. IndexInv'
    BY <1>1 DEF SearchInv, IndexInv, Between
<1>4. StateInv'
    BY <1>1 DEF SearchInv, StateInv, Between
<1>5. GrowInv' /\ ProbeInv'
    BY <1>1 DEF GrowInv, ProbeInv
<1>6. YoungInv'
    <2> SUFFICES ASSUME local.pos < MaxDist
                 PROVE  LaidOut(chains, chain_data, local.head, local.pos)'
        BY <1>1 DEF YoungInv, Between
    <2>1. LaidOut(chains, chain_data, local.head, local.pos)
        BY <1>1 DEF SearchInv, YoungInv, Between
    <2>2. QED
        BY <1>1, <2>1, SameText
<1>7. QED
    BY <1>2, <1>3, <1>4, <1>5, <1>6 DEF SearchInv

\* The position of an orphan is the first of its chain, unless the window has
\* moved on from the text's beginning.
LEMMA StartKeeps == SearchInv /\ StartChain => SearchInv'
<1> SUFFICES ASSUME SearchInv, StartChain PROVE SearchInv'
    OBVIOUS
<1> DEFINE c == TupleChain(local.pos)
           orphan == [base |-> local.pos, capacity |-> 0, data_index |-> 0]
<1>1. /\ UNCHANGED text /\ UNCHANGED output /\ phase = "search" /\ phase' = "search"
      /\ phase \notin {"write", "done"} /\ phase' # "done"
      /\ chain_data' = chain_data /\ saved' = saved /\ matches' = matches
      /\ local' = [local EXCEPT !.pos = @ + 1]
      /\ local.pos + TupleSize <= Len(data)
      /\ local.pos - chains[c].base >= MaxDist
    BY DEF StartChain, HasTuple, Searching
<1>2. chains' = [chains EXCEPT ![c] = orphan]
    BY DEF StartChain, Orphan
<1>3. TextInv' /\ OutputInv' /\ MatchesInv'
    BY <1>1, SearchFrame
<1>4. /\ local' \in Locals /\ local'.pos = local.pos + 1 /\ local'.head = local.head /\ local.pos \in Nat
      /\ c \in Chains /\ chains \in [Chains -> Places]
    BY <1>1, MovedOn, SearchIs
<1> HIDE DEF c
<1>5. /\ chains' \in [Chains -> Places] /\ chains'[c] = orphan
      /\ \A d \in Chains \ {c} : chains'[d] = chains[d]
    BY <1>2, <1>4 DEF Places
<1>6. IndexInv'
    <2>1. ASSUME NEW d \in Chains
          PROVE  /\ chains'[d].base <= local'.pos /\ chains'[d].base < local'.pos
                 /\ Sound(chains'[d])
        <3>1. CASE d = c
            BY <1>4, <1>5, <3>1, SizesAre DEF Sound
        <3>2. CASE d # c
            <4>1. /\ chains[d].base \in Int /\ chains[d].base < local.pos
                  /\ Sound(chains[d])
                BY <1>1, SizesAre DEF SearchInv, IndexInv, Between
            <4>2. chains'[d] = chains[d]
                BY <1>5, <3>2
            <4>3. QED
                BY <1>4, <4>1, <4>2
        <3>3. QED
            BY <3>1, <3>2
    <2>2. chain_data \in [Memory -> 0 .. Terminator] /\ chain_data[0] = Terminator
        BY DEF SearchInv, IndexInv
    <2>3. QED
        BY <1>1, <1>5, <2>1, <2>2 DEF IndexInv, Places
<1>7. StateInv'
    BY <1>1, <1>4 DEF SearchInv, StateInv, Between
<1>8. GrowInv' /\ ProbeInv'
    BY <1>1 DEF GrowInv, ProbeInv
<1>9. YoungInv'
    <2> SUFFICES ASSUME local.pos + 1 < MaxDist
                 PROVE  LaidOut(chains, chain_data, local.head, local.pos)'
        BY <1>1, <1>4 DEF YoungInv, Between
    <2>1. LaidOut(chains, chain_data, local.head, local.pos)
        BY <1>1, <1>4, SizesAre DEF SearchInv, YoungInv, Between
    <2>2. chains[c].base < 0
        <3>1. chains[c].base \in Nat \/ chains[c].base = -MaxDist
            BY <1>4 DEF Places
        <3>2. \A p \in Nat : \A b : (b \in Nat \/ b = -MaxDist) /\ p + 1 < MaxDist /\ p - b >= MaxDist => b < 0
            BY SizesAre
        <3>3. local.pos \in Nat /\ local.pos - chains[c].base >= MaxDist
            BY <1>1, <1>4
        <3>4. QED
            BY <3>1, <3>2, <3>3, Zenon
    <2>3. chain_data[0] = Terminator /\ TupleChain(local.pos) = c
        BY DEF SearchInv, IndexInv, c
    <2>4. LaidOut(chains', chain_data, local.head, local.pos + 1)
        BY <1>1, <1>2, <1>4, <2>1, <2>2, <2>3, LaidStarted
    <2>5. QED
        BY <1>1, <1>4, <2>4, SameText
<1>10. QED
    BY <1>3, <1>6, <1>7, <1>8, <1>9 DEF SearchInv

\* The storage is told by the fields of the chains.
LEMMA SamePlaces ==
    ASSUME NEW cs, NEW ds, NEW cells, NEW head, NEW n, LaidOut(cs, cells, head, n),
           \A d \in Chains : /\ ds[d].base = cs[d].base /\ ds[d].capacity = cs[d].capacity
                             /\ ds[d].data_index = cs[d].data_index
    PROVE  LaidOut(ds, cells, head, n)
<1>1. PICK tracks \in [Chains -> Seq(Nat)], paid \in SUBSET (0 .. n - 1) :
            Laid(cs, cells, head, n, tracks, paid)
    BY DEF LaidOut
<1>2. ASSUME NEW c \in Chains, ds[c].base >= 0 PROVE Stored(ds, cells, head, n, c, tracks[c], paid)
    <2>1. Stored(cs, cells, head, n, c, tracks[c], paid)
        BY <1>1, <1>2 DEF Laid
    <2>2. QED
        BY <2>1 DEF Stored
<1>3. ASSUME NEW c \in Chains, NEW d \in Chains, c # d, ds[c].base >= 0, ds[d].base >= 0,
             ds[c].data_index # 0, ds[d].data_index # 0
      PROVE  Apart(ds, tracks, c, d)
    <2>1. Apart(cs, tracks, c, d)
        BY <1>1, <1>3 DEF Laid
    <2>2. QED
        BY <2>1 DEF Apart
<1>4. Laid(ds, cells, head, n, tracks, paid)
    BY <1>1, <1>2, <1>3 DEF Laid
<1>5. QED
    BY <1>4 DEF LaidOut


\* A distance that fits its cell is stored as it is.
LEMMA DistanceFits ==
    ASSUME NEW x \in Nat, x <= Terminator
    PROVE  x % (Terminator + 1) = x
<1> DEFINE m == Terminator + 1
<1>1. m \in Nat \ {0} /\ x \in 0 .. m - 1 /\ m * 0 + x = x
    BY SizesAre
<1> HIDE DEF m
<1>2. (m * 0 + x) % m = x
    BY <1>1, RemainderIsUnique
<1>3. QED
    BY <1>1, <1>2 DEF m

\* Before the first probe nothing is found that would be reported.
Ready(p, begin, iter) ==
    /\ p \in Probes
    /\ p.target >= TupleSize
    /\ ~(p.length >= TupleSize /\ p.length >= local.lastLength)
    /\ p.begin = begin /\ p.iter = iter

LEMMA FirstProbeIs ==
    ASSUME NEW cs \in [Chains -> Places], NEW c \in Chains, NEW begin \in Nat,
           local.lastEnd \in 0 .. NoChain, local.lastLength \in Nat
    PROVE  Ready(FirstProbe(cs, c, begin), begin, cs[c].data_index + 1)
<1> DEFINE longer == local.lastLength - 1 > TupleSize
           end == IF longer THEN local.lastEnd ELSE NoChain
           endPos == IF end = NoChain THEN 0 ELSE cs[end].base
           endIter == IF end = NoChain THEN 0 ELSE cs[end].data_index
           target == IF longer THEN local.lastLength ELSE TupleSize
           length == IF longer THEN local.lastLength - 1 ELSE 0
           matchPos == IF longer THEN NoPosition ELSE 0
<1>1. FirstProbe(cs, c, begin) =
        [begin |-> begin, iter |-> cs[c].data_index + 1, end |-> end, endPos |-> endPos,
         endIter |-> endIter, target |-> target, length |-> length, matchPos |-> matchPos,
         best |-> FALSE, syncs |-> 0]
    BY DEF FirstProbe
<1>2. end \in 0 .. NoChain
    BY SizesAre DEF NoChain
<1>3. endPos \in Int /\ endIter \in Nat
    <2>1. end # NoChain => end \in Chains
        BY <1>2, SizesAre DEF NoChain, Chains
    <2> HIDE DEF end
    <2>2. end # NoChain => cs[end].base \in Int /\ cs[end].data_index \in Nat
        BY <2>1, SizesAre DEF Places
    <2>3. QED
        BY <2>2
<1>4. /\ target \in Nat /\ target >= TupleSize /\ length \in Nat
      /\ ~(length >= TupleSize /\ length >= local.lastLength)
    BY SizesAre
<1>5. matchPos \in Int /\ cs[c].data_index + 1 \in Nat
    BY DEF NoPosition, Places
<1> HIDE DEF end, endPos, endIter, target, length, matchPos
<1>6. QED
    BY <1>1, <1>2, <1>3, <1>4, <1>5 DEF Ready, Probes

\* What Insert needs of the chains and the storage it is given.
CanInsert(c, begin, cs, cells, head) ==
    /\ c = TupleChain(local.pos) /\ local.pos + TupleSize <= Len(data)
    /\ begin < local.pos /\ local.pos - begin < MaxDist
    /\ cells[0] = Terminator
    /\ cs[c].base = local.pos /\ cs[c].capacity > 0
    /\ \A d \in Chains : /\ cs[d].base <= local.pos
                         /\ Sound(cs[d])
    /\ local.pos < MaxDist => LaidOut([cs EXCEPT ![c].base = begin], cells, head, local.pos)

\* A position put in front of a chain that has room for it.
LEMMA InsertKeeps ==
    ASSUME SearchInv, UNCHANGED text, UNCHANGED output, matches' = matches, saved' = saved,
           phase \in {"search", "grow", "collect"},
           NEW c \in Chains, NEW begin \in Nat, NEW head \in Nat \ {0},
           NEW cs \in [Chains -> Places], NEW cells \in [Memory -> 0 .. Terminator],
           CanInsert(c, begin, cs, cells, head), Insert(c, begin, cs, cells, head)
    PROVE  SearchInv'
<1> DEFINE first == cs[c].data_index
           room == cs[c].capacity
           after == [cells EXCEPT ![first - 1] = local.pos - begin]
<1>1. /\ local.pos \in Nat /\ local \in Locals /\ local.lastEnd \in 0 .. NoChain
      /\ local.lastLength \in Nat /\ local.lastBest \in BOOLEAN
    BY SearchIs
<1>0. begin < local.pos /\ local.pos - begin < MaxDist /\ cells[0] = Terminator /\ c = TupleChain(local.pos)
      /\ local.pos + TupleSize <= Len(data) /\ cs[c].base = local.pos
    BY DEF CanInsert
<1>2. first \in Nat /\ room \in Nat /\ room > 0 /\ first > room /\ first <= DataCount
    <2>1. first \in Nat /\ room \in Nat
        BY DEF Places
    <2>2. Sound(cs[c]) /\ room > 0
        BY DEF CanInsert
    <2>3. first > room /\ (first < DataCount \/ first = DataCount)
        BY <2>2 DEF Sound
    <2>4. \A f \in Nat : f < DataCount \/ f = DataCount => f <= DataCount
        BY SizesAre
    <2>5. QED
        BY <2>1, <2>2, <2>3, <2>4, Zenon
<1>3. first - 1 \in Memory /\ first - 1 # 0 /\ room - 1 \in Nat /\ first - 1 \in Nat
    <2>1. \A f, r \in Nat : r > 0 /\ f > r /\ f <= DataCount
            => f - 1 \in Memory /\ f - 1 # 0 /\ r - 1 \in Nat /\ f - 1 \in Nat
        BY SizesAre DEF Memory
    <2>2. QED
        BY <1>2, <2>1, Zenon
<1>4. (local.pos - begin) % (Terminator + 1) = local.pos - begin /\ local.pos - begin \in 0 .. Terminator
    <2>1. local.pos - begin \in Nat /\ local.pos - begin <= Terminator
        <3>1. \A p, b \in Nat : b < p /\ p - b < MaxDist => p - b \in Nat /\ p - b <= Terminator
            BY SizesAre
        <3>2. QED
            BY <1>0, <1>1, <3>1, Zenon
    <2>2. QED
        BY <2>1, DistanceFits, SizesAre
<1>5. chain_data' = after
    BY <1>4 DEF Insert
<1>6. chains' = [cs EXCEPT ![c].capacity = room - 1, ![c].data_index = first - 1]
    BY DEF Insert
<1>7. /\ chains' \in [Chains -> Places]
      /\ chains'[c].base = local.pos /\ chains'[c].capacity = room - 1 /\ chains'[c].data_index = first - 1
      /\ \A d \in Chains \ {c} : chains'[d] = cs[d]
    BY <1>0, <1>3, <1>6 DEF Places
<1>8. after \in [Memory -> 0 .. Terminator] /\ after[0] = Terminator
    BY <1>3, <1>4 DEF CanInsert
<1>9. ASSUME local.pos < MaxDist
      PROVE  /\ LaidOut(chains', after, head, local.pos + 1)
             /\ \E track : Told(after, first, track) /\ track[1] = begin
    <2> DEFINE pre == [cs EXCEPT ![c].base = begin]
    <2>1. /\ pre \in [Chains -> Places]
          /\ pre[c].base = begin /\ pre[c].capacity = room /\ pre[c].data_index = first
          /\ \A d \in Chains \ {c} : pre[d] = cs[d]
        BY DEF Places
    <2>2. LaidOut(pre, cells, head, local.pos)
        BY <1>9 DEF CanInsert
    <2> HIDE DEF pre
    <2> DEFINE at == pre[c].data_index
               told == [cells EXCEPT ![at - 1] = local.pos - pre[c].base]
               laid == [pre EXCEPT ![c] = [base |-> local.pos, capacity |-> pre[c].capacity - 1,
                                           data_index |-> at - 1]]
    <2>3. pre[c].base >= 0 /\ pre[c].capacity > 0 /\ head \in Nat
        BY <1>2, <2>1
    <2>4. LaidOut(laid, told, head, local.pos + 1) /\ \E track : Told(told, at, track) /\ track[1] = pre[c].base
        <3>1. TupleChain(local.pos) = c /\ local.pos + TupleSize <= Len(data) /\ local.pos \in Nat
            BY <1>0, <1>1
        <3>2. pre \in [Chains -> Places]
            BY <2>1
        <3>3. QED
            BY <2>2, <2>3, <3>1, <3>2, LaidPushed, Zenon
    <2>5. told = after /\ at = first
        BY <2>1
    <2>6. /\ laid[c].base = local.pos /\ laid[c].capacity = room - 1 /\ laid[c].data_index = first - 1
          /\ \A d \in Chains \ {c} : laid[d] = cs[d]
        BY <2>1
    <2>7. \A d \in Chains : /\ chains'[d].base = laid[d].base /\ chains'[d].capacity = laid[d].capacity
                            /\ chains'[d].data_index = laid[d].data_index
        BY <1>7, <2>6
    <2> HIDE DEF laid, told, at
    <2>8. LaidOut(laid, after, head, local.pos + 1)
        BY <2>4, <2>5
    <2>9. LaidOut(chains', after, head, local.pos + 1)
        BY <2>7, <2>8, SamePlaces
    <2>10. QED
        BY <2>1, <2>4, <2>5, <2>9
<1> HIDE DEF after
<1>10. phase \notin {"write", "done"} /\ phase' \in {"search", "probe"}
    BY DEF Insert
<1>11. TextInv' /\ OutputInv' /\ MatchesInv'
    BY <1>10, SearchFrame
<1>12. ASSUME NEW d \in Chains
       PROVE  /\ chains'[d].base <= local.pos
              /\ Sound(chains'[d])
    <2>1. CASE d = c
        <3>1. \A f, r \in Nat : f > r /\ f <= DataCount => (r - 1 > 0 => f - 1 > r - 1) /\ f - 1 < DataCount
            BY SizesAre
        <3>2. local.pos <= local.pos
            BY <1>1
        <3>3. QED
            BY <1>2, <1>7, <2>1, <3>1, <3>2, Zenon DEF Sound
    <2>2. CASE d # c
        BY <1>7, <2>2 DEF CanInsert
    <2>3. QED
        BY <2>1, <2>2
<1> DEFINE submatch == local.lastLength - 1
           ahead == submatch > TupleSize /\ local.lastBest
<1>13. CASE ahead
    <2>1. /\ local' = [local EXCEPT !.pos = @ + 1, !.head = head, !.lastLength = submatch]
          /\ phase' = "search"
        BY <1>13 DEF Insert
    <2>2. submatch \in Nat
        BY <1>1, <1>13, SizesAre
    <2>3. local' \in Locals /\ local'.pos = local.pos + 1 /\ local'.head = head
        <3> HIDE DEF submatch
        <3>1. local.pos + 1 \in Nat
            BY <1>1
        <3>2. QED
            BY <1>1, <2>1, <2>2, <3>1 DEF Locals
    <2>4. IndexInv'
        <3>1. ASSUME NEW d \in Chains PROVE chains'[d].base < local'.pos /\ chains'[d].base <= local'.pos
            <4>1. chains'[d].base \in Int
                BY <1>7, SizesAre DEF Places
            <4>2. QED
                BY <1>1, <1>12, <2>3, <4>1
        <3>2. QED
            BY <1>5, <1>7, <1>8, <1>12, <2>1, <3>1 DEF IndexInv, Places
    <2>5. StateInv'
        BY <2>1, <2>3 DEF SearchInv, StateInv, Between
    <2>6. GrowInv' /\ ProbeInv'
        BY <2>1 DEF GrowInv, ProbeInv
    <2>7. YoungInv'
        <3> SUFFICES ASSUME local.pos + 1 < MaxDist
                     PROVE  LaidOut(chains, chain_data, local.head, local.pos)'
            BY <2>1, <2>3 DEF YoungInv, Between
        <3>1. LaidOut(chains', after, head, local.pos + 1)
            BY <1>1, <1>9, SizesAre
        <3>2. QED
            BY <1>5, <2>3, <3>1, SameText
    <2>8. QED
        BY <1>11, <2>4, <2>5, <2>6, <2>7 DEF SearchInv
<1>14. CASE ~ahead
    <2>1. /\ local' = [local EXCEPT !.head = head] /\ phase' = "probe"
          /\ probe' = FirstProbe([cs EXCEPT ![c].capacity = @ - 1, ![c].data_index = first - 1], c, begin)
        BY <1>14 DEF Insert
    <2>2. probe' = FirstProbe(chains', c, begin)
        BY <1>6, <2>1
    <2>3. /\ local' \in Locals /\ local'.pos = local.pos /\ local'.head = head
          /\ local'.lastLength = local.lastLength
        BY <1>1, <2>1 DEF Locals
    <2>4. IndexInv'
        BY <1>5, <1>7, <1>8, <1>12, <2>1, <2>3 DEF IndexInv, Places, Between
    <2>5. StateInv'
        <3>1. data' = data
            BY DEF text
        <3>2. QED
            BY <1>0, <2>1, <2>3, <3>1 DEF SearchInv, StateInv, Between
    <2>6. GrowInv'
        BY <2>1 DEF GrowInv
    <2>7. ProbeInv'
        <3>1. /\ probe' \in Probes
              /\ probe'.target >= TupleSize
              /\ ~(probe'.length >= TupleSize /\ probe'.length >= local.lastLength)
              /\ probe'.begin = begin /\ probe'.iter = chains'[c].data_index + 1
            <4>1. chains' \in [Chains -> Places]
                BY <1>7
            <4>2. Ready(FirstProbe(chains', c, begin), begin, chains'[c].data_index + 1)
                BY <1>1, <4>1, FirstProbeIs
            <4>3. QED
                BY <2>2, <4>2 DEF Ready
        <3>2. probe'.iter = first
            BY <1>2, <1>7, <3>1
        <3>3. probe'.begin < local.pos /\ probe'.begin >= local.pos - MaxDist
            <4>1. \A p, b \in Nat : b < p /\ p - b < MaxDist => b >= p - MaxDist
                BY SizesAre
            <4>2. QED
                BY <1>0, <1>1, <3>1, <4>1, Zenon
        <3>4. ASSUME local.pos < MaxDist
              PROVE  (\E track : Told(chain_data, probe.iter, track) /\ track[1] = probe.begin)'
            <4>1. PICK track : Told(after, first, track) /\ track[1] = begin
                BY <1>9, <3>4
            <4>2. Told(chain_data', probe'.iter, track) /\ track[1] = probe'.begin
                BY <1>5, <3>1, <3>2, <4>1
            <4>3. QED
                BY <4>2 DEF Told
        <3>5. QED
            BY <2>1, <2>3, <3>1, <3>3, <3>4 DEF ProbeInv, Sane, Walks, Stop
    <2>8. YoungInv'
        <3> SUFFICES ASSUME local.pos < MaxDist
                     PROVE  LaidOut(chains, chain_data, local.head, local.pos + 1)'
            BY <2>1, <2>3 DEF YoungInv, Between
        <3>1. LaidOut(chains', after, head, local.pos + 1)
            BY <1>9
        <3>2. QED
            BY <1>5, <2>3, <3>1, SameText
    <2>9. QED
        BY <1>11, <2>4, <2>5, <2>6, <2>7, <2>8 DEF SearchInv
<1>15. QED
    BY <1>13, <1>14

\* What is known of the chain of a position that is in reach.
LEMMA InReachIs ==
    ASSUME SearchInv, phase = "search", local.pos + TupleSize <= Len(data),
           NEW c, c = TupleChain(local.pos), local.pos - chains[c].base < MaxDist
    PROVE  /\ c \in Chains /\ chains[c].base \in Nat /\ chains[c].base < local.pos
           /\ chains[c].capacity \in Nat /\ chains[c].data_index \in Nat /\ chains[c].data_index < DataCount
<1>1. local.pos \in Nat /\ c \in Chains /\ chains \in [Chains -> Places]
    BY SearchIs
<1>2. /\ chains[c].base \in Nat \/ chains[c].base = -MaxDist
      /\ chains[c].capacity \in Nat /\ chains[c].data_index \in Nat
    BY <1>1 DEF Places
<1>3. \A p \in Nat : \A b : (b \in Nat \/ b = -MaxDist) /\ p - b < MaxDist => b \in Nat
    BY SizesAre
<1>4. chains[c].base \in Nat
    BY <1>1, <1>2, <1>3, Zenon
<1>5. chains[c].base < local.pos /\ Sound(chains[c])
    BY <1>1 DEF SearchInv, IndexInv, Between
<1>6. \A b \in Nat : ~(b < 0)
    OBVIOUS
<1>7. chains[c].data_index < DataCount
    BY <1>4, <1>5, <1>6, Zenon DEF Sound
<1>8. QED
    BY <1>1, <1>2, <1>4, <1>5, <1>7

LEMMA ExtendKeeps == SearchInv /\ ExtendChain => SearchInv'
<1> SUFFICES ASSUME SearchInv, ExtendChain PROVE SearchInv'
    OBVIOUS
<1> DEFINE c == TupleChain(local.pos)
           begin == chains[c].base
           cs == [chains EXCEPT ![c].base = local.pos]
<1>1. /\ UNCHANGED text /\ UNCHANGED output /\ matches' = matches /\ saved' = saved /\ phase = "search"
      /\ local.pos + TupleSize <= Len(data)
      /\ local.pos - begin < MaxDist /\ chains[c].capacity > 0
      /\ Insert(c, begin, cs, chain_data, local.head)
    BY DEF ExtendChain, HasTuple, Searching
<1> HIDE DEF c
<1>2. c = TupleChain(local.pos)
    BY DEF c
<1>3. /\ c \in Chains /\ begin \in Nat /\ begin < local.pos
      /\ chains[c].capacity \in Nat /\ chains[c].data_index \in Nat
    BY <1>1, <1>2, InReachIs
<1>4. /\ local.pos \in Nat /\ local.head \in Nat \ {0} /\ chains \in [Chains -> Places]
      /\ chain_data \in [Memory -> 0 .. Terminator]
    BY SearchIs
<1>5. /\ cs \in [Chains -> Places] /\ cs[c].base = local.pos /\ cs[c].capacity = chains[c].capacity
      /\ cs[c].data_index = chains[c].data_index
      /\ \A d \in Chains \ {c} : cs[d] = chains[d]
    BY <1>3, <1>4 DEF Places
<1> HIDE DEF cs
<1>6. \A d \in Chains : chains[d].base <= local.pos /\ Sound(chains[d])
    BY <1>1 DEF SearchInv, IndexInv
<1>7. ASSUME NEW d \in Chains PROVE cs[d].base <= local.pos /\ Sound(cs[d])
    <2>1. CASE d = c
        <3>1. local.pos <= local.pos /\ ~(local.pos < 0) /\ ~(begin < 0)
            BY <1>3, <1>4
        <3>2. Sound(cs[c])
            BY <1>3, <1>5, <1>6, <3>1, Zenon DEF Sound
        <3>3. QED
            BY <1>5, <2>1, <3>1, <3>2, Zenon
    <2>2. CASE d # c
        BY <1>5, <1>6, <2>2, Zenon
    <2>3. QED
        BY <2>1, <2>2
<1>8. ASSUME local.pos < MaxDist
      PROVE  LaidOut([cs EXCEPT ![c].base = begin], chain_data, local.head, local.pos)
    <2>1. LaidOut(chains, chain_data, local.head, local.pos)
        BY <1>1, <1>8 DEF SearchInv, YoungInv, Between
    <2> DEFINE ds == [cs EXCEPT ![c].base = begin]
    <2>2. /\ ds[c].base = begin /\ ds[c].capacity = cs[c].capacity /\ ds[c].data_index = cs[c].data_index
          /\ \A d \in Chains \ {c} : ds[d] = cs[d]
        BY <1>3, <1>5 DEF Places
    <2>3. \A d \in Chains : /\ ds[d].base = chains[d].base /\ ds[d].capacity = chains[d].capacity
                            /\ ds[d].data_index = chains[d].data_index
        BY <1>5, <2>2
    <2> HIDE DEF ds
    <2>4. LaidOut(ds, chain_data, local.head, local.pos)
        BY <2>1, <2>3, SamePlaces
    <2>5. QED
        BY <2>4 DEF ds
<1>9. CanInsert(c, begin, cs, chain_data, local.head)
    <2>1. chain_data[0] = Terminator
        BY DEF SearchInv, IndexInv
    <2>2. QED
        BY <1>1, <1>2, <1>3, <1>5, <1>7, <1>8, <2>1, Zenon DEF CanInsert
<1>10. QED
    BY <1>1, <1>3, <1>4, <1>5, <1>9, InsertKeeps

\* The block that a chain needs.
LEMMA OldLengthIs ==
    ASSUME SearchInv, NEW c \in Chains, NEW diff \in Nat, diff < MaxDist, chains[c].data_index < DataCount
    PROVE  /\ OldLength(c, diff) \in Nat \ {0}
           /\ chains[c].data_index + OldLength(c, diff) <= DataCount + Beyond
<1> DEFINE first == chains[c].data_index
           distance == MaxDist - diff
           n == CellsFor(chain_data, first, distance)
<1>1. chain_data \in [Memory -> 0 .. Terminator] /\ first \in Nat /\ distance \in Int /\ distance > 0
    BY SearchIs, SizesAre DEF Places
<1>2. first <= DataCount + Beyond /\ first < DataCount + Beyond
    BY <1>1, SizesAre
<1> HIDE DEF first, distance
<1>3. /\ n \in Nat /\ first + n <= DataCount + Beyond
      /\ Sum(chain_data, first, n) >= distance \/ first + n = DataCount + Beyond
    BY <1>1, <1>2, CellsForIs
<1>4. Sum(chain_data, first, 0) = 0
    BY <1>1, <1>2, SumStarts
<1>5. n # 0
    <2> SUFFICES ASSUME n = 0 PROVE FALSE
        OBVIOUS
    <2>1. ~(0 >= distance) /\ first + 0 # DataCount + Beyond
        BY <1>1, <1>2, SizesAre
    <2>2. QED
        BY <1>3, <1>4, <2>1, Zenon
<1>6. n \in Nat \ {0}
    BY <1>3, <1>5
<1>7. QED
    BY <1>3, <1>6 DEF OldLength, n, distance, first

LEMMA GrowKeeps == SearchInv /\ GrowChain => SearchInv'
<1> SUFFICES ASSUME SearchInv, GrowChain PROVE SearchInv'
    OBVIOUS
<1> DEFINE c == TupleChain(local.pos)
           begin == chains[c].base
           first == chains[c].data_index
           block == [chain |-> c, begin |-> begin, from |-> first,
                     length |-> OldLength(c, local.pos - begin), live |-> {}]
<1>1. /\ UNCHANGED text /\ UNCHANGED output /\ matches' = matches /\ saved' = saved /\ phase = "search"
      /\ local' = local /\ chain_data' = chain_data
      /\ local.pos + TupleSize <= Len(data)
      /\ local.pos - begin < MaxDist /\ chains[c].capacity = 0
      /\ chains' = [chains EXCEPT ![c].base = local.pos]
      /\ grow' = block
      /\ phase' = "grow" /\ phase \notin {"write", "done"} /\ phase' # "done"
    BY DEF GrowChain, HasTuple, Searching
<1> HIDE DEF c
<1>2. c = TupleChain(local.pos)
    BY DEF c
<1>3. /\ c \in Chains /\ begin \in Nat /\ begin < local.pos
      /\ first \in Nat /\ first < DataCount
    BY <1>1, <1>2, InReachIs
<1>4. local.pos \in Nat /\ chains \in [Chains -> Places] /\ local.pos - begin \in Nat
    BY <1>3, SearchIs
<1>5. /\ chains' \in [Chains -> Places] /\ chains'[c].base = local.pos /\ chains'[c].capacity = 0
      /\ chains'[c].data_index = first
      /\ \A d \in Chains \ {c} : chains'[d] = chains[d]
    BY <1>1, <1>3, <1>4 DEF Places
<1>6. OldLength(c, local.pos - begin) \in Nat \ {0} /\ first + OldLength(c, local.pos - begin) <= DataCount + Beyond
    BY <1>1, <1>3, <1>4, OldLengthIs
<1>7. CellsFor(chain_data', chains'[c].data_index, MaxDist - (local'.pos - begin))
        = OldLength(c, local.pos - begin)
    BY <1>1, <1>5 DEF OldLength
<1>8. TextInv' /\ OutputInv' /\ MatchesInv'
    BY <1>1, SearchFrame
<1>9. IndexInv'
    <2>1. ASSUME NEW d \in Chains PROVE chains'[d].base <= local.pos /\ Sound(chains'[d])
        <3>1. CASE d = c
            <4>1. local.pos <= local.pos /\ ~(0 > 0)
                BY <1>4
            <4>2. QED
                BY <1>3, <1>5, <3>1, <4>1, Zenon DEF Sound
        <3>2. CASE d # c
            BY <1>1, <1>5, <3>2 DEF SearchInv, IndexInv
        <3>3. QED
            BY <3>1, <3>2
    <2>2. chain_data \in [Memory -> 0 .. Terminator] /\ chain_data[0] = Terminator
        BY DEF SearchInv, IndexInv
    <2>3. QED
        BY <1>1, <1>5, <2>1, <2>2 DEF IndexInv, Places, Between
<1>10. StateInv'
    <2>1. data' = data
        BY <1>1 DEF text
    <2>2. QED
        BY <1>1, <2>1 DEF SearchInv, StateInv, Between
<1>11. GrowInv'
    <2>1. /\ grow'.chain = c /\ grow'.begin = begin /\ grow'.from = first
          /\ grow'.length = OldLength(c, local.pos - begin)
          /\ grow' \in [chain : Chains, begin : Nat, from : Nat, length : Nat \ {0},
                        live : SUBSET [chain : Chains, from : Nat, length : Nat \ {0}]]
        BY <1>1, <1>3, <1>6
    <2>2. TupleChain(local.pos)' = c
        BY <1>1, <1>2, SameText
    <2>3. grow'.from + grow'.length <= DataCount + Beyond
        BY <1>6, <2>1
    <2>4. grow'.length = OldLength(grow.chain, local.pos - grow.begin)'
        BY <1>7, <2>1 DEF OldLength
    <2>5. grow'.begin < local'.pos /\ InReach(grow.begin)'
        BY <1>1, <1>3, <2>1 DEF InReach
    <2>6. chains'[grow'.chain].base = local'.pos /\ chains'[grow'.chain].capacity = 0
          /\ grow'.from = chains'[grow'.chain].data_index
        BY <1>1, <1>5, <2>1
    <2>7. QED
        BY <1>1, <2>1, <2>2, <2>3, <2>4, <2>5, <2>6 DEF GrowInv
<1>12. ProbeInv'
    BY <1>1 DEF ProbeInv
<1>13. YoungInv'
    <2> DEFINE ds == [chains' EXCEPT ![c].base = begin]
    <2>1. SUFFICES ASSUME local.pos < MaxDist
                   PROVE  LaidOut([chains EXCEPT ![grow.chain].base = grow.begin],
                                  chain_data, local.head, local.pos)'
        BY <1>1 DEF YoungInv, Between
    <2>2. LaidOut(chains, chain_data, local.head, local.pos)
        BY <1>1, <2>1 DEF SearchInv, YoungInv, Between
    <2>3. /\ ds[c].base = begin /\ ds[c].capacity = chains'[c].capacity
          /\ ds[c].data_index = chains'[c].data_index
          /\ \A d \in Chains \ {c} : ds[d] = chains'[d]
        BY <1>3, <1>5 DEF Places
    <2>4. \A d \in Chains : /\ ds[d].base = chains[d].base /\ ds[d].capacity = chains[d].capacity
                            /\ ds[d].data_index = chains[d].data_index
        BY <1>1, <1>5, <2>3
    <2>5. ds = [chains' EXCEPT ![grow'.chain].base = grow'.begin]
        BY <1>1
    <2> HIDE DEF ds
    <2>6. LaidOut(ds, chain_data, local.head, local.pos)
        BY <2>2, <2>4, SamePlaces
    <2>7. QED
        BY <1>1, <2>5, <2>6, SameText
<1>14. QED
    BY <1>8, <1>9, <1>10, <1>11, <1>12, <1>13 DEF SearchInv

-----------------------------------------------------------------------------
(* The steps that move a chain.                                            *)

LEMMA GrowIs ==
    ASSUME SearchInv, phase \in {"grow", "collect"}
    PROVE  /\ grow.chain \in Chains /\ grow.chain = TupleChain(local.pos)
           /\ grow.begin \in Nat /\ grow.begin < local.pos /\ local.pos - grow.begin < MaxDist
           /\ grow.from \in Nat /\ grow.length \in Nat \ {0}
           /\ grow.from + grow.length <= DataCount + Beyond
           /\ chains[grow.chain].base = local.pos
           /\ local.pos + TupleSize <= Len(data)
<1>1. grow \in [chain : Chains, begin : Nat, from : Nat, length : Nat \ {0},
                live : SUBSET [chain : Chains, from : Nat, length : Nat \ {0}]]
    BY DEF SearchInv, GrowInv
<1>2. /\ grow.chain = TupleChain(local.pos) /\ chains[grow.chain].base = local.pos
      /\ grow.begin < local.pos /\ local.pos - grow.begin < MaxDist
      /\ grow.from + grow.length <= DataCount + Beyond
    BY DEF SearchInv, GrowInv, InReach
<1>3. local.pos + TupleSize <= Len(data)
    BY DEF SearchInv, StateInv, Between
<1>4. QED
    BY <1>1, <1>2, <1>3

\* At the text's beginning there is always a larger block.
LEMMA YoungGrows ==
    ASSUME SearchInv, phase = "grow", local.pos < MaxDist
    PROVE  LET c == grow.chain
               n == grow.length
               pre == [chains EXCEPT ![c].base = grow.begin]
           IN  /\ ~Full
               /\ LaidOut([pre EXCEPT ![c] = [base |-> pre[c].base, capacity |-> n,
                                              data_index |-> local.head + n]],
                          Copied(chain_data, grow.from, local.head + n, n), local.head + 2 * n, local.pos)
<1> DEFINE c == grow.chain
           pre == [chains EXCEPT ![c].base = grow.begin]
           n == grow.length
           head == local.head
<1>1. /\ c \in Chains /\ grow.begin \in Nat /\ grow.begin < local.pos
      /\ grow.from \in Nat /\ grow.length \in Nat \ {0}
      /\ chains[c].base = local.pos
    BY GrowIs
<1>2. /\ chains[c].capacity = 0 /\ grow.from = chains[c].data_index
      /\ grow.length = OldLength(c, local.pos - grow.begin)
    BY DEF SearchInv, GrowInv
<1>3. /\ local.pos \in Nat /\ local.head \in Nat \ {0} /\ chains \in [Chains -> Places]
      /\ chain_data \in [Memory -> 0 .. Terminator]
    BY SearchIs
<1>4. /\ pre \in [Chains -> Places] /\ pre[c].base = grow.begin /\ pre[c].capacity = 0
      /\ pre[c].data_index = grow.from
    BY <1>1, <1>2, <1>3 DEF Places
<1>5. LaidOut(pre, chain_data, head, local.pos)
    BY DEF SearchInv, YoungInv
<1>6. n = CellsFor(chain_data, pre[c].data_index, MaxDist - (local.pos - pre[c].base))
    BY <1>2, <1>4 DEF OldLength
<1>7. pre[c].base >= 0 /\ pre[c].base < local.pos /\ head \in Nat \ {0}
    BY <1>1, <1>3, <1>4
<1> HIDE DEF c, pre, n, head
<1>8. /\ n \in Nat \ {0} /\ head + 2 * n <= DataCount
      /\ LaidOut([pre EXCEPT ![c] = [base |-> pre[c].base, capacity |-> n, data_index |-> head + n]],
                 Copied(chain_data, pre[c].data_index, head + n, n), head + 2 * n, local.pos)
    BY <1>1, <1>3, <1>4, <1>5, <1>6, <1>7, LaidMoved
<1>9. ~(head + 2 * n > DataCount)
    BY <1>3, <1>8, SizesAre DEF head
<1>10. QED
    BY <1>4, <1>8, <1>9 DEF c, pre, n, head, Full, BlockSize

LEMMA MarkKeeps == SearchInv /\ Mark => SearchInv'
<1> SUFFICES ASSUME SearchInv, Mark PROVE SearchInv'
    OBVIOUS
<1> DEFINE cells == [c \in Chains |-> CellsFor(chain_data, chains[c].data_index, chains[c].base - Stop + 1)]
           marked == [c \in Chains |-> [chains[c] EXCEPT
                            !.capacity = 0, !.data_index = IF cells[c] > 1 THEN @ ELSE 0]]
           blocks == {[chain |-> c, from |-> chains[c].data_index, length |-> cells[c] - 1] :
                            c \in {d \in Chains : cells[d] > 1}}
<1>1. /\ UNCHANGED text /\ UNCHANGED output /\ matches' = matches /\ saved' = saved
      /\ phase = "grow" /\ Full /\ chain_data' = chain_data
      /\ local' = [local EXCEPT !.head = 1]
      /\ phase' = "collect" /\ phase \notin {"write", "done"} /\ phase' # "done"
    BY DEF Mark
<1>2. chains' = marked /\ grow' = [grow EXCEPT !.live = blocks]
    BY DEF Mark
<1>3. TextInv' /\ OutputInv' /\ MatchesInv'
    BY <1>1, SearchFrame
<1>4. /\ local.pos \in Nat /\ local \in Locals /\ chains \in [Chains -> Places]
      /\ chain_data \in [Memory -> 0 .. Terminator]
      /\ local' \in Locals /\ local'.pos = local.pos /\ local'.head = 1
    BY <1>1, SearchIs DEF Locals
<1>5. local.pos >= MaxDist
    <2>1. ~(local.pos < MaxDist)
        BY <1>1, YoungGrows
    <2>2. QED
        BY <1>4, <2>1, SizesAre
<1>6. \A c \in Chains : chains[c].base <= local.pos /\ Sound(chains[c])
    BY <1>1 DEF SearchInv, IndexInv
<1>7. ASSUME NEW c \in Chains
      PROVE  /\ cells[c] \in Nat /\ chains[c].data_index \in Nat
             /\ chains[c].data_index + cells[c] <= DataCount + Beyond
    <2> DEFINE first == chains[c].data_index
               distance == chains[c].base - Stop + 1
    <2>1. first \in Nat /\ (first < DataCount \/ first = DataCount)
        BY <1>4, <1>6 DEF Sound, Places
    <2>2. first <= DataCount + Beyond
        BY <2>1, SizesAre
    <2>3. distance \in Int
        <3>1. chains[c].base \in Int
            BY <1>4, SizesAre DEF Places
        <3>2. QED
            BY <1>4, <3>1, SizesAre DEF Stop
    <2> HIDE DEF first, distance
    <2>4. /\ CellsFor(chain_data, first, distance) \in Nat
          /\ first + CellsFor(chain_data, first, distance) <= DataCount + Beyond
        BY <1>4, <2>1, <2>2, <2>3, CellsForIs
    <2>5. QED
        BY <2>1, <2>4 DEF first, distance
<1> HIDE DEF cells
<1>8. ASSUME NEW c \in Chains
      PROVE  /\ marked[c] \in Places /\ marked[c].base = chains[c].base /\ marked[c].capacity = 0
             /\ Sound(marked[c])
    <2> DEFINE at == IF cells[c] > 1 THEN chains[c].data_index ELSE 0
    <2>1. at \in Nat /\ (at = chains[c].data_index \/ at = 0)
        BY <1>4 DEF Places
    <2> HIDE DEF at
    <2>2. chains[c] \in Places
        BY <1>4
    <2>3. marked[c] = [chains[c] EXCEPT !.capacity = 0, !.data_index = at]
        BY DEF at
    <2> HIDE DEF marked
    <2>4. /\ marked[c] \in Places /\ marked[c].base = chains[c].base /\ marked[c].capacity = 0
          /\ marked[c].data_index = at
        <3> DEFINE place == chains[c]
        <3>1. place \in Places /\ marked[c] = [place EXCEPT !.capacity = 0, !.data_index = at]
            BY <2>2, <2>3
        <3> HIDE DEF place
        <3>2. /\ marked[c].base = place.base /\ marked[c].capacity = 0 /\ marked[c].data_index = at
            BY <3>1 DEF Places
        <3>3. marked[c] \in Places
            <4>1. \A p \in [base : Nat \cup {-MaxDist}, capacity : Nat, data_index : Nat], i \in Nat :
                    [p EXCEPT !.capacity = 0, !.data_index = i]
                        \in [base : Nat \cup {-MaxDist}, capacity : Nat, data_index : Nat]
                OBVIOUS
            <4>2. QED
                BY <2>1, <3>1, <4>1 DEF Places
        <3>4. QED
            BY <3>2, <3>3 DEF place
    <2>5. 0 < DataCount /\ ~(0 > 0)
        BY SizesAre
    <2>6. Sound(marked[c])
        BY <1>6, <2>1, <2>4, <2>5, Zenon DEF Sound
    <2>7. QED
        BY <2>4, <2>6
<1>9. marked \in [Chains -> Places]
    BY <1>8
<1> HIDE DEF marked
<1>10. IndexInv'
    <2>1. chain_data[0] = Terminator
        BY DEF SearchInv, IndexInv
    <2>2. QED
        BY <1>1, <1>2, <1>4, <1>6, <1>8, <1>9, <2>1 DEF IndexInv, Places, Between
<1>11. StateInv'
    <2>1. data' = data
        BY <1>1 DEF text
    <2>2. QED
        BY <1>1, <1>4, <2>1 DEF SearchInv, StateInv, Between
<1>12. /\ blocks \in SUBSET [chain : Chains, from : Nat, length : Nat \ {0}]
       /\ \A block \in blocks : block.from + block.length < DataCount + Beyond
    <2> SUFFICES ASSUME NEW block \in blocks
                 PROVE  /\ block \in [chain : Chains, from : Nat, length : Nat \ {0}]
                        /\ block.from + block.length < DataCount + Beyond
        OBVIOUS
    <2>1. PICK c \in Chains : /\ cells[c] > 1
                              /\ block = [chain |-> c, from |-> chains[c].data_index, length |-> cells[c] - 1]
        OBVIOUS
    <2>2. cells[c] - 1 \in Nat \ {0} /\ chains[c].data_index + (cells[c] - 1) < DataCount + Beyond
        BY <1>7, <2>1, SizesAre
    <2>3. QED
        BY <1>7, <2>1, <2>2
<1> HIDE DEF blocks
<1>13. GrowInv'
    <2>1. grow \in [chain : Chains, begin : Nat, from : Nat, length : Nat \ {0},
                    live : SUBSET [chain : Chains, from : Nat, length : Nat \ {0}]]
        BY <1>1 DEF SearchInv, GrowInv
    <2>2. /\ grow' \in [chain : Chains, begin : Nat, from : Nat, length : Nat \ {0},
                        live : SUBSET [chain : Chains, from : Nat, length : Nat \ {0}]]
          /\ grow'.chain = grow.chain /\ grow'.begin = grow.begin /\ grow'.from = grow.from
          /\ grow'.length = grow.length /\ grow'.live = blocks
        BY <1>2, <1>12, <2>1
    <2>3. grow'.chain = TupleChain(local.pos)'
        BY <1>1, <1>4, <2>2, GrowIs, SameText
    <2>4. chains'[grow'.chain].base = local'.pos
        BY <1>1, <1>2, <1>4, <1>8, <2>2, GrowIs
    <2>5. grow'.begin < local'.pos /\ InReach(grow.begin)' /\ grow'.from + grow'.length <= DataCount + Beyond
        BY <1>1, <1>4, <2>2, GrowIs DEF InReach
    <2>6. QED
        BY <1>1, <1>4, <1>5, <1>12, <2>2, <2>3, <2>4, <2>5 DEF GrowInv
<1>14. ProbeInv'
    BY <1>1 DEF ProbeInv
<1>15. YoungInv'
    BY <1>1 DEF YoungInv, Between
<1>16. QED
    BY <1>3, <1>10, <1>11, <1>13, <1>14, <1>15 DEF SearchInv

LEMMA MoveKeeps == SearchInv /\ MoveChain => SearchInv'
<1> SUFFICES ASSUME SearchInv, MoveChain PROVE SearchInv'
    OBVIOUS
<1>1. /\ UNCHANGED text /\ UNCHANGED output /\ matches' = matches /\ saved' = saved
      /\ phase = "collect" /\ phase' = "collect" /\ phase \notin {"write", "done"} /\ phase' # "done"
    BY DEF MoveChain
<1>2. PICK lowest \in grow.live :
        /\ chain_data' = [i \in Memory |->
                  IF i = lowest.from + lowest.length THEN Terminator
                  ELSE IF i \in local.head .. local.head + lowest.length - 1
                  THEN chain_data[i - local.head + lowest.from]
                  ELSE chain_data[i]]
        /\ chains' = [chains EXCEPT ![lowest.chain].data_index = local.head]
        /\ local' = [local EXCEPT !.head = local.head + lowest.length + 1]
        /\ grow' = [grow EXCEPT !.live = @ \ {lowest}]
    BY DEF MoveChain
<1> DEFINE old == lowest.from
           n == lowest.length
           new == local.head
           c == lowest.chain
<1>3. grow \in [chain : Chains, begin : Nat, from : Nat, length : Nat \ {0},
                live : SUBSET [chain : Chains, from : Nat, length : Nat \ {0}]]
      /\ \A block \in grow.live : block.from + block.length < DataCount + Beyond
      /\ local.pos >= MaxDist
    BY <1>1 DEF SearchInv, GrowInv
<1>4. lowest \in [chain : Chains, from : Nat, length : Nat \ {0}]
    BY <1>3
<1>5. c \in Chains /\ old \in Nat /\ n \in Nat \ {0} /\ old + n < DataCount + Beyond
    BY <1>3, <1>4
<1>6. /\ local.pos \in Nat /\ local \in Locals /\ new \in Nat \ {0} /\ chains \in [Chains -> Places]
      /\ chain_data \in [Memory -> 0 .. Terminator]
    BY SearchIs
<1>7. TextInv' /\ OutputInv' /\ MatchesInv'
    BY <1>1, SearchFrame
<1> HIDE DEF old, n, new, c
<1>8. /\ local' \in Locals /\ local'.pos = local.pos /\ local'.head = new + n + 1 /\ new + n + 1 \in Nat \ {0}
    <2>1. new + n + 1 \in Nat \ {0}
        BY <1>5, <1>6
    <2>2. local' = [local EXCEPT !.head = new + n + 1]
        BY <1>2 DEF new, n
    <2>3. QED
        BY <1>6, <2>1, <2>2 DEF Locals
<1>9. /\ chains' \in [Chains -> Places]
      /\ chains'[c].base = chains[c].base /\ chains'[c].capacity = chains[c].capacity /\ chains'[c].data_index = new
      /\ \A d \in Chains \ {c} : chains'[d] = chains[d]
    <2>1. chains' = [chains EXCEPT ![c].data_index = new]
        BY <1>2 DEF new, c
    <2>2. QED
        BY <1>5, <1>6, <2>1 DEF Places
<1>10. chain_data' \in [Memory -> 0 .. Terminator] /\ chain_data'[0] = Terminator
    <2>1. chain_data' = [i \in Memory |->
                  IF i = old + n THEN Terminator
                  ELSE IF i \in new .. new + n - 1 THEN chain_data[i - new + old]
                  ELSE chain_data[i]]
        BY <1>2 DEF old, new, n
    <2>2. ASSUME NEW i \in Memory, i \in new .. new + n - 1 PROVE i - new + old \in Memory
        BY <1>5, <1>6, <2>2, SizesAre DEF Memory
    <2>3. Terminator \in 0 .. Terminator
        BY SizesAre
    <2>4. 0 \in Memory /\ 0 \notin new .. new + n - 1
        BY <1>5, <1>6, SizesAre DEF Memory
    <2>5. chain_data[0] = Terminator
        BY DEF SearchInv, IndexInv
    <2>6. chain_data' \in [Memory -> 0 .. Terminator]
        BY <1>6, <2>1, <2>2, <2>3
    <2>7. chain_data'[0] = Terminator
        BY <2>1, <2>4, <2>5
    <2>8. QED
        BY <2>6, <2>7
<1>11. IndexInv'
    <2>1. ASSUME NEW d \in Chains
          PROVE  /\ chains'[d].base <= local.pos /\ chains'[d].capacity = 0
                 /\ Sound(chains'[d]) \/ chains'[d].data_index <= local'.head
        <3>1. /\ chains[d].base <= local.pos /\ chains[d].capacity = 0
              /\ Sound(chains[d]) \/ chains[d].data_index <= new
            BY <1>1 DEF SearchInv, IndexInv, new
        <3>2. CASE d = c
            <4>1. new <= new + n + 1
                BY <1>5, <1>6
            <4>2. QED
                BY <1>8, <1>9, <3>1, <3>2, <4>1
        <3>3. CASE d # c
            <4>1. chains[d].data_index \in Nat
                BY <1>6 DEF Places
            <4>2. chains[d].data_index <= new => chains[d].data_index <= new + n + 1
                BY <1>5, <1>6, <4>1
            <4>3. QED
                BY <1>8, <1>9, <3>1, <3>3, <4>2, Zenon
        <3>4. QED
            BY <3>2, <3>3
    <2>2. QED
        BY <1>1, <1>8, <1>9, <1>10, <2>1 DEF IndexInv, Places, Between
<1>12. StateInv'
    <2>1. data' = data
        BY <1>1 DEF text
    <2>2. QED
        BY <1>1, <1>8, <2>1 DEF SearchInv, StateInv, Between
<1>13. GrowInv'
    <2> DEFINE rest == grow.live \ {lowest}
    <2>1. rest \in SUBSET [chain : Chains, from : Nat, length : Nat \ {0}] /\ rest \subseteq grow.live
        BY <1>3
    <2>2. grow' = [grow EXCEPT !.live = rest]
        BY <1>2
    <2> HIDE DEF rest
    <2>3. /\ grow' \in [chain : Chains, begin : Nat, from : Nat, length : Nat \ {0},
                        live : SUBSET [chain : Chains, from : Nat, length : Nat \ {0}]]
          /\ grow'.chain = grow.chain /\ grow'.begin = grow.begin /\ grow'.from = grow.from
          /\ grow'.length = grow.length /\ grow'.live = rest
        BY <1>3, <2>1, <2>2
    <2>4. grow'.chain = TupleChain(local.pos)'
        BY <1>1, <1>8, <2>3, GrowIs, SameText
    <2>5. chains'[grow'.chain].base = local'.pos
        BY <1>1, <1>8, <1>9, <2>3, GrowIs
    <2>6. grow'.begin < local'.pos /\ InReach(grow.begin)' /\ grow'.from + grow'.length <= DataCount + Beyond
        BY <1>1, <1>8, <2>3, GrowIs DEF InReach
    <2>7. QED
        BY <1>1, <1>3, <1>8, <2>1, <2>3, <2>4, <2>5, <2>6 DEF GrowInv
<1>14. ProbeInv'
    BY <1>1 DEF ProbeInv
<1>15. YoungInv'
    BY <1>1 DEF YoungInv, Between
<1>16. QED
    BY <1>7, <1>11, <1>12, <1>13, <1>14, <1>15 DEF SearchInv

\* A move that finds room is an insertion.
LEMMA ReallocateKeeps == SearchInv /\ Reallocate /\ ~Full => SearchInv'
<1> SUFFICES ASSUME SearchInv, Reallocate, ~Full
             PROVE  SearchInv'
    OBVIOUS
<1> DEFINE c == grow.chain
           begin == grow.begin
           n == grow.length
           room == BlockSize(n) - n
           first == local.head + room
           cs == [chains EXCEPT ![c].data_index = first, ![c].capacity = room]
           cells == [i \in Memory |-> IF i \in first .. first + n - 1
                                      THEN chain_data[grow.from + i - first] ELSE chain_data[i]]
<1>1. /\ UNCHANGED text /\ UNCHANGED output /\ saved' = saved
      /\ phase \in {"grow", "collect"}
      /\ phase = "grow" => ~Full
    BY DEF Reallocate
<1>2. ~Full
    OBVIOUS
<1>3. Insert(c, begin, cs, cells, first + n) /\ matches' = matches
    BY <1>2 DEF Reallocate
<1>4. /\ c \in Chains /\ c = TupleChain(local.pos)
      /\ begin \in Nat /\ begin < local.pos /\ local.pos - begin < MaxDist
      /\ grow.from \in Nat /\ n \in Nat \ {0} /\ grow.from + n <= DataCount + Beyond
      /\ chains[c].base = local.pos
      /\ local.pos + TupleSize <= Len(data)
    BY <1>1, GrowIs
<1>5. /\ local.pos \in Nat /\ local.head \in Nat \ {0} /\ chains \in [Chains -> Places]
      /\ chain_data \in [Memory -> 0 .. Terminator]
    BY SearchIs
<1>6. /\ room = n /\ first \in Nat \ {0} /\ first > n /\ first + n \in Nat \ {0}
      /\ first + n <= DataCount /\ first + n = local.head + 2 * n /\ first = local.head + n
    <2>1. BlockSize(n) = 2 * n /\ ~(local.head + 2 * n > DataCount)
        BY <1>2 DEF Full, BlockSize
    <2>2. \A h, m \in Nat \ {0} : ~(h + 2 * m > DataCount) =>
            /\ 2 * m - m = m /\ h + m \in Nat \ {0} /\ h + m > m /\ (h + m) + m \in Nat \ {0}
            /\ (h + m) + m <= DataCount /\ (h + m) + m = h + 2 * m
        BY SizesAre
    <2>3. room = 2 * n - n /\ first = local.head + room
        BY <2>1, Zenon
    <2>4. room = n
        BY <1>4, <1>5, <2>1, <2>2, <2>3, Zenon
    <2>5. first = local.head + n
        BY <2>3, <2>4, Zenon
    <2> HIDE DEF room, first, n
    <2>6. n \in Nat \ {0} /\ local.head \in Nat \ {0} /\ ~(local.head + 2 * n > DataCount)
        BY <1>4, <1>5, <2>1
    <2>7. /\ local.head + n \in Nat \ {0} /\ local.head + n > n /\ (local.head + n) + n \in Nat \ {0}
          /\ (local.head + n) + n <= DataCount /\ (local.head + n) + n = local.head + 2 * n
        BY <2>2, <2>6
    <2>8. QED
        BY <2>4, <2>5, <2>7, Zenon
<1>7. cells = Copied(chain_data, grow.from, first, n)
    BY DEF Copied
<1> HIDE DEF c, begin, n, room, first
<1>8. /\ cs \in [Chains -> Places] /\ cs[c].base = local.pos /\ cs[c].capacity = n /\ cs[c].data_index = first
      /\ \A d \in Chains \ {c} : cs[d] = chains[d]
    <2>1. room \in Nat /\ first \in Nat
        BY <1>4, <1>6
    <2>2. QED
        BY <1>4, <1>5, <1>6, <2>1 DEF Places
<1>9. cells \in [Memory -> 0 .. Terminator] /\ cells[0] = Terminator
    <2>1. first + n <= DataCount + Beyond /\ first \in Nat /\ n \in Nat
        BY <1>4, <1>6, SizesAre
    <2>2. Copied(chain_data, grow.from, first, n) \in [Memory -> 0 .. Terminator]
        BY <1>4, <1>5, <2>1, CopiedIs
    <2>3. 0 \in Memory /\ 0 \notin first .. first + n - 1
        <3>1. 0 \in Memory /\ \A f \in Nat \ {0}, m \in Nat : 0 \notin f .. f + m - 1
            BY SizesAre DEF Memory
        <3>2. QED
            BY <1>6, <2>1, <3>1, Zenon
    <2>4. chain_data[0] = Terminator
        BY DEF SearchInv, IndexInv
    <2>5. cells[0] = Terminator
        BY <2>3, <2>4
    <2>6. QED
        BY <1>7, <2>2, <2>5
<1> HIDE DEF cs, cells
<1>10. ASSUME NEW d \in Chains PROVE cs[d].base <= local.pos /\ Sound(cs[d])
    <2>1. CASE d = c
        <3>1. local.pos <= local.pos /\ ~(local.pos < 0)
            BY <1>5
        <3>2. first < DataCount
            <4>1. \A f, m \in Nat \ {0} : f + m <= DataCount => f < DataCount
                BY SizesAre
            <4>2. QED
                BY <1>4, <1>6, <4>1
        <3>3. Sound(cs[c])
            BY <1>6, <1>8, <3>2, Zenon DEF Sound
        <3>4. QED
            BY <1>8, <2>1, <3>1, <3>3, Zenon
    <2>2. CASE d # c
        <3>1. chains[d].base <= local.pos
            BY DEF SearchInv, IndexInv
        <3>2. Sound(chains[d])
            <4>1. CASE phase # "collect"
                BY <4>1 DEF SearchInv, IndexInv
            <4>2. CASE phase = "collect"
                <5>1. chains[d].capacity = 0 /\ (Sound(chains[d]) \/ chains[d].data_index <= local.head)
                    BY <4>2 DEF SearchInv, IndexInv
                <5>2. chains[d].data_index \in Nat
                    BY <1>5 DEF Places
                <5>3. \A h, m \in Nat \ {0} : \A i \in Nat : h + m \in Nat /\ (h + m) + m <= DataCount /\ i <= h
                        => i < DataCount
                    BY SizesAre
                <5>4. ASSUME chains[d].data_index <= local.head PROVE chains[d].data_index < DataCount
                    <6>1. (local.head + n) + n <= DataCount /\ local.head + n \in Nat
                        BY <1>6
                    <6>2. QED
                        BY <1>4, <1>5, <5>2, <5>3, <5>4, <6>1
                <5>5. ~(0 > 0)
                    OBVIOUS
                <5>6. QED
                    BY <5>1, <5>4, <5>5, Zenon DEF Sound
            <4>3. QED
                BY <4>1, <4>2
        <3>3. QED
            BY <1>8, <2>2, <3>1, <3>2, Zenon
    <2>3. QED
        BY <2>1, <2>2
<1>11. ASSUME local.pos < MaxDist
       PROVE  LaidOut([cs EXCEPT ![c].base = begin], cells, first + n, local.pos)
    <2> DEFINE pre == [chains EXCEPT ![c].base = begin]
               moved == [pre EXCEPT ![c] = [base |-> pre[c].base, capacity |-> n, data_index |-> local.head + n]]
               ds == [cs EXCEPT ![c].base = begin]
    <2>1. phase = "grow"
        <3>1. phase = "collect" => local.pos >= MaxDist
            BY DEF SearchInv, GrowInv
        <3>2. QED
            BY <1>1, <1>5, <1>11, <3>1, SizesAre
    <2>2. LaidOut(moved, Copied(chain_data, grow.from, local.head + n, n), local.head + 2 * n, local.pos)
        BY <1>11, <2>1, YoungGrows DEF c, n, begin
    <2>3. /\ pre[c].base = begin /\ \A d \in Chains \ {c} : pre[d] = chains[d]
          /\ pre \in [Chains -> Places]
        BY <1>4, <1>5 DEF Places
    <2> HIDE DEF pre
    <2>4. /\ moved[c].base = begin /\ moved[c].capacity = n /\ moved[c].data_index = local.head + n
          /\ \A d \in Chains \ {c} : moved[d] = chains[d]
        BY <1>4, <2>3
    <2>5. /\ ds[c].base = begin /\ ds[c].capacity = n /\ ds[c].data_index = first
          /\ \A d \in Chains \ {c} : ds[d] = chains[d]
        BY <1>4, <1>8 DEF Places
    <2> HIDE DEF moved, ds
    <2>6. \A d \in Chains : /\ ds[d].base = moved[d].base /\ ds[d].capacity = moved[d].capacity
                            /\ ds[d].data_index = moved[d].data_index
        BY <1>6, <2>4, <2>5
    <2>7. LaidOut(moved, cells, first + n, local.pos)
        BY <1>6, <1>7, <2>2
    <2>8. LaidOut(ds, cells, first + n, local.pos)
        BY <2>6, <2>7, SamePlaces
    <2>9. QED
        BY <2>8 DEF ds
<1>12. CanInsert(c, begin, cs, cells, first + n)
    <2>1. n > 0
        BY <1>4
    <2>2. QED
        BY <1>4, <1>8, <1>9, <1>10, <1>11, <2>1, Zenon DEF CanInsert
<1>13. QED
    <2>1. phase \in {"search", "grow", "collect"}
        BY <1>1
    <2>2. Insert(c, begin, cs, cells, first + n)
        BY <1>3 DEF cs, cells
    <2>3. QED
        BY <1>1, <1>3, <1>4, <1>6, <1>8, <1>9, <1>12, <2>1, <2>2, InsertKeeps

-----------------------------------------------------------------------------
(* The steps of a probe.                                                   *)

LEMMA ProbeFrame ==
    ASSUME SearchInv, UNCHANGED <<text, index, saved, local, matches, grow, output>>,
           phase = "probe", phase' \in {"probe", "emit"}, ProbeInv'
    PROVE  SearchInv'
<1>1. /\ UNCHANGED text /\ UNCHANGED output /\ data' = data /\ chains' = chains /\ chain_data' = chain_data
      /\ saved' = saved /\ local' = local /\ matches' = matches
      /\ phase \notin {"write", "done"} /\ phase' # "done"
    BY DEF text, index
<1>2. TextInv' /\ OutputInv' /\ MatchesInv'
    BY <1>1, SearchFrame
<1>3. IndexInv'
    BY <1>1 DEF SearchInv, IndexInv, Between
<1>4. StateInv'
    BY <1>1 DEF SearchInv, StateInv, Between
<1>5. GrowInv'
    BY DEF GrowInv
<1>6. YoungInv'
    <2> SUFFICES ASSUME local.pos < MaxDist
                 PROVE  LaidOut(chains, chain_data, local.head, local.pos + 1)'
        BY <1>1 DEF YoungInv, Between
    <2>1. LaidOut(chains, chain_data, local.head, local.pos + 1)
        BY DEF SearchInv, YoungInv
    <2>2. QED
        BY <1>1, <2>1, SameText
<1>7. QED
    BY <1>2, <1>3, <1>4, <1>5, <1>6 DEF SearchInv

\* A walk that does not leave the window comes to a position of the text.
LEMMA WalkBack ==
    ASSUME SearchInv, phase = "probe", probe.begin - Cell(probe.iter) >= Stop
    PROVE  /\ Cell(probe.iter) \in Nat
           /\ probe.begin - Cell(probe.iter) \in Nat
           /\ probe.begin - Cell(probe.iter) < local.pos
           /\ local.pos < MaxDist =>
                \E track : /\ Told(chain_data, probe.iter + 1, track)
                           /\ track[1] = probe.begin - Cell(probe.iter)
<1> DEFINE cell == Cell(probe.iter)
           begin == probe.begin
<1>1. /\ begin \in Nat /\ begin < local.pos /\ probe.iter \in Nat
      /\ local.pos < MaxDist => \E track : Told(chain_data, probe.iter, track) /\ track[1] = begin
    BY DEF SearchInv, ProbeInv, Sane, Walks, Probes
<1>2. local.pos \in Nat /\ chain_data \in [Memory -> 0 .. Terminator]
    BY SearchIs
<1>3. cell \in Nat
    <2>1. Terminator \in Nat /\ 0 .. Terminator \subseteq Nat
        BY SizesAre
    <2>2. QED
        BY <1>2, <2>1 DEF Cell
<1>4. begin - cell >= local.pos - MaxDist
    BY DEF Stop
<1>5. ASSUME local.pos < MaxDist
      PROVE  /\ begin - cell \in Nat
             /\ \E track : Told(chain_data, probe.iter + 1, track) /\ track[1] = begin - cell
    <2>1. PICK track : Told(chain_data, probe.iter, track) /\ track[1] = begin
        BY <1>1, <1>5
    <2>2. cell = chain_data[probe.iter]
        <3>1. probe.iter + Len(track) <= DataCount + Beyond /\ Len(track) \in Nat /\ Len(track) # 0
            BY <2>1, EmptySeq DEF Told
        <3>2. \A l, i \in Nat : i + l <= DataCount + Beyond /\ l # 0 => i \in 0 .. DataCount + Beyond - 1
            BY SizesAre
        <3>3. probe.iter \in Memory
            BY <1>1, <3>1, <3>2, Zenon DEF Memory
        <3>4. QED
            BY <3>3 DEF Cell
    <2>3. Len(track) # 1
        <3> SUFFICES ASSUME Len(track) = 1 PROVE FALSE
            OBVIOUS
        <3>1. cell = Terminator
            BY <1>1, <2>1, <2>2, ToldShorter
        <3>2. \A b, p \in Nat : b < p => ~(b - Terminator >= p - MaxDist)
            BY SizesAre
        <3>3. QED
            BY <1>1, <1>2, <1>4, <3>1, <3>2, Zenon
    <2>4. /\ chain_data[probe.iter] = track[1] - track[2] /\ track[2] \in Nat
          /\ Told(chain_data, probe.iter + 1, Tail(track)) /\ Tail(track)[1] = track[2]
        BY <1>1, <2>1, <2>3, ToldShorter
    <2>5. \A b, t \in Nat : b - (b - t) = t
        OBVIOUS
    <2>6. cell = begin - track[2]
        BY <2>1, <2>2, <2>4, Zenon
    <2>7. begin - (begin - track[2]) = track[2]
        BY <1>1, <2>4, <2>5, Zenon
    <2> HIDE DEF cell
    <2>8. begin - cell = track[2]
        BY <2>6, <2>7, Zenon
    <2> HIDE DEF begin
    <2>9. QED
        BY <2>4, <2>8, Zenon
<1>6. begin - cell < local.pos
    BY <1>1, <1>2, <1>3
<1>7. ~(local.pos < MaxDist) => begin - cell \in Nat
    BY <1>1, <1>2, <1>3, <1>4, SizesAre
<1>8. QED
    BY <1>3, <1>5, <1>6, <1>7

\* The candidate changes, and what is known of it.
LEMMA ProbeMoves ==
    ASSUME SearchInv, UNCHANGED <<text, index, saved, local, matches, grow, output>>,
           phase = "probe", NEW p, probe' = p, Sane(p),
           phase' = "emit" \/ (phase' = "probe" /\ Walks(p))
    PROVE  SearchInv'
<1>1. UNCHANGED text /\ local' = local /\ chain_data' = chain_data
    BY DEF index
<1>2. Repeats(local.pos, p.matchPos, p.length)' <=> Repeats(local.pos, p.matchPos, p.length)
    <2>1. data' = data
        BY <1>1 DEF text
    <2>2. QED
        BY <1>1, <2>1 DEF Repeats
<1>3. Sane(probe)'
    BY <1>1, <1>2 DEF Sane
<1>4. phase' = "probe" => Walks(probe)'
    BY <1>1 DEF Walks, Stop, Told
<1>5. ProbeInv'
    BY <1>3, <1>4 DEF ProbeInv
<1>6. QED
    BY <1>5, ProbeFrame

\* One step along the chain of the candidate.
LEMMA WalkOn ==
    ASSUME SearchInv, phase = "probe", NEW p, p.begin = probe.begin - Cell(probe.iter),
           p.iter = probe.iter + 1, p.begin >= Stop
    PROVE  Walks(p)
BY WalkBack DEF Walks

\* What is read of a chain is a distance.
LEMMA CellIs ==
    ASSUME SearchInv, NEW i
    PROVE  Cell(i) \in Nat
<1>1. chain_data \in [Memory -> 0 .. Terminator]
    BY SearchIs
<1>2. Terminator \in Nat /\ 0 .. Terminator \subseteq Nat
    BY SizesAre
<1>3. QED
    BY <1>1, <1>2 DEF Cell

\* On to the previous position, with p found.
LEMMA AdvanceKeeps ==
    ASSUME SearchInv, UNCHANGED <<text, index, saved, local, matches, grow, output>>,
           phase = "probe", NEW p, Sane(p), p.begin = probe.begin, p.iter = probe.iter, Advance(p)
    PROVE  SearchInv'
<1> DEFINE begin == p.begin - Cell(p.iter)
           next == [p EXCEPT !.begin = begin, !.iter = @ + 1, !.syncs = 0]
<1>1. p \in Probes
    BY DEF Sane
<1>2. begin \in Int
    BY <1>1, CellIs DEF Probes
<1> HIDE DEF begin
<1>3. /\ next \in Probes /\ next.begin = begin /\ next.iter = p.iter + 1
      /\ next.target = p.target /\ next.length = p.length /\ next.matchPos = p.matchPos
    <2>1. p.iter + 1 \in Nat
        BY <1>1 DEF Probes
    <2>2. QED
        BY <1>1, <1>2, <2>1 DEF Probes
<1>4. \/ probe' = next /\ phase' = "emit"
      \/ probe' = next /\ phase' = "probe" /\ InReach(begin)
    BY DEF Advance, Break, begin
<1> HIDE DEF next
<1>5. Sane(next)
    BY <1>3 DEF Sane
<1>6. ASSUME InReach(begin) PROVE Walks(next)
    <2>1. next.begin = probe.begin - Cell(probe.iter) /\ next.iter = probe.iter + 1
        BY <1>3 DEF begin
    <2>2. next.begin >= Stop
        <3>1. \A q \in Nat, b \in Int : q - b < MaxDist => b >= q - MaxDist
            BY SizesAre
        <3>2. local.pos \in Nat
            BY SearchIs
        <3>3. begin >= local.pos - MaxDist
            BY <1>2, <1>6, <3>1, <3>2 DEF InReach
        <3>4. QED
            BY <1>3, <3>3 DEF Stop
    <2>3. QED
        BY <2>1, <2>2, WalkOn
<1>7. probe' = next /\ (phase' = "emit" \/ (phase' = "probe" /\ Walks(next)))
    BY <1>4, <1>6
<1>8. QED
    BY <1>5, <1>7, ProbeMoves

LEMMA SyncKeeps == SearchInv /\ Sync => SearchInv'
<1> SUFFICES ASSUME SearchInv, Sync PROVE SearchInv'
    OBVIOUS
<1> DEFINE nearer == [probe EXCEPT !.begin = @ - Cell(probe.iter), !.iter = @ + 1, !.syncs = @ + 1]
           back == [probe EXCEPT !.endPos = @ - Cell(probe.endIter), !.endIter = @ + 1, !.syncs = @ + 1]
           stepped == IF Gap < 0 THEN nearer ELSE back
<1>1. phase = "probe" /\ UNCHANGED <<text, index, saved, local, matches, grow, output>>
    BY DEF Sync, Probing
<1>2. Sane(probe) /\ probe \in Probes /\ Walks(probe)
    BY <1>1 DEF SearchInv, ProbeInv, Sane
<1>3. /\ nearer \in Probes /\ nearer.begin = probe.begin - Cell(probe.iter) /\ nearer.iter = probe.iter + 1
      /\ nearer.target = probe.target /\ nearer.length = probe.length /\ nearer.matchPos = probe.matchPos
    <2>1. probe.begin - Cell(probe.iter) \in Int /\ probe.iter + 1 \in Nat /\ probe.syncs + 1 \in Nat
        BY <1>2, CellIs DEF Probes
    <2>2. QED
        BY <1>2, <2>1 DEF Probes
<1>4. /\ back \in Probes /\ back.begin = probe.begin /\ back.iter = probe.iter
      /\ back.target = probe.target /\ back.length = probe.length /\ back.matchPos = probe.matchPos
    <2>1. probe.endPos - Cell(probe.endIter) \in Int /\ probe.endIter + 1 \in Nat /\ probe.syncs + 1 \in Nat
        BY <1>2, CellIs DEF Probes
    <2>2. QED
        BY <1>2, <2>1 DEF Probes
<1>5. \/ probe' = probe /\ phase' = "emit"
      \/ probe' = stepped /\ phase' = "emit"
      \/ probe' = stepped /\ phase' = "probe" /\ ~(stepped.begin < Stop)
    <2> HIDE DEF nearer, back
    <2>1. IF probe.syncs = MaxSync THEN Break(probe)
          ELSE IF stepped.begin < Stop \/ stepped.endPos < Stop THEN Break(stepped)
          ELSE probe' = stepped /\ UNCHANGED phase
        BY DEF Sync, nearer, back
    <2> HIDE DEF stepped
    <2>2. QED
        BY <1>1, <2>1 DEF Break
<1> HIDE DEF nearer, back
<1>6. Sane(nearer) /\ Sane(back)
    BY <1>2, <1>3, <1>4 DEF Sane
<1>7. Sane(stepped)
    BY <1>6
<1>8. ASSUME ~(stepped.begin < Stop) PROVE Walks(stepped)
    <2>1. CASE Gap < 0
        <3>1. ~(nearer.begin < Stop)
            BY <1>8, <2>1
        <3>2. nearer.begin \in Int /\ Stop \in Int
            BY <1>3, SearchIs, SizesAre DEF Probes, Stop
        <3>3. nearer.begin >= Stop
            BY <3>1, <3>2
        <3>4. Walks(nearer)
            BY <1>1, <1>3, <3>3, WalkOn
        <3>5. QED
            BY <2>1, <3>4
    <2>2. CASE ~(Gap < 0)
        <3>1. Walks(back)
            BY <1>2, <1>4 DEF Walks
        <3>2. QED
            BY <2>2, <3>1
    <2>3. QED
        BY <2>1, <2>2
<1> HIDE DEF stepped
<1>9. CASE probe' = probe /\ phase' = "emit"
    BY <1>1, <1>2, <1>9, ProbeMoves
<1>10. CASE probe' = stepped /\ (phase' = "emit" \/ (phase' = "probe" /\ ~(stepped.begin < Stop)))
    BY <1>1, <1>7, <1>8, <1>10, ProbeMoves
<1>11. QED
    BY <1>5, <1>9, <1>10

LEMMA TryKeeps == SearchInv /\ Try => SearchInv'
<1> SUFFICES ASSUME SearchInv, Try PROVE SearchInv'
    OBVIOUS
<1> DEFINE most == Len(data) - local.pos
           n == Strmatch(local.pos, probe.begin, most)
           found == [probe EXCEPT !.length = n, !.matchPos = probe.begin]
           best == [found EXCEPT !.best = TRUE]
           end == TupleChain(local.pos + n - TupleSize + 1)
           longer == [found EXCEPT !.end = end, !.endPos = chains[end].base,
                                   !.endIter = chains[end].data_index, !.target = LongerThan(n)]
<1>1. phase = "probe" /\ UNCHANGED <<text, index, saved, local, matches, grow, output>>
    BY DEF Try, Probing
<1>2. Sane(probe) /\ probe \in Probes /\ Walks(probe)
    BY <1>1 DEF SearchInv, ProbeInv, Sane
<1>3. /\ local.pos \in Nat /\ Len(data) \in Nat /\ local.pos + TupleSize <= Len(data)
      /\ probe.begin \in Nat /\ probe.begin < local.pos /\ probe.begin >= local.pos - MaxDist
      /\ probe.target \in Nat /\ probe.target >= TupleSize
    <2>1. phase \notin Between
        BY <1>1 DEF Between
    <2>2. local.pos + TupleSize <= Len(data)
        BY <2>1 DEF SearchInv, StateInv
    <2>3. QED
        BY <1>2, <2>2, SearchIs DEF Sane, Walks, Stop, Probes
<1>4. most \in Nat
    BY <1>3, SizesAre
<1> HIDE DEF most
<1>5. n \in 0 .. most /\ \A i \in 1 .. n : data[local.pos + i] = data[probe.begin + i]
    <2> DEFINE a == local.pos
               b == probe.begin
    <2>1. a \in Nat /\ b \in Nat /\ n = Strmatch(a, b, most)
        BY <1>3
    <2> HIDE DEF a, b, n
    <2>2. Strmatch(a, b, most) \in 0 .. most /\ \A i \in 1 .. Strmatch(a, b, most) : data[a + i] = data[b + i]
        BY <1>4, <2>1, StrmatchIs, Zenon
    <2>3. QED
        BY <2>1, <2>2, Zenon DEF a, b
<1> DEFINE step == IF n < probe.target THEN Advance(probe)
                   ELSE IF n = most THEN Break(best)
                   ELSE IF local.pos - chains[end].base >= MaxDist THEN Break(best)
                   ELSE Advance(longer)
<1>6. step
    BY DEF Try, most
<1> HIDE DEF n
<1>7. n \in Nat /\ n <= most
    BY <1>4, <1>5
<1>8. Repeats(local.pos, probe.begin, n)
    <2>1. local.pos - probe.begin <= MaxDist
        BY <1>3, SizesAre
    <2>2. local.pos + n <= Len(data)
        BY <1>3, <1>7 DEF most
    <2>3. QED
        BY <1>3, <1>5, <2>1, <2>2 DEF Repeats
<1>9. /\ best \in Probes /\ best.target = probe.target /\ best.length = n /\ best.matchPos = probe.begin
    BY <1>2, <1>7 DEF Probes
<1>10. Sane(best)
    BY <1>3, <1>8, <1>9 DEF Sane
<1>11. ASSUME ~(n < probe.target), n # most PROVE Sane(longer) /\ longer.begin = probe.begin /\ longer.iter = probe.iter
    <2>1. n >= TupleSize /\ LongerThan(n) \in Nat /\ LongerThan(n) >= TupleSize
        BY <1>3, <1>7, <1>11, SizesAre DEF LongerThan
    <2>2. end \in Chains
        <3>1. local.pos + n - TupleSize + 1 \in 0 .. Len(data) - TupleSize
            BY <1>3, <1>7, <1>11, <2>1, SizesAre DEF most
        <3>2. QED
            BY <3>1 DEF SearchInv, TextInv
    <2> HIDE DEF end
    <2>3. end \in 0 .. NoChain /\ chains[end].base \in Int /\ chains[end].data_index \in Nat
        <3>1. chains[end] \in Places
            BY <2>2, SearchIs
        <3>2. QED
            BY <2>2, <3>1, SizesAre DEF Places, Chains, NoChain
    <2>4. /\ longer \in Probes /\ longer.target = LongerThan(n) /\ longer.length = n
          /\ longer.matchPos = probe.begin /\ longer.begin = probe.begin /\ longer.iter = probe.iter
        BY <1>2, <1>7, <2>1, <2>3 DEF Probes
    <2> HIDE DEF longer
    <2>5. QED
        BY <1>8, <2>1, <2>4 DEF Sane
<1> HIDE DEF best, found, longer
<1>12. CASE n < probe.target
    BY <1>1, <1>2, <1>6, <1>12, AdvanceKeeps
<1>13. CASE Break(best)
    BY <1>1, <1>10, <1>13, ProbeMoves DEF Break
<1>14. CASE ~(n < probe.target) /\ n # most /\ Advance(longer)
    BY <1>1, <1>11, <1>14, AdvanceKeeps
<1>15. QED
    BY <1>6, <1>12, <1>13, <1>14

\* What is reported of a candidate is a match.
LEMMA EmitKeeps == SearchInv /\ Emit => SearchInv'
<1> SUFFICES ASSUME SearchInv, Emit PROVE SearchInv'
    OBVIOUS
<1> DEFINE found == probe.length >= TupleSize /\ probe.length >= local.lastLength
           match == [position |-> local.pos, offset |-> local.pos - probe.matchPos, length |-> probe.length]
           M == [position : Nat, offset : 1 .. MaxDist, length : Nat]
<1>1. /\ UNCHANGED text /\ UNCHANGED output /\ phase = "emit" /\ phase' = "search"
      /\ phase \notin {"write", "done"} /\ phase' # "done"
      /\ chains' = chains /\ chain_data' = chain_data /\ saved' = saved
      /\ matches' = IF found THEN Append(matches, match) ELSE matches
    BY DEF Emit, index
<1>2. Sane(probe) /\ probe \in Probes
    BY <1>1 DEF SearchInv, ProbeInv, Sane
<1>3. local.pos \in Nat /\ local \in Locals /\ local' \in Locals
      /\ local'.pos = local.pos + 1 /\ local'.head = local.head
    <2>1. probe.end \in 0 .. NoChain /\ probe.length \in Nat /\ probe.best \in BOOLEAN
        BY <1>2 DEF Probes
    <2>2. local.pos \in Nat /\ local.pos + 1 \in Nat /\ local \in Locals
        BY SearchIs
    <2>3. local' = [local EXCEPT !.pos = @ + 1, !.lastEnd = probe.end,
                                 !.lastLength = probe.length, !.lastBest = probe.best]
        BY DEF Emit
    <2>4. QED
        BY <2>1, <2>2, <2>3 DEF Locals
<1>4. TextInv' /\ OutputInv' /\ (matches' = matches => MatchesInv')
    BY <1>1, SearchFrame
<1>5. ASSUME found PROVE MatchesInv'
    <2> DEFINE q == local.pos
               p == probe.matchPos
               n == probe.length
               L == Len(matches)
    <2>1. Repeats(q, p, n) /\ n \in Nat /\ p \in Int /\ q \in Nat /\ n >= TupleSize
        BY <1>2, <1>3, <1>5 DEF Sane, Probes
    <2>2. matches \in Seq(M) /\ L \in Nat
        BY DEF SearchInv, MatchesInv
    <2> HIDE DEF p, q, n
    <2>3. q - p \in 1 .. MaxDist /\ q - (q - p) = p
        BY <2>1, SizesAre DEF Repeats
    <2>4. match.position = q /\ match.offset = q - p /\ match.length = n /\ match \in M
        BY <2>1, <2>3 DEF p, q, n
    <2> HIDE DEF match
    <2>5. /\ matches' \in Seq(M) /\ Len(matches') = L + 1
          /\ matches'[L + 1] = match
          /\ \A i \in 1 .. L : matches'[i] = matches[i]
        <3>1. matches' = Append(matches, match)
            BY <1>1, <1>5
        <3>2. QED
            BY <2>2, <2>4, <3>1, AppendProperties
    <2>6. \A a, b, k : Repeats(a, b, k)' <=> Repeats(a, b, k)
        BY <1>1, SameText
    <2>7. ASSUME NEW i \in 1 .. Len(matches')
          PROVE  /\ matches'[i].length >= TupleSize
                 /\ Repeats(matches'[i].position, matches'[i].position - matches'[i].offset, matches'[i].length)
        <3>1. CASE i = L + 1
            <4>1. matches'[i] = match
                BY <2>5, <3>1
            <4>2. Repeats(match.position, match.position - match.offset, match.length)
                BY <2>1, <2>3, <2>4
            <4>3. match.length >= TupleSize
                BY <2>1, <2>4
            <4>4. QED
                BY <4>1, <4>2, <4>3
        <3>2. CASE i # L + 1
            <4>1. i \in 1 .. L
                BY <2>2, <2>5, <3>2
            <4>2. matches'[i] = matches[i]
                BY <2>5, <4>1
            <4>3. QED
                BY <4>1, <4>2 DEF SearchInv, MatchesInv
        <3>3. QED
            BY <3>1, <3>2
    <2>8. QED
        BY <2>5, <2>6, <2>7 DEF MatchesInv
<1>6. MatchesInv'
    BY <1>1, <1>4, <1>5
<1>7. IndexInv'
    <2>1. \A c \in Chains : chains[c].base \in Int /\ chains[c].base <= local.pos
        BY SizesAre DEF SearchInv, IndexInv
    <2>2. \A c \in Chains : chains[c].base < local'.pos /\ chains[c].base <= local'.pos
        BY <1>3, <2>1
    <2>3. QED
        BY <1>1, <2>2 DEF SearchInv, IndexInv, Between
<1>8. StateInv'
    BY <1>1, <1>3 DEF SearchInv, StateInv, Between
<1>9. GrowInv' /\ ProbeInv'
    BY <1>1 DEF GrowInv, ProbeInv
<1>10. YoungInv'
    <2> SUFFICES ASSUME local.pos + 1 < MaxDist
                 PROVE  LaidOut(chains, chain_data, local.head, local.pos)'
        BY <1>1, <1>3 DEF YoungInv, Between
    <2>1. LaidOut(chains, chain_data, local.head, local.pos + 1)
        BY <1>1, <1>3, SizesAre DEF SearchInv, YoungInv, Between
    <2>2. QED
        BY <1>1, <1>3, <2>1, SameText
<1>11. QED
    BY <1>4, <1>6, <1>7, <1>8, <1>9, <1>10 DEF SearchInv

-----------------------------------------------------------------------------
(* Every state.                                                            *)

\* Nothing is in a chain yet, and nothing has been paid for.
LEMMA EmptyLaidOut ==
    ASSUME NEW cs, NEW cells, \A c \in Chains : cs[c].base < 0 /\ cs[c].base \in Int
    PROVE  LaidOut(cs, cells, 1, 0)
<1> DEFINE tracks == [c \in Chains |-> <<>>]
<1>1. tracks \in [Chains -> Seq(Nat)] /\ {} \in SUBSET (0 .. 0 - 1)
    OBVIOUS
<1>2. Cardinality({}) = 0
    BY FS_EmptySet
<1>3. 1 <= DataCount /\ 1 <= 1 + 4 * 0
    BY SizesAre
<1>4. \A c \in Chains : ~(cs[c].base >= 0)
    OBVIOUS
<1>5. Laid(cs, cells, 1, 0, tracks, {})
    BY <1>2, <1>3, <1>4 DEF Laid
<1>6. QED
    BY <1>1, <1>5 DEF LaidOut

LEMMA InitialText == Init => TextInv
<1> SUFFICES ASSUME Init PROVE TextInv
    OBVIOUS
<1>1. data \in Inputs /\ hash \in Hashes
    BY DEF Init
<1>2. data \in Seq(Bytes)
    BY <1>1, SearchAssumption
<1>3. ASSUME NEW q \in 0 .. Len(data) - TupleSize PROVE TupleChain(q) \in Chains
    <2>1. SubSeq(data, q + 1, q + TupleSize) \in Tuples(data)
        BY DEF Tuples
    <2>2. \A t \in Tuples(data) : hash[t] \in Chains
        BY <1>1, SearchAssumption
    <2>3. QED
        BY <2>1, <2>2 DEF TupleChain
<1>4. QED
    BY <1>2, <1>3 DEF TextInv

LEMMA SearchInit == Init => SearchInv
<1> SUFFICES ASSUME Init PROVE SearchInv
    OBVIOUS
<1>1. /\ chains = [c \in Chains |-> [base |-> -MaxDist, capacity |-> 0, data_index |-> DataCount]]
      /\ saved = [pos |-> 0, head |-> 1, lastEnd |-> NoChain, lastLength |-> 0, lastBest |-> FALSE]
      /\ local = saved /\ matches = <<>> /\ phase = "write" /\ written = 0 /\ left = 0 /\ decoded = <<>>
    BY DEF Init
<1>2. local.pos = 0 /\ local.head = 1
    BY <1>1
<1>3. TextInv
    BY InitialText
<1>4. IndexInv
    <2>1. PICK fresh \in Fresh : chain_data = [i \in Memory |-> IF i = 0 THEN Terminator ELSE fresh]
        BY DEF Init
    <2>2. fresh \in 0 .. Terminator /\ Terminator \in 0 .. Terminator /\ 0 \in Memory
        <3>1. Fresh \subseteq 0 .. Terminator
            BY SearchAssumption
        <3>2. QED
            BY <3>1, SizesAre DEF Memory
    <2>3. chain_data \in [Memory -> 0 .. Terminator] /\ chain_data[0] = Terminator
        BY <2>1, <2>2
    <2>4. chains \in [Chains -> [base : Nat \cup {-MaxDist}, capacity : Nat, data_index : Nat]]
        BY <1>1, SizesAre
    <2>5. ASSUME NEW c \in Chains
          PROVE  chains[c].base < 0 /\ chains[c].base <= 0 /\ Sound(chains[c])
        <3>1. chains[c].base = -MaxDist /\ chains[c].capacity = 0 /\ chains[c].data_index = DataCount
            BY <1>1
        <3>2. -MaxDist < 0 /\ -MaxDist <= 0
            BY SizesAre
        <3>3. QED
            BY <3>1, <3>2 DEF Sound
    <2>6. QED
        BY <1>1, <1>2, <2>3, <2>4, <2>5 DEF IndexInv
<1>5. StateInv
    <2>1. NoChain \in 0 .. NoChain
        BY SizesAre DEF NoChain
    <2>2. QED
        BY <1>1, <2>1 DEF StateInv, Locals, Between
<1>6. GrowInv /\ ProbeInv
    BY <1>1 DEF GrowInv, ProbeInv
<1>7. MatchesInv
    BY <1>1 DEF MatchesInv
<1>8. OutputInv
    <2>1. data \in Seq(Bytes) /\ Len(data) \in Nat
        BY <1>3, LenProperties DEF TextInv
    <2>2. SubSeq(data, 1, 0) = <<>>
        BY <2>1, SubSeqEmpty
    <2>3. QED
        BY <1>1, <2>1, <2>2 DEF OutputInv
<1>9. YoungInv
    <2>1. \A c \in Chains : chains[c].base < 0 /\ chains[c].base \in Int
        BY <1>1, SizesAre
    <2>2. LaidOut(chains, chain_data, 1, 0)
        BY <2>1, EmptyLaidOut
    <2>3. QED
        BY <1>1, <1>2, <2>2 DEF YoungInv
<1>10. QED
    BY <1>3, <1>4, <1>5, <1>6, <1>7, <1>8, <1>9 DEF SearchInv

LEMMA SearchStutters == SearchInv /\ UNCHANGED vars => SearchInv'
<1> SUFFICES ASSUME SearchInv, UNCHANGED vars PROVE SearchInv'
    OBVIOUS
<1>1. /\ UNCHANGED text /\ data' = data /\ chains' = chains /\ chain_data' = chain_data /\ saved' = saved
      /\ local' = local /\ probe' = probe /\ grow' = grow /\ matches' = matches /\ phase' = phase
      /\ written' = written /\ left' = left /\ decoded' = decoded
    BY DEF vars, text, index, output
<1>2. TextInv' /\ MatchesInv'
    BY <1>1, SameText, SameMatches DEF SearchInv
<1>3. IndexInv' /\ StateInv' /\ OutputInv'
    BY <1>1 DEF SearchInv, IndexInv, StateInv, OutputInv, Between
<1>4. GrowInv'
    <2>1. TupleChain(local.pos)' = TupleChain(local.pos)
        BY <1>1 DEF TupleChain, text
    <2>2. InReach(grow.begin)' = InReach(grow.begin)
        BY <1>1 DEF InReach
    <2>3. OldLength(grow.chain, local.pos - grow.begin)' = OldLength(grow.chain, local.pos - grow.begin)
        BY <1>1 DEF OldLength, CellsFor, Sum
    <2>4. QED
        BY <1>1, <2>1, <2>2, <2>3 DEF SearchInv, GrowInv
<1>5. ProbeInv'
    <2>1. Repeats(local.pos, probe.matchPos, probe.length)' <=> Repeats(local.pos, probe.matchPos, probe.length)
        BY <1>1 DEF Repeats
    <2>2. Sane(probe)' <=> Sane(probe)
        BY <1>1, <2>1 DEF Sane
    <2>3. Walks(probe)' <=> Walks(probe)
        BY <1>1 DEF Walks, Stop, Told
    <2>4. QED
        BY <1>1, <2>2, <2>3 DEF SearchInv, ProbeInv
<1>6. YoungInv'
    <2> DEFINE orphaned == [chains EXCEPT ![grow.chain].base = grow.begin]
    <2>1. /\ LaidOut(chains, chain_data, local.head, local.pos)'
                <=> LaidOut(chains, chain_data, local.head, local.pos)
          /\ LaidOut(orphaned, chain_data, local.head, local.pos)'
                <=> LaidOut(orphaned, chain_data, local.head, local.pos)
          /\ LaidOut(chains, chain_data, local.head, local.pos + 1)'
                <=> LaidOut(chains, chain_data, local.head, local.pos + 1)
        BY <1>1, SameText
    <2>2. QED
        BY <1>1, <2>1 DEF SearchInv, YoungInv
<1>7. QED
    BY <1>2, <1>3, <1>4, <1>5, <1>6 DEF SearchInv

\* Only a call that gives up does harm.
LEMMA SearchStep == SearchInv /\ [Next]_vars /\ ~(Reallocate /\ Full) => SearchInv'
<1> SUFFICES ASSUME SearchInv, [Next]_vars, ~(Reallocate /\ Full) PROVE SearchInv'
    OBVIOUS
<1>1. CASE UNCHANGED vars
    BY <1>1, SearchStutters
<1>2. CASE SkipTail
    BY <1>2, SkipTailKeeps
<1>3. CASE StartChain
    BY <1>3, StartKeeps
<1>4. CASE ExtendChain
    BY <1>4, ExtendKeeps
<1>5. CASE GrowChain
    BY <1>5, GrowKeeps
<1>6. CASE Mark
    BY <1>6, MarkKeeps
<1>7. CASE MoveChain
    BY <1>7, MoveKeeps
<1>8. CASE Reallocate
    BY <1>8, ReallocateKeeps
<1>9. CASE Sync
    BY <1>9, SyncKeeps
<1>10. CASE Try
    BY <1>10, TryKeeps
<1>11. CASE Emit
    BY <1>11, EmitKeeps
<1>12. CASE Return
    BY <1>12, ReturnKeeps
<1>13. CASE CallSearch
    BY <1>13, CallKeeps
<1>14. CASE SkipCovered
    BY <1>14, SkipKeeps
<1>15. CASE WriteLiteral
    BY <1>15, LiteralKeeps
<1>16. CASE WriteReference
    BY <1>16, ReferenceKeeps
<1>17. CASE WritePiece
    BY <1>17, PieceKeeps
<1>18. CASE Finish
    BY <1>18, FinishKeeps
<1>19. QED
    BY <1>1, <1>2, <1>3, <1>4, <1>5, <1>6, <1>7, <1>8, <1>9, <1>10, <1>11, <1>12, <1>13, <1>14,
       <1>15, <1>16, <1>17, <1>18 DEF Next

\* A call that gives up has not got ahead.
LEMMA GiveUpIsNoAdvance ==
    SearchInv /\ Reallocate /\ [phase # "write" /\ phase' = "write" => saved'.pos > saved.pos]_vars => ~Full
<1> SUFFICES ASSUME SearchInv, Reallocate, Full,
                    [phase # "write" /\ phase' = "write" => saved'.pos > saved.pos]_vars
             PROVE  FALSE
    OBVIOUS
<1>1. phase # "write" /\ phase' = "write" /\ saved' = saved
    BY DEF Reallocate, GiveUp
<1>2. ~UNCHANGED vars
    BY <1>1 DEF vars
<1>3. saved.pos \in Nat
    BY DEF SearchInv, StateInv, Locals
<1>4. QED
    BY <1>1, <1>2, <1>3

LEMMA TextInOutput == SearchInv => OutputIsText
<1> SUFFICES ASSUME SearchInv PROVE OutputIsText
    OBVIOUS
<1>1. decoded = SubSeq(data, 1, written) /\ (phase = "done" => written = Len(data))
    BY DEF SearchInv, OutputInv
<1>2. data \in Seq(Bytes)
    BY SearchIs
<1>3. SubSeq(data, 1, Len(data)) = data
    BY <1>2, SubSeqFull
<1>4. QED
    BY <1>1, <1>3 DEF OutputIsText

\* As long as every call of the search gets ahead, a match repeats bytes of the
\* text and a candidate is a position of it, wherever the chains lead.
THEOREM SearchInvariant == Spec /\ CallsAdvance => []SearchInv
<1>1. Init => SearchInv
    BY SearchInit
<1>2. SearchInv /\ [Next]_vars /\ [phase # "write" /\ phase' = "write" => saved'.pos > saved.pos]_vars
        => SearchInv'
    BY SearchStep, GiveUpIsNoAdvance
<1>3. QED
    BY <1>1, <1>2, PTL DEF Spec, CallsAdvance

\* What deflate_compress_fixed_block has written stands for the text up to where
\* it is, and for all of it in the end: whatever the hash function makes of the
\* tuples, however matches overlap, are cut into batches or are spliced, and
\* also after chain_data_gc has cut chains off.
THEOREM OutputStandsForText == Spec /\ CallsAdvance => []OutputIsText
BY SearchInvariant, TextInOutput, PTL

-----------------------------------------------------------------------------
(* Before a collection nothing has to be supposed of the calls, as none    *)
(* gives up.                                                               *)

UncollectedInv ==
    /\ phase = "collect" => collected
    /\ ~collected => SearchInv

LEMMA UncollectedStep == UncollectedInv /\ [Next]_vars => UncollectedInv'
<1> SUFFICES ASSUME UncollectedInv, [Next]_vars PROVE UncollectedInv'
    OBVIOUS
<1>1. CASE Mark
    BY <1>1 DEF Mark, UncollectedInv
<1>2. CASE ~Mark
    <2>1. collected' = collected
        <3>1. CASE UNCHANGED vars
            BY <3>1 DEF vars, history
        <3>2. CASE Next
            BY <1>2, <3>2 DEF Next, history, SkipTail, StartChain, ExtendChain, GrowChain, MoveChain, Reallocate,
               Sync, Try, Emit, Return, CallSearch, SkipCovered, WriteLiteral, WriteReference, WritePiece, Finish
        <3>3. QED
            BY <3>1, <3>2
    <2>2. phase' = "collect" => phase = "collect"
        <3>1. CASE UNCHANGED vars
            BY <3>1 DEF vars
        <3>2. CASE MoveChain
            BY <3>2 DEF MoveChain
        <3>3. CASE Sync \/ Try
            BY <3>3 DEF Sync, Try, Probing, Break, Advance
        <3>4. CASE ExtendChain \/ Reallocate
            BY <3>4 DEF ExtendChain, Reallocate, Insert, GiveUp
        <3>5. CASE SkipTail \/ StartChain \/ GrowChain \/ Emit \/ Return
            BY <3>5 DEF SkipTail, StartChain, GrowChain, Emit, Return, HasTuple, Searching
        <3>6. CASE CallSearch \/ SkipCovered \/ WriteLiteral \/ WriteReference \/ WritePiece \/ Finish
            BY <3>6 DEF CallSearch, SkipCovered, WriteLiteral, WriteReference, WritePiece, Finish
        <3>7. QED
            BY <1>2, <3>1, <3>2, <3>3, <3>4, <3>5, <3>6 DEF Next
    <2>3. ASSUME ~collected PROVE SearchInv'
        <3>1. SearchInv /\ phase # "collect"
            BY <2>3 DEF UncollectedInv
        <3>2. Reallocate => ~Full
            BY <3>1 DEF Reallocate
        <3>3. QED
            BY <3>1, <3>2, SearchStep
    <2>4. QED
        BY <2>1, <2>2, <2>3 DEF UncollectedInv
<1>3. QED
    BY <1>1, <1>2

\* Until chain_data_gc runs for the first time, what is written stands for the
\* text, for any texts, hash function and fresh memory.
THEOREM OutputStandsUntilCollection == Spec => [](~collected => OutputIsText)
<1>1. Init => UncollectedInv
    BY SearchInit DEF Init, UncollectedInv
<1>2. UncollectedInv => (~collected => OutputIsText)
    BY TextInOutput DEF UncollectedInv
<1>3. QED
    BY <1>1, <1>2, UncollectedStep, PTL DEF Spec

ShortInv ==
    /\ ~collected
    /\ phase # "collect"
    /\ Len(data) <= MaxDist
    /\ SearchInv

LEMMA ShortInit ==
    ASSUME \A input \in Inputs : Len(input) <= MaxDist
    PROVE  Init => ShortInv
BY SearchInit DEF Init, ShortInv

LEMMA ShortStep == ShortInv /\ [Next]_vars => ShortInv'
<1> SUFFICES ASSUME ShortInv, [Next]_vars PROVE ShortInv'
    OBVIOUS
<1>1. ~Mark
    <2> SUFFICES ASSUME Mark PROVE FALSE
        OBVIOUS
    <2>1. phase = "grow" /\ Full /\ SearchInv
        BY DEF Mark, ShortInv
    <2>2. local.pos + TupleSize <= Len(data) /\ local.pos \in Nat /\ Len(data) \in Nat /\ Len(data) <= MaxDist
        BY <2>1, GrowIs, SearchIs DEF ShortInv
    <2>3. local.pos < MaxDist
        BY <2>2, SizesAre
    <2>4. QED
        BY <2>1, <2>3, YoungGrows
<1>2. UncollectedInv' /\ ~collected'
    <2>1. UncollectedInv
        BY DEF ShortInv, UncollectedInv
    <2>2. ~collected'
        <3>1. CASE UNCHANGED vars
            BY <3>1 DEF vars, history, ShortInv
        <3>2. CASE Next
            BY <1>1, <3>2 DEF ShortInv, Next, history, SkipTail, StartChain, ExtendChain, GrowChain, MoveChain,
               Reallocate, Sync, Try, Emit, Return, CallSearch, SkipCovered, WriteLiteral, WriteReference,
               WritePiece, Finish
        <3>3. QED
            BY <3>1, <3>2
    <2>3. QED
        BY <2>1, <2>2, UncollectedStep
<1>3. data' = data
    <2>1. CASE UNCHANGED vars
        BY <2>1 DEF vars, text
    <2>2. CASE Next
        BY <2>2 DEF Next, text, SkipTail, StartChain, ExtendChain, GrowChain, Mark, MoveChain,
           Reallocate, Sync, Try, Emit, Return, CallSearch, SkipCovered, WriteLiteral, WriteReference,
           WritePiece, Finish
    <2>3. QED
        BY <2>1, <2>2
<1>4. QED
    BY <1>2, <1>3 DEF ShortInv, UncollectedInv

\* Texts within the first window are never collected for: what is written of
\* them stands for the text, come what may.
THEOREM ShortTextsAreWritten ==
    ASSUME \A input \in Inputs : Len(input) <= MaxDist
    PROVE  Spec => []OutputIsText
<1>1. Init => ShortInv
    BY ShortInit
<1>2. ShortInv => OutputIsText
    BY TextInOutput DEF ShortInv
<1>3. QED
    BY <1>1, <1>2, ShortStep, PTL DEF Spec

-----------------------------------------------------------------------------
(* The chains before a collection.                                         *)

\* A chain's cells from its first to last tell at which positions it has been
\* before, newest first.  None is passed over, and the last cell leads out of
\* the window; own are all its positions.
Leads(place, cells, stop, own, at, last) ==
    LET first == place.data_index
    IN  /\ first <= last /\ last < DataCount
        /\ at[first] = place.base
        /\ \A i \in first .. last : at[i] \in own
        /\ \A i \in first .. last - 1 : at[i + 1] = at[i] - cells[i] /\ cells[i] > 0
        /\ at[last] - cells[last] <= stop
        /\ \A q \in own : q <= place.base
        /\ \A i \in first .. last : \A q \in own : q < at[i] => q <= at[i] - cells[i] \/ q <= stop

\* They are its own, or cell 0.
Housed(place, head, last) ==
    \/ place.data_index = 0 /\ place.capacity = 0 /\ last = 0
    \/ place.data_index - place.capacity >= 1 /\ last < head

KeptChain(place, cells, head, stop, own, at, last) ==
    IF place.base < 0 THEN own = {} /\ place.capacity = 0 /\ place.data_index = DataCount
    ELSE Leads(place, cells, stop, own, at, last) /\ Housed(place, head, last)

Clear(p, l, q, m) == l < q.data_index - q.capacity \/ m < p.data_index - p.capacity

\* The storage after n positions, for a window from stop on.
Kept(cs, cells, head, stop, n, at, last) ==
    /\ head <= DataCount
    /\ \A c \in Chains : KeptChain(cs[c], cells, head, stop, Inserted(c, n), at[c], last[c])
    /\ \A c, d \in Chains :
        c # d /\ cs[c].base >= 0 /\ cs[d].base >= 0 /\ cs[c].data_index # 0 /\ cs[d].data_index # 0
            => Clear(cs[c], last[c], cs[d], last[d])

Ways == [Chains -> [Nat -> Nat]]
Ends == [Chains -> Nat]

KeptOut(cs, cells, head, stop, n) ==
    \E at \in Ways, last \in Ends : Kept(cs, cells, head, stop, n, at, last)

LEMMA CellsAre ==
    ASSUME NEW cells \in [Memory -> 0 .. Terminator], NEW i \in Nat, i < DataCount
    PROVE  i \in Memory /\ cells[i] \in Nat /\ cells[i] <= Terminator
<1>1. i \in Memory
    BY SizesAre DEF Memory
<1>2. cells[i] \in 0 .. Terminator
    BY <1>1
<1>3. QED
    BY <1>1, <1>2, SizesAre

\* What a chain tells is how far a walk along it has got.
LEMMA LeadsSum ==
    ASSUME NEW place \in Places, NEW cells \in [Memory -> 0 .. Terminator], NEW stop, NEW own,
           NEW at \in [Nat -> Nat], NEW last \in Nat, Leads(place, cells, stop, own, at, last),
           NEW k \in Nat, place.data_index + k <= last
    PROVE  Sum(cells, place.data_index, k) = place.base - at[place.data_index + k]
<1> DEFINE first == place.data_index
           T == { i \in Nat : first + i <= last => Sum(cells, first, i) = place.base - at[first + i] }
<1>1. first \in Nat /\ last < DataCount /\ first <= last /\ at[first] = place.base /\ place.base \in Nat
    BY DEF Places, Leads
<1>2. 0 \in T
    <2>1. Sum(cells, first, 0) = 0
        <3>1. first <= DataCount + Beyond
            BY <1>1, SizesAre
        <3> HIDE DEF first
        <3>2. QED
            BY <1>1, <3>1, SumStarts
    <2>2. first + 0 = first /\ place.base - at[first] = 0
        BY <1>1
    <2>3. QED
        BY <2>1, <2>2
<1>3. ASSUME NEW i \in T PROVE i + 1 \in T
    <2> SUFFICES ASSUME first + (i + 1) <= last
                 PROVE  Sum(cells, first, i + 1) = place.base - at[first + (i + 1)]
        OBVIOUS
    <2>1. /\ i \in Nat /\ first + i <= last /\ first + i \in first .. last - 1 /\ first + i \in Nat
          /\ (first + i) + 1 = first + (i + 1) /\ first + i < DataCount + Beyond /\ first + i < DataCount
          /\ first + (i + 1) \in Nat
        BY <1>1, SizesAre
    <2>2. at[(first + i) + 1] = at[first + i] - cells[first + i]
        BY <2>1 DEF Leads
    <2>3. Sum(cells, first, i) = place.base - at[first + i]
        BY <2>1
    <2>4. Sum(cells, first, i + 1) = Sum(cells, first, i) + cells[first + i]
        <3> HIDE DEF first
        <3>1. QED
            BY <1>1, <2>1, SumNext
    <2>5. at[first + i] \in Nat /\ at[first + (i + 1)] \in Nat /\ cells[first + i] \in Nat
        BY <2>1, CellsAre
    <2>6. at[first + (i + 1)] = at[first + i] - cells[first + i]
        BY <2>1, <2>2
    <2>7. \A b, x, y, z \in Nat : y = x - z => (b - x) + z = b - y
        OBVIOUS
    <2>8. QED
        BY <1>1, <2>3, <2>4, <2>5, <2>6, <2>7
<1>4. T = Nat
    <2> HIDE DEF T
    <2>1. T \in SUBSET Nat
        BY DEF T
    <2>2. QED
        BY <1>2, <1>3, <2>1, SetInduction
<1>5. QED
    BY <1>4

\* A walk from a chain's base leaves the window within the chain's cells, and no
\* sooner than it has to.
LEMMA WalkEnds ==
    ASSUME NEW place \in Places, NEW cells \in [Memory -> 0 .. Terminator], NEW stop \in Int, NEW own,
           NEW at \in [Nat -> Nat], NEW last \in Nat, Leads(place, cells, stop, own, at, last),
           place.base > stop, NEW n, n = CellsFor(cells, place.data_index, place.base - stop)
    PROVE  /\ n \in Nat \ {0} /\ place.data_index + n - 1 <= last
           /\ at[place.data_index + n - 1] - cells[place.data_index + n - 1] <= stop
           /\ \A k \in 0 .. n - 1 : at[place.data_index + k] > stop
<1> DEFINE first == place.data_index
           base == place.base
           L == last - first + 1
           d == base - stop
           S(k) == Sum(cells, first, k)
<1>1. first \in Nat /\ last < DataCount /\ first <= last /\ at[first] = base /\ base \in Nat
      /\ at[last] - cells[last] <= stop
    BY DEF Places, Leads
<1>2. d \in Int /\ d > 0 /\ L \in Nat \ {0} /\ first + (L - 1) = last /\ L - 1 \in Nat /\ first <= DataCount + Beyond
      /\ first + L <= DataCount + Beyond
    BY <1>1, SizesAre
<1>3. ASSUME NEW k \in Nat, first + k <= last
      PROVE  S(k) = base - at[first + k] /\ at[first + k] \in Nat
    <2>1. Sum(cells, place.data_index, k) = place.base - at[place.data_index + k]
        BY <1>3, LeadsSum
    <2>2. first + k \in Nat
        BY <1>1
    <2>3. QED
        BY <2>1, <2>2
<1> HIDE DEF first, L, d, base
<1>4. /\ n \in Nat /\ first + n <= DataCount + Beyond
      /\ S(n) >= d \/ first + n = DataCount + Beyond
      /\ n > 0 => S(n - 1) < d
    <2>1. n = CellsFor(cells, first, d)
        BY DEF first, d, base
    <2> DEFINE m == CellsFor(cells, first, d)
    <2>2. /\ m \in Nat /\ first + m <= DataCount + Beyond
          /\ Sum(cells, first, m) >= d \/ first + m = DataCount + Beyond
          /\ m > 0 => Sum(cells, first, m - 1) < d
        BY <1>1, <1>2, CellsForIs
    <2> HIDE DEF m
    <2>3. n = m
        BY <2>1 DEF m
    <2>4. QED
        BY <2>2, <2>3
<1>5. \A k \in Nat : first + k < DataCount + Beyond => S(k) \in Nat /\ S(k + 1) = S(k) + cells[first + k]
    BY <1>1, SumNext
<1>6. S(0) = 0
    BY <1>1, <1>2, SumStarts
<1> HIDE DEF S
<1>7. n # 0
    <2>1. first + 0 # DataCount + Beyond
        BY <1>1, SizesAre
    <2>2. ~(0 >= d)
        BY <1>2
    <2>3. QED
        BY <1>4, <1>6, <2>1, <2>2
<1>8. cells[last] \in Nat /\ at[last] \in Nat
    BY <1>1, CellsAre
<1>9. S(L) >= d
    <2>1. S(L - 1) = base - at[last]
        BY <1>2, <1>3, <1>1
    <2>2. first + (L - 1) < DataCount + Beyond /\ (L - 1) + 1 = L
        BY <1>1, <1>2, SizesAre
    <2>3. S(L) = S(L - 1) + cells[last]
        BY <1>2, <1>5, <2>2
    <2>4. \A b, a, z \in Nat : a - z <= stop => (b - a) + z >= b - stop
        OBVIOUS
    <2>5. QED
        BY <1>1, <1>8, <2>1, <2>3, <2>4 DEF d
<1>10. n <= L
    <2> SUFFICES ASSUME n > L PROVE FALSE
        BY <1>2, <1>4
    <2>1. n - 1 \in Nat /\ L <= n - 1 /\ first + (n - 1) < DataCount + Beyond /\ L \in Nat
        BY <1>1, <1>2, <1>4, SizesAre
    <2>2. S(L) <= S(n - 1)
        BY <1>1, <2>1, SumGrows DEF S
    <2>3. S(n - 1) < d /\ S(n - 1) \in Nat
        BY <1>4, <1>5, <1>7, <2>1
    <2>4. S(L) \in Nat
        <3>1. first + L < DataCount + Beyond
            BY <1>2, <2>1, <1>4, SizesAre, <1>1
        <3>2. QED
            BY <1>5, <2>1, <3>1
    <2>5. QED
        BY <1>2, <1>9, <2>2, <2>3, <2>4
<1>11. /\ n - 1 \in Nat /\ first + (n - 1) <= last /\ first + n - 1 = first + (n - 1)
       /\ first + (n - 1) < DataCount + Beyond /\ first + (n - 1) < DataCount /\ first + (n - 1) \in Nat
       /\ (n - 1) + 1 = n
    BY <1>1, <1>2, <1>4, <1>7, <1>10, SizesAre DEF L
<1>12. S(n) >= d
    <2>1. CASE n = L
        BY <1>9, <2>1
    <2>2. CASE n # L
        <3>1. first + n # DataCount + Beyond
            BY <1>1, <1>2, <1>4, <1>10, <2>2, SizesAre DEF L
        <3>2. QED
            BY <1>4, <3>1
    <2>3. QED
        BY <2>1, <2>2
<1>13. at[first + (n - 1)] - cells[first + (n - 1)] <= stop
    <2>1. S(n) = S(n - 1) + cells[first + (n - 1)] /\ S(n - 1) = base - at[first + (n - 1)]
        BY <1>3, <1>5, <1>11
    <2>2. at[first + (n - 1)] \in Nat /\ cells[first + (n - 1)] \in Nat
        BY <1>11, CellsAre
    <2>3. \A b, a, z \in Nat : (b - a) + z >= b - stop => a - z <= stop
        OBVIOUS
    <2>4. QED
        BY <1>1, <1>12, <2>1, <2>2, <2>3 DEF d
<1>14. ASSUME NEW k \in 0 .. n - 1 PROVE at[first + k] > stop
    <2>1. k \in Nat /\ k <= n - 1 /\ first + k <= last
        BY <1>1, <1>4, <1>11
    <2>2. S(k) <= S(n - 1)
        BY <1>1, <1>11, <2>1, SumGrows DEF S
    <2>3. S(k) = base - at[first + k] /\ at[first + k] \in Nat
        BY <1>3, <2>1
    <2>4. S(n - 1) < d /\ S(n - 1) \in Nat
        BY <1>4, <1>5, <1>7, <1>11
    <2>5. QED
        BY <1>1, <2>2, <2>3, <2>4 DEF d
<1>15. QED
    BY <1>4, <1>7, <1>11, <1>13, <1>14 DEF first

Passed(cells, first, base, n) == { base - Sum(cells, first, k) : k \in 1 .. n - 1 }
Within(own, stop, base) == { q \in own : stop < q /\ q < base }

\* What a walk comes by are the chain's positions within the window.
LEMMA WalkIsHistory ==
    ASSUME NEW place \in Places, NEW cells \in [Memory -> 0 .. Terminator], NEW stop \in Int,
           NEW own \in SUBSET Nat,
           NEW at \in [Nat -> Nat], NEW last \in Nat, Leads(place, cells, stop, own, at, last),
           place.base > stop, NEW n, n = CellsFor(cells, place.data_index, place.base - stop)
    PROVE  Passed(cells, place.data_index, place.base, n) = Within(own, stop, place.base)
<1> DEFINE first == place.data_index
           base == place.base
           top == first + n - 1
<1>1. first \in Nat /\ last < DataCount /\ first <= last /\ at[first] = base /\ base \in Nat
    BY DEF Places, Leads
<1>2. /\ n \in Nat \ {0} /\ top <= last /\ top \in Nat /\ at[top] - cells[top] <= stop
      /\ \A k \in 0 .. n - 1 : at[first + k] > stop
    <2>1. /\ n \in Nat \ {0} /\ first + n - 1 <= last
          /\ at[first + n - 1] - cells[first + n - 1] <= stop
          /\ \A k \in 0 .. n - 1 : at[first + k] > stop
        BY WalkEnds
    <2>2. first + n - 1 \in Nat
        BY <1>1, <2>1
    <2>3. QED
        BY <2>1, <2>2
<1>3. \A i \in first .. last : at[i] \in Nat /\ cells[i] \in Nat /\ i \in Nat
    <2>1. ASSUME NEW i \in first .. last PROVE at[i] \in Nat /\ cells[i] \in Nat /\ i \in Nat
        <3>1. i \in Nat /\ i < DataCount
            BY <1>1, SizesAre
        <3>2. QED
            BY <3>1, CellsAre
    <2>2. QED
        BY <2>1
<1>4. ASSUME NEW k \in 0 .. n - 1
      PROVE  /\ base - Sum(cells, first, k) = at[first + k] /\ at[first + k] \in own /\ at[first + k] > stop
             /\ k # 0 => at[first + k] < base
    <2>1. k \in Nat /\ first + k \in first .. last /\ first + k <= last
        BY <1>1, <1>2
    <2>2. Sum(cells, first, k) = base - at[first + k]
        BY <2>1, LeadsSum
    <2>3. at[first + k] \in own /\ at[first + k] > stop /\ at[first + k] \in Nat
        BY <1>2, <1>3, <2>1 DEF Leads
    <2>4. ASSUME k # 0 PROVE at[first + k] < base
        <3>1. /\ first \in first .. last - 1 /\ first + 1 <= last /\ 1 \in Nat /\ 1 <= k
              /\ first + k < DataCount + Beyond /\ first + 1 \in first .. last
            BY <1>1, <2>1, <2>4, SizesAre
        <3>2. at[first + 1] = at[first] - cells[first] /\ cells[first] > 0
            BY <3>1 DEF Leads
        <3>3. Sum(cells, first, 1) = base - at[first + 1]
            BY <3>1, LeadsSum
        <3>4. Sum(cells, first, 1) <= Sum(cells, first, k)
            <4> HIDE DEF first
            <4>1. QED
                BY <1>1, <2>1, <3>1, SumGrows
        <3>5. first \in first .. last
            BY <1>1
        <3>6. at[first + 1] \in Nat /\ cells[first] \in Nat
            BY <1>3, <3>1, <3>5
        <3>7. \A b, x, y, z \in Nat : x = b - z /\ z > 0 /\ b - x <= b - y => y < b
            OBVIOUS
        <3>8. QED
            BY <1>1, <2>2, <2>3, <3>2, <3>3, <3>4, <3>6, <3>7
    <2>5. base - (base - at[first + k]) = at[first + k]
        BY <1>1, <2>3
    <2>6. QED
        BY <2>2, <2>3, <2>4, <2>5
<1>5. ASSUME NEW q \in own, stop < q, q < base
      PROVE  \E k \in 1 .. n - 1 : q = base - Sum(cells, first, k)
    <2> DEFINE T == { m \in Nat : first + m <= top /\ ~(q < at[first + m]) }
    <2>1. q \in Nat
        OBVIOUS
    <2>2. n - 1 \in Nat /\ first + (n - 1) = top /\ top \in first .. last
        BY <1>1, <1>2
    <2>3. ASSUME NEW i \in first .. last, q < at[i] PROVE q <= at[i] - cells[i]
        <3>1. q <= at[i] - cells[i] \/ q <= stop
            BY <2>3 DEF Leads
        <3>2. QED
            BY <1>5, <2>1, <3>1
    <2>4. n - 1 \in T
        <3>1. ~(q < at[top])
            <4> SUFFICES ASSUME q < at[top] PROVE FALSE
                OBVIOUS
            <4>1. q <= at[top] - cells[top]
                BY <2>2, <2>3
            <4>2. at[top] \in Nat /\ cells[top] \in Nat
                BY <1>3, <2>2
            <4>3. QED
                BY <1>2, <1>5, <2>1, <4>1, <4>2
        <3>2. top <= top
            BY <1>2
        <3>3. QED
            BY <2>2, <3>1, <3>2
    <2>5. PICK k \in T : \A m \in T : k <= m
        <3>1. T \in SUBSET Nat /\ T # {}
            BY <2>4
        <3> HIDE DEF T
        <3>2. QED
            BY <3>1, LeastNatural
    <2>6. k \in Nat /\ first + k <= top /\ ~(q < at[first + k]) /\ k <= n - 1
        BY <2>4, <2>5
    <2>7. k # 0
        <3>1. first + 0 = first
            BY <1>1
        <3>2. QED
            BY <1>1, <1>5, <2>6, <3>1
    <2>8. k - 1 \in Nat /\ k - 1 \notin T /\ first + (k - 1) <= top
        <3>1. k - 1 \in Nat /\ ~(k <= k - 1) /\ first + (k - 1) <= top
            BY <1>1, <1>2, <2>6, <2>7
        <3>2. QED
            BY <2>5, <3>1
    <2>9. q < at[first + (k - 1)]
        BY <2>8
    <2>10. first + (k - 1) \in first .. last /\ first + (k - 1) \in first .. last - 1 /\ (first + (k - 1)) + 1 = first + k
           /\ first + k \in first .. last
        BY <1>1, <1>2, <2>6, <2>8
    <2>11. q <= at[first + k]
        <3>1. q <= at[first + (k - 1)] - cells[first + (k - 1)]
            BY <2>3, <2>9, <2>10
        <3>2. at[(first + (k - 1)) + 1] = at[first + (k - 1)] - cells[first + (k - 1)]
            BY <2>10 DEF Leads
        <3>3. QED
            BY <2>10, <3>1, <3>2
    <2>12. q = at[first + k]
        <3>1. at[first + k] \in Nat
            BY <1>3, <2>10
        <3>2. QED
            BY <2>1, <2>6, <2>11, <3>1
    <2>13. k \in 1 .. n - 1 /\ k \in 0 .. n - 1
        BY <1>2, <2>6, <2>7
    <2>14. QED
        BY <1>4, <2>12, <2>13
<1>6. \A k \in 1 .. n - 1 : k \in 0 .. n - 1 /\ k # 0
    BY <1>2
<1>7. QED
    <2> DEFINE A == { base - Sum(cells, first, k) : k \in 1 .. n - 1 }
               B == { q \in own : stop < q /\ q < base }
    <2>1. ASSUME NEW a \in A PROVE a \in B
        <3>1. PICK k \in 1 .. n - 1 : a = base - Sum(cells, first, k)
            OBVIOUS
        <3>2. k \in 0 .. n - 1 /\ k # 0
            BY <1>6
        <3>3. a = at[first + k] /\ a \in own /\ a > stop /\ a < base
            BY <1>4, <3>1, <3>2
        <3>4. stop < a
            BY <3>3
        <3>5. QED
            BY <3>3, <3>4
    <2>2. ASSUME NEW b \in B PROVE b \in A
        BY <1>5
    <2>3. A = B
        <3> HIDE DEF A, B
        <3>1. QED
            BY <2>1, <2>2
    <2>4. QED
        BY <2>3 DEF Passed, Within

\* Every chain that has been kept is history.
LEMMA KeptIsHistory ==
    ASSUME chains \in [Chains -> Places], chain_data \in [Memory -> 0 .. Terminator],
           local.pos \in Nat, data \in Seq(Bytes), local.pos + TupleSize <= Len(data),
           NEW head, KeptOut(chains, chain_data, head, Stop, local.pos)
    PROVE  WalksAreHistory
<1>1. PICK at \in Ways, last \in Ends : Kept(chains, chain_data, head, Stop, local.pos, at, last)
    BY DEF KeptOut
<1>2. Stop \in Int /\ Len(data) \in Nat
    BY SizesAre, LenProperties DEF Stop
<1> SUFFICES ASSUME NEW c \in Chains, chains[c].base > Stop PROVE Visited(c) = Occurrences(c)
    BY DEF WalksAreHistory
<1> DEFINE base == chains[c].base
           first == chains[c].data_index
           own == Inserted(c, local.pos)
           n == CellsFor(chain_data, first, base - Stop)
<1>3. base \in Nat
    <2>1. base \in Nat \/ base = -MaxDist
        BY DEF Places
    <2>2. \A p \in Nat : ~(-MaxDist > p - MaxDist)
        BY SizesAre
    <2>3. QED
        BY <2>1, <2>2 DEF Stop
<1>4. Leads(chains[c], chain_data, Stop, own, at[c], last[c])
    <2>1. ~(base < 0)
        BY <1>3
    <2>2. KeptChain(chains[c], chain_data, head, Stop, own, at[c], last[c])
        BY <1>1 DEF Kept
    <2>3. QED
        BY <2>1, <2>2 DEF KeptChain
<1>5. own \in SUBSET Nat /\ chains[c] \in Places /\ at[c] \in [Nat -> Nat] /\ last[c] \in Nat
    BY DEF Inserted, Ways, Ends
<1>6. Passed(chain_data, first, base, n) = Within(own, Stop, base)
    BY <1>2, <1>4, <1>5, WalkIsHistory
<1>7. Visited(c) = Passed(chain_data, first, base, n)
    BY DEF Visited, Passed
<1>8. \A q \in own : q <= base /\ q \in Nat
    BY <1>4, <1>5 DEF Leads
<1>9. base \in own
    <2>1. first \in first .. last[c] /\ at[c][first] = base
        BY <1>4, <1>5 DEF Leads, Places
    <2>2. QED
        BY <1>4, <2>1 DEF Leads
<1> HIDE DEF n
<1>10. Occurrences(c) = Within(own, Stop, base)
    <2>1. base <= local.pos - 1
        BY <1>9 DEF Inserted
    <2>2. ASSUME NEW q \in Stop + 1 .. base - 1, q >= 0, TupleChain(q) = c
          PROVE  q \in own /\ Stop < q /\ q < base
        <3>1. q \in 0 .. local.pos - 1 /\ q + TupleSize <= Len(data) /\ Stop < q /\ q < base
            BY <1>2, <1>3, <2>1, <2>2, SizesAre
        <3>2. QED
            BY <2>2, <3>1 DEF Inserted
    <2>3. ASSUME NEW q \in own, Stop < q, q < base
          PROVE  q \in Stop + 1 .. base - 1 /\ q >= 0 /\ TupleChain(q) = c
        <3>1. q \in Nat /\ TupleChain(q) = c
            BY <1>8 DEF Inserted
        <3>2. QED
            BY <1>2, <1>3, <2>3, <3>1
    <2>4. QED
        BY <2>2, <2>3 DEF Occurrences, Within
<1>11. QED
    BY <1>6, <1>7, <1>10

\* A chain is kept while the window and the storage's head move on and other
\* cells change.
LEMMA ChainStays ==
    ASSUME NEW place \in Places, NEW cells \in [Memory -> 0 .. Terminator], NEW moved,
           NEW head \in Nat, NEW further \in Nat, NEW stop \in Int, NEW later \in Int,
           NEW own \in SUBSET Nat, NEW at \in [Nat -> Nat], NEW last \in Nat,
           KeptChain(place, cells, head, stop, own, at, last), head <= further, stop <= later,
           place.base >= 0 => \A i \in place.data_index .. last : moved[i] = cells[i]
    PROVE  KeptChain(place, moved, further, later, own, at, last)
<1>1. CASE place.base < 0
    BY <1>1 DEF KeptChain
<1>2. CASE ~(place.base < 0)
    <2> DEFINE first == place.data_index
    <2>1. Leads(place, cells, stop, own, at, last) /\ Housed(place, head, last)
        BY <1>2 DEF KeptChain
    <2>2. first \in Nat /\ first <= last /\ last < DataCount /\ last \in first .. last
        BY <2>1 DEF Leads, Places
    <2>3. place.base >= 0
        <3>1. \A b \in Nat \cup {-MaxDist} : ~(b < 0) => b >= 0
            BY SizesAre
        <3>2. place.base \in Nat \cup {-MaxDist}
            BY DEF Places
        <3>3. QED
            BY <1>2, <3>1, <3>2
    <2>4. \A i \in first .. last : moved[i] = cells[i]
        BY <2>3
    <2>5. \A i \in first .. last : at[i] \in Nat /\ cells[i] \in Nat /\ at[i] - cells[i] \in Int
        <3>1. ASSUME NEW i \in first .. last PROVE at[i] \in Nat /\ cells[i] \in Nat
            <4>1. i \in Nat /\ i < DataCount
                BY <2>2, SizesAre
            <4>2. QED
                BY <4>1, CellsAre
        <3>2. QED
            BY <3>1
    <2>6. \A i \in first .. last - 1 : at[i + 1] = at[i] - moved[i] /\ moved[i] > 0
        <3>1. ASSUME NEW i \in first .. last - 1 PROVE at[i + 1] = at[i] - moved[i] /\ moved[i] > 0
            <4>1. i \in first .. last
                BY <2>2
            <4>2. at[i + 1] = at[i] - cells[i] /\ cells[i] > 0
                BY <2>1 DEF Leads
            <4>3. QED
                BY <2>4, <4>1, <4>2
        <3>2. QED
            BY <3>1
    <2>7. at[last] - moved[last] <= later
        <3>1. at[last] - cells[last] <= stop /\ moved[last] = cells[last] /\ at[last] - cells[last] \in Int
            BY <2>1, <2>2, <2>4, <2>5 DEF Leads
        <3>2. QED
            BY <3>1
    <2>8. ASSUME NEW i \in first .. last, NEW q \in own, q < at[i]
          PROVE  q <= at[i] - moved[i] \/ q <= later
        <3>1. q <= at[i] - cells[i] \/ q <= stop
            BY <2>1, <2>8 DEF Leads
        <3>2. moved[i] = cells[i]
            BY <2>4
        <3>3. q \in Nat
            OBVIOUS
        <3>4. QED
            BY <3>1, <3>2, <3>3
    <2>9. Housed(place, further, last)
        <3>1. last < head => last < further
            OBVIOUS
        <3>2. QED
            BY <2>1, <3>1 DEF Housed
    <2>10. Leads(place, moved, later, own, at, last)
        BY <2>1, <2>6, <2>7, <2>8 DEF Leads
    <2>11. QED
        BY <1>2, <2>9, <2>10 DEF KeptChain
<1>3. QED
    BY <1>1, <1>2

\* The positions of a chain before a position and with it.
LEMMA InsertedIs ==
    ASSUME data \in Seq(Bytes), NEW n \in Nat, NEW c
    PROVE  /\ Inserted(c, n) \in SUBSET Nat /\ \A q \in Inserted(c, n) : q < n
           /\ ~(n + TupleSize <= Len(data) /\ TupleChain(n) = c) => Inserted(c, n + 1) = Inserted(c, n)
           /\ n + TupleSize <= Len(data) /\ TupleChain(n) = c => Inserted(c, n + 1) = Inserted(c, n) \cup {n}
<1>1. 0 .. (n + 1) - 1 = (0 .. n - 1) \cup {n}
    OBVIOUS
<1>2. QED
    BY <1>1 DEF Inserted

\* The window moves on.
LEMMA KeptLater ==
    ASSUME NEW cs \in [Chains -> Places], NEW cells \in [Memory -> 0 .. Terminator], NEW head \in Nat,
           NEW stop \in Int, NEW later \in Int, NEW n \in Nat, NEW m \in Nat, NEW at \in Ways, NEW last \in Ends,
           Kept(cs, cells, head, stop, n, at, last), stop <= later,
           \A c \in Chains : Inserted(c, m) = Inserted(c, n)
    PROVE  Kept(cs, cells, head, later, m, at, last)
<1>1. ASSUME NEW c \in Chains PROVE KeptChain(cs[c], cells, head, later, Inserted(c, m), at[c], last[c])
    <2>1. KeptChain(cs[c], cells, head, stop, Inserted(c, m), at[c], last[c])
        BY DEF Kept
    <2> DEFINE place == cs[c]
               way == at[c]
               end == last[c]
               own == Inserted(c, m)
    <2>2. place \in Places /\ way \in [Nat -> Nat] /\ end \in Nat /\ own \in SUBSET Nat
        BY DEF Ways, Ends, Inserted
    <2>3. KeptChain(place, cells, head, stop, own, way, end) /\ head <= head
        BY <2>1
    <2> HIDE DEF place, way, end, own
    <2>4. KeptChain(place, cells, head, later, own, way, end)
        BY <2>2, <2>3, ChainStays
    <2>5. QED
        BY <2>4 DEF place, way, end, own
<1>2. QED
    BY <1>1 DEF Kept

\* The storage is told by the fields of the chains.
LEMMA KeptSame ==
    ASSUME NEW cs, NEW ds, NEW cells, NEW head, NEW stop, NEW n, NEW at, NEW last,
           Kept(cs, cells, head, stop, n, at, last),
           \A d \in Chains : /\ ds[d].base = cs[d].base /\ ds[d].capacity = cs[d].capacity
                             /\ ds[d].data_index = cs[d].data_index
    PROVE  Kept(ds, cells, head, stop, n, at, last)
<1>1. ASSUME NEW c \in Chains
      PROVE  KeptChain(ds[c], cells, head, stop, Inserted(c, n), at[c], last[c])
    <2>1. KeptChain(cs[c], cells, head, stop, Inserted(c, n), at[c], last[c])
        BY DEF Kept
    <2>2. QED
        BY <2>1 DEF KeptChain, Leads, Housed
<1>2. ASSUME NEW c \in Chains, NEW d \in Chains, c # d, ds[c].base >= 0, ds[d].base >= 0,
             ds[c].data_index # 0, ds[d].data_index # 0
      PROVE  Clear(ds[c], last[c], ds[d], last[d])
    <2>1. Clear(cs[c], last[c], cs[d], last[d])
        BY <1>2 DEF Kept
    <2>2. QED
        BY <2>1 DEF Clear
<1>3. QED
    BY <1>1, <1>2 DEF Kept

\* A chain that starts anew, if all its positions are out of the window.
LEMMA KeptStarted ==
    ASSUME NEW cs \in [Chains -> Places], NEW cells \in [Memory -> 0 .. Terminator], NEW head \in Nat,
           NEW n \in Nat, NEW at \in Ways, NEW last \in Ends,
           Kept(cs, cells, head, n - MaxDist, n, at, last), cells[0] = Terminator,
           data \in Seq(Bytes), n + TupleSize <= Len(data),
           NEW c \in Chains, TupleChain(n) = c, n - cs[c].base >= MaxDist
    PROVE  KeptOut([cs EXCEPT ![c] = [base |-> n, capacity |-> 0, data_index |-> 0]],
                   cells, head, n - MaxDist, n + 1)
<1> DEFINE started == [cs EXCEPT ![c] = [base |-> n, capacity |-> 0, data_index |-> 0]]
           here == [i \in Nat |-> n]
           at2 == [at EXCEPT ![c] = here]
           last2 == [last EXCEPT ![c] = 0]
           stop == n - MaxDist
<1>1. at2 \in Ways /\ last2 \in Ends
    BY DEF Ways, Ends
<1>2. /\ started[c] = [base |-> n, capacity |-> 0, data_index |-> 0] /\ at2[c] = here /\ last2[c] = 0
      /\ \A d \in Chains \ {c} : started[d] = cs[d] /\ at2[d] = at[d] /\ last2[d] = last[d]
    BY DEF Ways, Ends
<1>3. here[0] = n
    OBVIOUS
<1> HIDE DEF started, at2, last2, here
<1>4. ASSUME NEW d \in Chains
      PROVE  KeptChain(started[d], cells, head, stop, Inserted(d, n + 1), at2[d], last2[d])
    <2>1. CASE d = c
        <3>1. Inserted(c, n + 1) = Inserted(c, n) \cup {n} /\ Inserted(c, n) \in SUBSET Nat
              /\ \A q \in Inserted(c, n) : q < n
            BY InsertedIs
        <3>2. \A q \in Inserted(c, n) : q <= stop
            <4>1. KeptChain(cs[c], cells, head, stop, Inserted(c, n), at[c], last[c])
                BY DEF Kept
            <4>2. CASE cs[c].base < 0
                BY <4>1, <4>2 DEF KeptChain
            <4>3. CASE ~(cs[c].base < 0)
                <5>1. \A q \in Inserted(c, n) : q <= cs[c].base
                    BY <4>1, <4>3 DEF KeptChain, Leads
                <5>2. cs[c].base \in Int
                    BY SizesAre DEF Places
                <5>3. \A b \in Int, q \in Nat : n - b >= MaxDist /\ q <= b => q <= n - MaxDist
                    BY SizesAre
                <5>4. QED
                    BY <3>1, <5>1, <5>2, <5>3
            <4>4. QED
                BY <4>2, <4>3
        <3>3. started[d].base = n /\ started[d].capacity = 0 /\ started[d].data_index = 0
            BY <1>2, <2>1
        <3>4. Leads(started[c], cells, stop, Inserted(c, n + 1), here, 0)
            <4>1. 0 .. 0 = {0} /\ \A i \in 0 .. 0 - 1 : FALSE
                OBVIOUS
            <4>2. here[0] - cells[0] <= stop
                BY <1>3, SizesAre
            <4>3. 0 < DataCount /\ 0 <= 0 /\ n <= n
                BY SizesAre
            <4>4. \A q \in Inserted(c, n + 1) : q <= n /\ (q < n => q <= stop)
                BY <3>1, <3>2
            <4>5. \A i \in 0 .. 0 : \A q \in Inserted(c, n + 1) : q < here[i] => q <= stop
                BY <1>3, <4>1, <4>4
            <4>6. \A i \in 0 .. 0 : here[i] \in Inserted(c, n + 1)
                BY <1>3, <3>1, <4>1
            <4>7. QED
                BY <1>3, <2>1, <3>3, <4>1, <4>2, <4>3, <4>4, <4>5, <4>6 DEF Leads
        <3>5. Housed(started[c], head, 0)
            BY <2>1, <3>3 DEF Housed
        <3>6. ~(n < 0)
            OBVIOUS
        <3>7. QED
            BY <1>2, <2>1, <3>3, <3>4, <3>5, <3>6 DEF KeptChain
    <2>2. CASE d # c
        <3>1. Inserted(d, n + 1) = Inserted(d, n)
            BY <2>2, InsertedIs
        <3>2. KeptChain(cs[d], cells, head, stop, Inserted(d, n), at[d], last[d])
            BY DEF Kept
        <3>3. QED
            BY <1>2, <2>2, <3>1, <3>2
    <2>3. QED
        BY <2>1, <2>2
<1>5. ASSUME NEW d \in Chains, NEW e \in Chains, d # e, started[d].base >= 0, started[e].base >= 0,
             started[d].data_index # 0, started[e].data_index # 0
      PROVE  Clear(started[d], last2[d], started[e], last2[e])
    <2>1. d # c /\ e # c
        BY <1>2, <1>5
    <2>2. started[d] = cs[d] /\ last2[d] = last[d] /\ started[e] = cs[e] /\ last2[e] = last[e]
        BY <1>2, <2>1
    <2>3. Clear(cs[d], last[d], cs[e], last[e])
        BY <1>5, <2>2 DEF Kept
    <2>4. QED
        BY <2>2, <2>3
<1>6. head <= DataCount
    BY DEF Kept
<1>7. Kept(started, cells, head, stop, n + 1, at2, last2)
    BY <1>4, <1>5, <1>6 DEF Kept
<1>8. QED
    BY <1>1, <1>7 DEF KeptOut, started

\* As KeptOut, and cell i of chain c tells position p.
KeptWith(cs, cells, head, stop, n, c, i, p) ==
    \E at \in Ways, last \in Ends :
        /\ Kept(cs, cells, head, stop, n, at, last)
        /\ i \in cs[c].data_index .. last[c] /\ at[c][i] = p

\* A position is put in front of a chain that has room.
LEMMA KeptPushed ==
    ASSUME NEW cs \in [Chains -> Places], NEW cells \in [Memory -> 0 .. Terminator], NEW head \in Nat,
           NEW stop \in Int, NEW n \in Nat, data \in Seq(Bytes), KeptOut(cs, cells, head, stop, n),
           NEW c \in Chains, cs[c].base >= 0, cs[c].capacity > 0,
           n + TupleSize <= Len(data), TupleChain(n) = c
    PROVE  KeptWith([cs EXCEPT ![c] = [base |-> n, capacity |-> cs[c].capacity - 1,
                                       data_index |-> cs[c].data_index - 1]],
                    [cells EXCEPT ![cs[c].data_index - 1] = n - cs[c].base], head, stop, n + 1,
                    c, cs[c].data_index, cs[c].base)
<1> DEFINE first == cs[c].data_index
           room == cs[c].capacity
           base == cs[c].base
           cell == first - 1
           pushed == [cs EXCEPT ![c] = [base |-> n, capacity |-> room - 1, data_index |-> cell]]
           after == [cells EXCEPT ![cell] = n - base]
           own == Inserted(c, n)
           longer == Inserted(c, n + 1)
<1>1. PICK at \in Ways, last \in Ends : Kept(cs, cells, head, stop, n, at, last)
    BY DEF KeptOut
<1> DEFINE way == at[c]
           end == last[c]
           way2 == [way EXCEPT ![cell] = n]
           at2 == [at EXCEPT ![c] = way2]
<1> DEFINE place == cs[c]
<1>2. /\ Leads(place, cells, stop, own, way, end) /\ Housed(place, head, end) /\ base \in Nat
      /\ first \in Nat /\ room \in Nat /\ end \in Nat /\ way \in [Nat -> Nat]
    <2>1. \A b \in Nat \cup {-MaxDist} : b >= 0 => b \in Nat /\ ~(b < 0)
        BY SizesAre
    <2>2. base \in Nat \cup {-MaxDist} /\ first \in Nat /\ room \in Nat /\ end \in Nat /\ way \in [Nat -> Nat]
        BY DEF Places, Ways, Ends
    <2>3. base \in Nat /\ ~(base < 0)
        BY <2>1, <2>2
    <2>4. KeptChain(cs[c], cells, head, stop, own, way, end)
        BY <1>1 DEF Kept
    <2>5. QED
        BY <2>2, <2>3, <2>4 DEF KeptChain
<1>0. /\ place.data_index = first /\ place.capacity = room /\ place.base = base /\ room > 0
      /\ cs[c].data_index = first /\ cs[c].capacity = room /\ cs[c].base = base
      /\ last[c] = end /\ at[c] = way
    OBVIOUS
<1> HIDE DEF first, room, base, place
<1>3. first - room >= 1 /\ end < head
    <2>1. room # 0
        BY <1>0, <1>2
    <2>2. QED
        BY <1>0, <1>2, <2>1 DEF Housed
<1>4. /\ cell \in Nat /\ cell # 0 /\ cell < first /\ cell + 1 = first /\ cell \in Memory
      /\ first <= end /\ end < DataCount /\ way[first] = base
    <2>1. first <= end /\ end < DataCount /\ way[first] = base
        BY <1>0, <1>2 DEF Leads
    <2>2. \A f, r, e \in Nat : r > 0 /\ f - r >= 1 /\ f <= e /\ e < DataCount
            => f - 1 \in Nat /\ f - 1 # 0 /\ f - 1 < f /\ (f - 1) + 1 = f /\ f - 1 \in 0 .. DataCount + Beyond - 1
        BY SizesAre
    <2>3. QED
        BY <1>0, <1>2, <1>3, <2>1, <2>2 DEF Memory, cell
<1>5. /\ longer = own \cup {n} /\ own \in SUBSET Nat /\ \A q \in own : q < n
      /\ \A d \in Chains \ {c} : Inserted(d, n + 1) = Inserted(d, n)
    BY InsertedIs
<1>6. base < n
    <2>1. base \in own
        <3>1. first \in first .. end
            BY <1>0, <1>2, <1>4
        <3>2. QED
            BY <1>0, <1>2, <1>4, <3>1 DEF Leads
    <2>2. QED
        BY <1>5, <2>1
<1>7. /\ after[cell] = n - base
      /\ \A i \in Nat : i # cell => after[i] = cells[i]
    BY <1>4
<1>8. /\ way2 \in [Nat -> Nat] /\ way2[cell] = n /\ \A i \in Nat : i # cell => way2[i] = way[i]
    BY <1>2, <1>4
<1>9. at2 \in Ways /\ at2[c] = way2 /\ \A d \in Chains \ {c} : at2[d] = at[d]
    <2> HIDE DEF way2
    <2>1. QED
        BY <1>8 DEF Ways
<1>10. /\ pushed[c] = [base |-> n, capacity |-> room - 1, data_index |-> cell]
       /\ \A d \in Chains \ {c} : pushed[d] = cs[d]
    OBVIOUS
<1> HIDE DEF pushed, after, way2, at2, cell, own, longer, way, end
<1>11. KeptChain(pushed[c], after, head, stop, longer, way2, end)
    <2>1. pushed[c].base = n /\ pushed[c].capacity = room - 1 /\ pushed[c].data_index = cell /\ ~(n < 0)
        BY <1>10
    <2>2. cell <= end /\ end \in first .. end /\ first \in first .. end
        <3>1. \A z, f, e \in Nat : z < f /\ f <= e => z <= e /\ e \in f .. e /\ f \in f .. e
            OBVIOUS
        <3>2. QED
            BY <1>2, <1>4, <3>1
    <2>3. \A i \in cell .. end : i = cell \/ (i # cell /\ i \in first .. end /\ i \in Nat)
        BY <1>0, <1>2, <1>4
    <2>4. \A i \in first .. end : i # cell /\ i \in Nat /\ after[i] = cells[i] /\ way2[i] = way[i]
        <3>1. \A i \in first .. end : i # cell /\ i \in Nat
            BY <1>0, <1>2, <1>4
        <3>2. QED
            BY <1>7, <1>8, <3>1
    <2>5. \A i \in cell .. end : way2[i] \in longer
        <3>1. \A i \in first .. end : way[i] \in own
            BY <1>0, <1>2 DEF Leads
        <3>2. QED
            BY <1>5, <1>8, <2>3, <2>4, <3>1
    <2>6. ASSUME NEW i \in cell .. end - 1 PROVE way2[i + 1] = way2[i] - after[i] /\ after[i] > 0
        <3>1. CASE i = cell
            <4>1. way2[i + 1] = base /\ way2[i] = n /\ after[i] = n - base
                BY <1>4, <1>7, <1>8, <2>2, <2>4, <3>1
            <4>2. base = n - (n - base) /\ n - base > 0
                BY <1>2, <1>6
            <4>3. QED
                BY <4>1, <4>2
        <3>2. CASE i # cell
            <4>1. i \in first .. end - 1 /\ i \in first .. end /\ i + 1 \in first .. end
                BY <1>2, <1>4, <3>2
            <4>2. way[i + 1] = way[i] - cells[i] /\ cells[i] > 0
                BY <1>0, <1>2, <4>1 DEF Leads
            <4>3. QED
                BY <2>4, <4>1, <4>2
        <3>3. QED
            BY <3>1, <3>2
    <2>7. way2[end] - after[end] <= stop
        <3>1. way[end] - cells[end] <= stop
            BY <1>0, <1>2 DEF Leads
        <3>2. QED
            BY <2>2, <2>4, <3>1
    <2>8. \A q \in longer : q <= n
        BY <1>5
    <2>9. ASSUME NEW i \in cell .. end, NEW q \in longer, q < way2[i]
          PROVE  q <= way2[i] - after[i] \/ q <= stop
        <3>1. q \in own
            <4>1. way2[i] \in own \cup {n}
                BY <1>5, <2>5
            <4>2. way2[i] <= n
                <5>1. \A x \in Nat : x < n => x <= n
                    OBVIOUS
                <5>2. n <= n
                    OBVIOUS
                <5>3. CASE way2[i] = n
                    BY <5>2, <5>3
                <5>4. CASE way2[i] # n
                    BY <1>5, <4>1, <5>1, <5>4
                <5>5. QED
                    BY <5>3, <5>4
            <4>3. q # n
                <5>1. way2[i] \in Nat
                    BY <1>5, <4>1
                <5>2. QED
                    BY <2>9, <4>2, <5>1
            <4>4. QED
                BY <1>5, <4>3
        <3>2. CASE i = cell
            <4>1. q <= base
                BY <1>0, <1>2, <3>1 DEF Leads
            <4>2. way2[i] - after[i] = base
                <5>1. n - (n - base) = base
                    BY <1>2
                <5>2. way2[i] = n /\ after[i] = n - base
                    BY <1>7, <1>8, <3>2
                <5>3. QED
                    BY <5>1, <5>2
            <4>3. QED
                BY <4>1, <4>2
        <3>3. CASE i # cell
            <4>1. i \in first .. end
                BY <2>3, <3>3
            <4>2. way2[i] = way[i] /\ after[i] = cells[i]
                BY <2>4, <4>1
            <4>3. q <= way[i] - cells[i] \/ q <= stop
                BY <1>0, <1>2, <2>9, <3>1, <4>1, <4>2 DEF Leads
            <4>4. QED
                BY <4>2, <4>3
        <3>4. QED
            BY <3>2, <3>3
    <2>10. Leads(pushed[c], after, stop, longer, way2, end)
        BY <1>4, <1>8, <2>1, <2>2, <2>5, <2>6, <2>7, <2>8, <2>9 DEF Leads
    <2>11. Housed(pushed[c], head, end)
        <3>1. cell - (room - 1) >= 1
            BY <1>2, <1>3 DEF cell
        <3>2. QED
            BY <1>3, <2>1, <3>1 DEF Housed
    <2>12. QED
        BY <2>1, <2>10, <2>11 DEF KeptChain
<1>12. ASSUME NEW d \in Chains, d # c
       PROVE  KeptChain(pushed[d], after, head, stop, Inserted(d, n + 1), at2[d], last[d])
    <2> DEFINE other == cs[d]
               wayD == at[d]
               endD == last[d]
               ownD == Inserted(d, n)
    <2>1. KeptChain(other, cells, head, stop, ownD, wayD, endD)
        BY <1>1 DEF Kept
    <2>2. other \in Places /\ wayD \in [Nat -> Nat] /\ endD \in Nat /\ ownD \in SUBSET Nat
          /\ other.data_index \in Nat /\ other.capacity \in Nat
        BY InsertedIs DEF Ways, Ends, Places
    <2>3. ASSUME other.base >= 0, NEW i \in other.data_index .. endD PROVE after[i] = cells[i]
        <3>1. i \in Nat
            BY <2>2
        <3>2. i # cell
            <4>1. CASE other.data_index = 0
                <5>1. ~(other.base < 0)
                    <6>1. \A b \in Nat \cup {-MaxDist} : b >= 0 => ~(b < 0)
                        BY SizesAre
                    <6>2. QED
                        BY <2>3, <6>1 DEF Places
                <5>2. Housed(other, head, endD)
                    BY <2>1, <5>1 DEF KeptChain
                <5>3. endD = 0
                    <6>1. ~(0 - other.capacity >= 1)
                        BY <2>2
                    <6>2. QED
                        BY <4>1, <5>2, <6>1 DEF Housed
                <5>4. i = 0
                    BY <4>1, <5>3
                <5>5. QED
                    BY <1>4, <5>4
            <4>2. CASE other.data_index # 0
                <5>1. Clear(cs[c], last[c], cs[d], last[d])
                    <6>1. cs[c].data_index # 0
                        BY <1>0, <1>2, <1>4
                    <6>2. QED
                        BY <1>1, <1>12, <2>3, <4>2, <6>1 DEF Kept
                <5>2. end < other.data_index - other.capacity \/ endD < first - room
                    BY <1>0, <5>1 DEF Clear
                <5>3. \A f, e, r, p, o, e2, k \in Nat : (e < p - o \/ e2 < f - r) /\ f <= e /\ r > 0 /\ p <= k /\ k <= e2
                        => k # f - 1
                    OBVIOUS
                <5>4. other.data_index <= i /\ i <= endD
                    BY <2>2
                <5> HIDE DEF other, first, room, end, endD
                <5>5. i # first - 1
                    BY <1>0, <1>2, <1>4, <2>2, <3>1, <5>2, <5>3, <5>4, Zenon
                <5>6. QED
                    BY <5>5 DEF cell
            <4>3. QED
                BY <4>1, <4>2
        <3>3. QED
            BY <1>7, <3>1, <3>2
    <2>4. head <= head /\ stop <= stop
        OBVIOUS
    <2> HIDE DEF other, wayD, endD, ownD
    <2>5. KeptChain(other, after, head, stop, ownD, wayD, endD)
        BY <2>1, <2>2, <2>3, <2>4, ChainStays
    <2>6. QED
        BY <1>5, <1>9, <1>10, <1>12, <2>5 DEF other, wayD, endD, ownD
<1>13. ASSUME NEW d \in Chains
       PROVE  /\ pushed[d].data_index - pushed[d].capacity = cs[d].data_index - cs[d].capacity
              /\ pushed[d].base >= 0 => cs[d].base >= 0
              /\ pushed[d].data_index # 0 => cs[d].data_index # 0
    <2>1. CASE d = c
        <3>1. pushed[d].capacity = room - 1 /\ pushed[d].data_index = cell
            BY <1>10, <2>1
        <3>2. cell - (room - 1) = first - room
            BY <1>2 DEF cell
        <3>3. cs[c].data_index # 0
            BY <1>0, <1>2, <1>4
        <3>4. QED
            BY <1>0, <2>1, <3>1, <3>2, <3>3
    <2>2. CASE d # c
        BY <1>10, <2>2
    <2>3. QED
        BY <2>1, <2>2
<1>14. ASSUME NEW d \in Chains, NEW e \in Chains, d # e, pushed[d].base >= 0, pushed[e].base >= 0,
              pushed[d].data_index # 0, pushed[e].data_index # 0
       PROVE  Clear(pushed[d], last[d], pushed[e], last[e])
    <2>1. Clear(cs[d], last[d], cs[e], last[e])
        BY <1>1, <1>13, <1>14 DEF Kept
    <2>2. QED
        BY <1>13, <2>1 DEF Clear
<1>15. head <= DataCount
    BY <1>1 DEF Kept
<1>16. \A d \in Chains : KeptChain(pushed[d], after, head, stop, Inserted(d, n + 1), at2[d], last[d])
    <2>1. ASSUME NEW d \in Chains
          PROVE  KeptChain(pushed[d], after, head, stop, Inserted(d, n + 1), at2[d], last[d])
        <3>1. CASE d = c
            <4>1. at2[c] = way2 /\ last[c] = end /\ Inserted(c, n + 1) = longer
                BY <1>0, <1>9 DEF longer
            <4>2. QED
                BY <1>11, <3>1, <4>1
        <3>2. CASE d # c
            BY <1>12, <3>2
        <3>3. QED
            BY <3>1, <3>2
    <2>2. QED
        BY <2>1
<1>17. Kept(pushed, after, head, stop, n + 1, at2, last)
    BY <1>14, <1>15, <1>16 DEF Kept
<1>18. first \in pushed[c].data_index .. last[c] /\ at2[c][first] = base
    <2>1. first # cell /\ way2[first] = base /\ first \in cell .. end
        BY <1>2, <1>4, <1>8
    <2>2. QED
        BY <1>0, <1>9, <1>10, <2>1
<1>19. KeptWith(pushed, after, head, stop, n + 1, c, first, base)
    BY <1>9, <1>17, <1>18 DEF KeptWith
<1>20. QED
    BY <1>19 DEF pushed, after, cell, first, room, base

\* What a chain tells is kept when its cells are copied, as far as they reach
\* through the window.
LEMMA LeadsCopied ==
    ASSUME NEW place \in Places, NEW cells \in [Memory -> 0 .. Terminator], NEW stop \in Int,
           NEW own \in SUBSET Nat, NEW way \in [Nat -> Nat], NEW last \in Nat,
           Leads(place, cells, stop, own, way, last), place.base > stop,
           NEW len, len = CellsFor(cells, place.data_index, place.base - stop),
           NEW start \in Nat, start + len <= DataCount, NEW moved \in Places,
           moved.base = place.base, moved.data_index = start
    PROVE  /\ len \in Nat \ {0}
           /\ \E way2 \in [Nat -> Nat] :
                Leads(moved, Copied(cells, place.data_index, start, len), stop, own, way2, start + len - 1)
<1> DEFINE first == place.data_index
           top == first + len - 1
           end == start + len - 1
           after == Copied(cells, first, start, len)
           at(i) == first + i - start
           way2 == [i \in Nat |-> IF i \in start .. end THEN way[at(i)] ELSE 0]
<1>1. first \in Nat /\ first <= last /\ last < DataCount /\ way[first] = place.base
    BY DEF Places, Leads
<1>2. len \in Nat \ {0} /\ top <= last /\ way[top] - cells[top] <= stop
    BY WalkEnds
<1>3. /\ start <= end /\ end < DataCount /\ end \in Nat /\ start \in start .. end /\ end \in start .. end
      /\ at(start) = first /\ at(end) = top /\ start + len - 1 = end
    <2>1. \A f, s, l \in Nat : l # 0 /\ s + l <= DataCount =>
            /\ s <= s + l - 1 /\ s + l - 1 < DataCount /\ s + l - 1 \in Nat /\ s \in s .. s + l - 1
            /\ s + l - 1 \in s .. s + l - 1 /\ f + s - s = f /\ f + (s + l - 1) - s = f + l - 1
        BY SizesAre
    <2>2. QED
        BY <1>1, <1>2, <2>1
<1>4. ASSUME NEW i \in start .. end
      PROVE  /\ at(i) \in first .. last /\ at(i) \in Nat /\ i \in Nat /\ i \in Memory
             /\ i < end => at(i) \in first .. last - 1 /\ at(i + 1) = at(i) + 1 /\ i + 1 \in start .. end
             /\ way2[i] = way[at(i)] /\ after[i] = cells[at(i)]
    <2>1. \A f, s, l, j, t \in Nat : l # 0 /\ s <= j /\ j <= s + l - 1 /\ f + l - 1 <= t =>
            /\ f + j - s \in Nat /\ f + j - s \in f .. t
            /\ j < s + l - 1 => f + j - s \in f .. t - 1 /\ f + (j + 1) - s = (f + j - s) + 1 /\ j + 1 \in s .. s + l - 1
        OBVIOUS
    <2>2. i \in Nat /\ start <= i /\ i <= end /\ i \in Memory
        BY <1>3, SizesAre DEF Memory
    <2>3. /\ at(i) \in first .. last /\ at(i) \in Nat
          /\ i < end => at(i) \in first .. last - 1 /\ at(i + 1) = at(i) + 1 /\ i + 1 \in start .. end
        BY <1>1, <1>2, <2>1, <2>2
    <2>4. after[i] = cells[at(i)]
        BY <2>2 DEF Copied
    <2>5. QED
        BY <2>2, <2>3, <2>4
<1>5. way2 \in [Nat -> Nat]
    <2>1. ASSUME NEW i \in start .. end PROVE way[at(i)] \in Nat
        BY <1>4
    <2>2. QED
        BY <2>1
<1> HIDE DEF top, end, after, at, way2
<1>6. Leads(moved, after, stop, own, way2, end)
    <2>1. way2[start] = moved.base
        BY <1>1, <1>3, <1>4
    <2>2. \A i \in start .. end : way2[i] \in own
        <3>1. \A j \in first .. last : way[j] \in own
            BY DEF Leads
        <3>2. QED
            BY <1>4, <3>1
    <2>3. ASSUME NEW i \in start .. end - 1 PROVE way2[i + 1] = way2[i] - after[i] /\ after[i] > 0
        <3>1. i \in start .. end /\ i < end
            BY <1>3
        <3>2. way2[i + 1] = way[at(i) + 1] /\ way2[i] = way[at(i)] /\ after[i] = cells[at(i)]
            BY <1>4, <3>1
        <3>3. way[at(i) + 1] = way[at(i)] - cells[at(i)] /\ cells[at(i)] > 0
            BY <1>4, <3>1 DEF Leads
        <3>4. QED
            BY <3>2, <3>3
    <2>4. way2[end] - after[end] <= stop
        BY <1>2, <1>3, <1>4
    <2>5. ASSUME NEW i \in start .. end, NEW q \in own, q < way2[i]
          PROVE  q <= way2[i] - after[i] \/ q <= stop
        <3>1. way2[i] = way[at(i)] /\ after[i] = cells[at(i)] /\ at(i) \in first .. last
            BY <1>4
        <3>2. q < way[at(i)] => q <= way[at(i)] - cells[at(i)] \/ q <= stop
            BY <3>1 DEF Leads
        <3>3. QED
            BY <2>5, <3>1, <3>2
    <2>6. \A q \in own : q <= moved.base
        BY DEF Leads
    <2>7. QED
        BY <1>3, <2>1, <2>2, <2>3, <2>4, <2>5, <2>6 DEF Leads
<1>7. QED
    BY <1>2, <1>5, <1>6 DEF after, end

\* A chain without room moves behind all others.
LEMMA KeptMoved ==
    ASSUME NEW cs \in [Chains -> Places], NEW cells \in [Memory -> 0 .. Terminator], NEW head \in Nat \ {0},
           NEW stop \in Int, NEW n \in Nat, KeptOut(cs, cells, head, stop, n),
           NEW c \in Chains, cs[c].base >= 0, cs[c].base > stop,
           NEW len, len = CellsFor(cells, cs[c].data_index, cs[c].base - stop), head + 2 * len <= DataCount
    PROVE  KeptOut([cs EXCEPT ![c] = [base |-> cs[c].base, capacity |-> len, data_index |-> head + len]],
                   Copied(cells, cs[c].data_index, head + len, len), head + 2 * len, stop, n)
<1> DEFINE first == cs[c].data_index
           base == cs[c].base
           start == head + len
           further == head + 2 * len
           place == [base |-> base, capacity |-> len, data_index |-> start]
           moved == [cs EXCEPT ![c] = place]
           after == Copied(cells, first, start, len)
           end == start + len - 1
           own == Inserted(c, n)
<1>1. PICK at \in Ways, last \in Ends : Kept(cs, cells, head, stop, n, at, last)
    BY DEF KeptOut
<1>2. /\ Leads(cs[c], cells, stop, own, at[c], last[c]) /\ own \in SUBSET Nat
      /\ base \in Nat /\ first \in Nat /\ last[c] \in Nat /\ at[c] \in [Nat -> Nat] /\ cs[c] \in Places
      /\ first <= DataCount + Beyond
    <2>1. \A b \in Nat \cup {-MaxDist} : b >= 0 => b \in Nat /\ ~(b < 0)
        BY SizesAre
    <2>2. base \in Nat \cup {-MaxDist} /\ first \in Nat /\ last[c] \in Nat /\ at[c] \in [Nat -> Nat] /\ own \in SUBSET Nat
        <3>1. own \in SUBSET Nat
            BY DEF Inserted
        <3> HIDE DEF own
        <3>2. QED
            BY <3>1 DEF Places, Ways, Ends
    <2>3. base \in Nat /\ ~(base < 0)
        BY <2>1, <2>2
    <2>4. KeptChain(cs[c], cells, head, stop, own, at[c], last[c])
        BY <1>1 DEF Kept
    <2>5. Leads(cs[c], cells, stop, own, at[c], last[c])
        BY <2>3, <2>4 DEF KeptChain
    <2>6. first <= last[c] /\ last[c] < DataCount
        BY <2>5 DEF Leads
    <2>7. \A f, l \in Nat : f <= l /\ l < DataCount => f <= DataCount + Beyond
        BY SizesAre
    <2>8. QED
        BY <2>2, <2>3, <2>5, <2>6, <2>7
<1>3. len \in Nat \ {0} /\ first + len <= DataCount + Beyond
    <2>1. len \in Nat \ {0}
        <3> DEFINE p == cs[c]
                   way == at[c]
                   l == last[c]
        <3>1. /\ Leads(p, cells, stop, own, way, l) /\ own \in SUBSET Nat /\ p.base > stop
              /\ l \in Nat /\ way \in [Nat -> Nat] /\ p \in Places /\ len = CellsFor(cells, p.data_index, p.base - stop)
            BY <1>2
        <3> HIDE DEF p, way, l, own
        <3>2. QED
            BY <3>1, WalkEnds
    <2> DEFINE d == base - stop
               m == CellsFor(cells, first, d)
    <2>2. d \in Int
        BY <1>2
    <2> HIDE DEF d
    <2>3. first + m <= DataCount + Beyond
        BY <1>2, <2>2, CellsForIs
    <2>4. len = m
        BY DEF d
    <2>5. QED
        BY <2>1, <2>3, <2>4
<1>4. /\ start \in Nat /\ start + len = further /\ further \in Nat /\ head <= further /\ end < further /\ end \in Nat
      /\ start + len <= DataCount /\ start - len = head /\ head < start /\ 0 < start
    BY <1>3
<1>5. place \in Places /\ place.base = base /\ place.data_index = start /\ place.capacity = len
    BY <1>2, <1>3, <1>4 DEF Places
<1>6. PICK way2 \in [Nat -> Nat] : Leads(place, after, stop, own, way2, end)
    <2> DEFINE p == cs[c]
               way == at[c]
               l == last[c]
    <2>1. /\ Leads(p, cells, stop, own, way, l) /\ own \in SUBSET Nat /\ p.base > stop
          /\ l \in Nat /\ way \in [Nat -> Nat] /\ p \in Places /\ len = CellsFor(cells, p.data_index, p.base - stop)
          /\ place.base = p.base
        BY <1>2, <1>5
    <2>2. \E way2 \in [Nat -> Nat] : Leads(place, Copied(cells, p.data_index, start, len), stop, own, way2, start + len - 1)
        <3> HIDE DEF p, way, l, own, start, place
        <3>1. start \in Nat /\ start + len <= DataCount /\ place \in Places /\ place.data_index = start
            BY <1>4, <1>5
        <3>2. QED
            BY <2>1, <3>1, LeadsCopied
    <2>3. QED
        BY <2>2
<1> DEFINE at2 == [at EXCEPT ![c] = way2]
           last2 == [last EXCEPT ![c] = end]
<1>7. /\ at2 \in Ways /\ last2 \in Ends /\ at2[c] = way2 /\ last2[c] = end /\ moved[c] = place
      /\ \A d \in Chains \ {c} : at2[d] = at[d] /\ last2[d] = last[d] /\ moved[d] = cs[d]
    <2> HIDE DEF end, place
    <2>1. QED
        BY <1>4 DEF Ways, Ends
<1>8. after \in [Memory -> 0 .. Terminator]
    <2>1. \A s, l \in Nat : s + l <= DataCount => s + l <= DataCount + Beyond
        BY SizesAre
    <2>2. QED
        BY <1>2, <1>3, <1>4, <2>1, CopiedIs
<1>9. \A i \in Memory : i < start => after[i] = cells[i]
    <2>1. \A i \in Memory : i < start => i \notin start .. start + len - 1
        BY <1>3, <1>4 DEF Memory
    <2>2. QED
        BY <2>1 DEF Copied
<1> HIDE DEF first, base, start, further, place, moved, after, end, own, at2, last2
<1>10. KeptChain(place, after, further, stop, own, way2, end)
    <2>1. ~(place.base < 0)
        BY <1>2, <1>5
    <2>2. Housed(place, further, end)
        BY <1>4, <1>5 DEF Housed
    <2>3. QED
        BY <1>6, <2>1, <2>2 DEF KeptChain
<1>11. ASSUME NEW d \in Chains, cs[d].base >= 0
       PROVE  /\ Housed(cs[d], head, last[d]) /\ last[d] \in Nat
              /\ cs[d].data_index # 0 => last[d] < head
              /\ last[d] < start /\ last[d] < DataCount /\ cs[d].data_index \in Nat
    <2>1. KeptChain(cs[d], cells, head, stop, Inserted(d, n), at[d], last[d])
        BY <1>1 DEF Kept
    <2>2. ~(cs[d].base < 0)
        <3>1. \A b \in Nat \cup {-MaxDist} : b >= 0 => ~(b < 0)
            BY SizesAre
        <3>2. QED
            BY <1>11, <3>1 DEF Places
    <2>3. Housed(cs[d], head, last[d]) /\ last[d] < DataCount
        BY <2>1, <2>2 DEF KeptChain, Leads
    <2>4. last[d] \in Nat /\ cs[d].data_index \in Nat
        BY DEF Ends, Places
    <2>5. last[d] = 0 \/ last[d] < head
        BY <2>3 DEF Housed
    <2>6. last[d] < start
        BY <1>4, <2>4, <2>5
    <2>7. QED
        BY <2>3, <2>4, <2>6 DEF Housed
<1>12. ASSUME NEW d \in Chains, d # c
       PROVE  KeptChain(cs[d], after, further, stop, Inserted(d, n), at[d], last[d])
    <2> DEFINE other == cs[d]
               wayD == at[d]
               endD == last[d]
               ownD == Inserted(d, n)
    <2>1. KeptChain(other, cells, head, stop, ownD, wayD, endD)
        BY <1>1 DEF Kept
    <2>2. other \in Places /\ wayD \in [Nat -> Nat] /\ endD \in Nat /\ ownD \in SUBSET Nat
          /\ other.data_index \in Nat
        <3>1. ownD \in SUBSET Nat
            BY DEF Inserted
        <3> HIDE DEF ownD
        <3>2. QED
            BY <3>1 DEF Places, Ways, Ends
    <2>3. ASSUME other.base >= 0, NEW i \in other.data_index .. endD PROVE after[i] = cells[i]
        <3>1. endD < start /\ endD < DataCount
            BY <1>11, <2>3
        <3>2. i \in Memory /\ i < start
            <4>1. \A f, e, j, s \in Nat : j \in f .. e /\ e < s /\ e < DataCount => j \in 0 .. DataCount + Beyond - 1 /\ j < s
                BY SizesAre
            <4>2. i \in Nat
                BY <2>2
            <4> HIDE DEF other, endD
            <4>3. QED
                BY <1>4, <2>2, <2>3, <3>1, <4>1, <4>2 DEF Memory
        <3>3. QED
            BY <1>9, <3>2
    <2>4. head <= further /\ stop <= stop /\ head \in Nat /\ further \in Nat
        BY <1>4
    <2> HIDE DEF other, wayD, endD, ownD
    <2>5. KeptChain(other, after, further, stop, ownD, wayD, endD)
        BY <2>1, <2>2, <2>3, <2>4, ChainStays
    <2>6. QED
        BY <2>5 DEF other, wayD, endD, ownD
<1>13. ASSUME NEW d \in Chains
       PROVE  KeptChain(moved[d], after, further, stop, Inserted(d, n), at2[d], last2[d])
    <2>1. CASE d = c
        BY <1>7, <1>10, <2>1 DEF own
    <2>2. CASE d # c
        BY <1>7, <1>12, <2>2
    <2>3. QED
        BY <2>1, <2>2
<1>14. ASSUME NEW d \in Chains, NEW e \in Chains, d # e, moved[d].base >= 0, moved[e].base >= 0,
              moved[d].data_index # 0, moved[e].data_index # 0
       PROVE  Clear(moved[d], last2[d], moved[e], last2[e])
    <2>1. place.data_index - place.capacity = head
        BY <1>4, <1>5
    <2>2. CASE d = c
        <3>1. e # c /\ moved[e] = cs[e] /\ last2[e] = last[e]
            BY <1>7, <1>14, <2>2
        <3>2. last[e] < head
            BY <1>11, <1>14, <3>1
        <3>3. QED
            BY <1>7, <2>1, <2>2, <3>1, <3>2 DEF Clear
    <2>3. CASE e = c
        <3>1. d # c /\ moved[d] = cs[d] /\ last2[d] = last[d]
            BY <1>7, <1>14, <2>3
        <3>2. last[d] < head
            BY <1>11, <1>14, <3>1
        <3>3. QED
            BY <1>7, <2>1, <2>3, <3>1, <3>2 DEF Clear
    <2>4. CASE d # c /\ e # c
        <3>1. moved[d] = cs[d] /\ moved[e] = cs[e] /\ last2[d] = last[d] /\ last2[e] = last[e]
            BY <1>7, <2>4
        <3>2. QED
            BY <1>1, <1>14, <3>1 DEF Kept
    <2>5. QED
        BY <2>2, <2>3, <2>4
<1>15. further <= DataCount
    BY DEF further
<1>16. Kept(moved, after, further, stop, n, at2, last2)
    BY <1>13, <1>14, <1>15 DEF Kept
<1>17. KeptOut(moved, after, further, stop, n)
    BY <1>7, <1>16 DEF KeptOut
<1>18. QED
    BY <1>17 DEF moved, after, further, start, first, base, place

-----------------------------------------------------------------------------
(* The chain a search goes on with.                                        *)

\* A match of that length can be gone on from, and the chain of the tuple that
\* ended it is in use.
Goes(length, best, end) ==
    /\ length - 1 > TupleSize /\ ~best => end # NoChain
    /\ end # NoChain => chains[end].base >= 0

LastInv ==
    /\ Goes(local.lastLength, local.lastBest, local.lastEnd)
    /\ Goes(saved.lastLength, saved.lastBest, saved.lastEnd)
    /\ phase \in {"probe", "emit"} => Goes(probe.length, probe.best, probe.end)

\* A chain that is in use stays in use, also in a collection.
LEMMA InUseStays ==
    ASSUME SearchInv, [Next]_vars, NEW c \in Chains, chains[c].base >= 0
    PROVE  chains'[c].base >= 0
<1>1. local.pos >= 0 /\ chains \in [Chains -> Places]
    BY SearchIs
<1>2. \A d \in Chains : chains[d] = [base |-> chains[d].base, capacity |-> chains[d].capacity,
                                     data_index |-> chains[d].data_index]
    BY <1>1 DEF Places
<1>3. CASE UNCHANGED chains
    BY <1>3
<1>4. CASE StartChain
    <2>1. chains' = [chains EXCEPT ![TupleChain(local.pos)] = Orphan(chains[TupleChain(local.pos)])]
        BY <1>4 DEF StartChain
    <2>2. Orphan(chains[TupleChain(local.pos)]).base = local.pos
        BY DEF Orphan
    <2> HIDE DEF Orphan
    <2>3. chains'[c].base = chains[c].base \/ chains'[c].base = local.pos
        BY <1>1, <2>1, <2>2
    <2>4. QED
        BY <1>1, <2>3
<1>5. CASE ExtendChain
    <2> DEFINE d == TupleChain(local.pos)
    <2>1. d \in Chains
        BY <1>5, SearchIs DEF ExtendChain, HasTuple
    <2> DEFINE cs == [chains EXCEPT ![d].base = local.pos]
    <2>2. chains' = [cs EXCEPT ![d].capacity = cs[d].capacity - 1, ![d].data_index = cs[d].data_index - 1]
        BY <1>5 DEF ExtendChain, Insert
    <2> HIDE DEF d
    <2>3. cs \in [Chains -> Places] /\ (cs[c].base = chains[c].base \/ cs[c].base = local.pos)
        BY <1>1, <2>1, SearchIs DEF Places
    <2> HIDE DEF cs
    <2>4. chains'[c].base = cs[c].base
        BY <2>1, <2>2, <2>3 DEF Places
    <2>5. QED
        BY <1>1, <2>3, <2>4
<1>6. CASE GrowChain
    <2>1. chains' = [chains EXCEPT ![TupleChain(local.pos)].base = local.pos]
        BY <1>6 DEF GrowChain
    <2>2. chains'[c].base = chains[c].base \/ chains'[c].base = local.pos
        BY <1>1, <2>1 DEF Places
    <2>3. QED
        BY <1>1, <2>2
<1>7. CASE Mark
    <2>1. chains'[c].base = chains[c].base
        <3> DEFINE n == CellsFor(chain_data, chains[c].data_index, chains[c].base - Stop + 1)
                   at == IF n > 1 THEN chains[c].data_index ELSE 0
                   place == chains[c]
        <3>1. chains'[c] = [place EXCEPT !.capacity = 0, !.data_index = at]
            BY <1>7 DEF Mark
        <3>2. place \in Places
            BY <1>1
        <3> HIDE DEF at, place
        <3>3. chains'[c].base = place.base
            BY <3>1, <3>2 DEF Places
        <3>4. QED
            BY <3>3 DEF place
    <2>2. QED
        BY <2>1
<1>8. CASE MoveChain
    <2>1. PICK lowest \in grow.live : chains' = [chains EXCEPT ![lowest.chain].data_index = local.head]
        BY <1>8 DEF MoveChain
    <2>2. chains'[c].base = chains[c].base
        BY <1>1, <2>1 DEF Places
    <2>3. QED
        BY <2>2
<1>9. CASE Reallocate
    <2> DEFINE d == grow.chain
               n == grow.length
               room == BlockSize(n) - n
               first == local.head + room
               cs == [chains EXCEPT ![d].data_index = first, ![d].capacity = room]
    <2>1. UNCHANGED chains \/ chains' = [cs EXCEPT ![d].capacity = cs[d].capacity - 1, ![d].data_index = cs[d].data_index - 1]
        BY <1>9 DEF Reallocate, Insert, GiveUp, index
    <2>2. d \in Chains
        BY <1>9, GrowIs DEF Reallocate
    <2> HIDE DEF room, first, d
    <2>3. DOMAIN cs = Chains /\ cs[c].base = chains[c].base
          /\ cs[d] = [base |-> chains[d].base, capacity |-> room, data_index |-> first]
        BY <1>1, <2>2 DEF Places
    <2> HIDE DEF cs
    <2>4. chains'[c].base = chains[c].base
        <3>1. CASE c = d
            BY <2>1, <2>2, <2>3, <3>1
        <3>2. CASE c # d
            BY <2>1, <2>2, <2>3, <3>2
        <3>3. QED
            BY <3>1, <3>2
    <2>5. QED
        BY <2>4
<1>10. QED
    <2>1. CASE UNCHANGED vars
        BY <1>3, <2>1 DEF vars, index
    <2>2. CASE SkipTail \/ Sync \/ Try \/ Emit \/ Return
        BY <1>3, <2>2 DEF index, SkipTail, Sync, Try, Emit, Return
    <2>3. CASE CallSearch \/ SkipCovered \/ WriteLiteral \/ WriteReference \/ WritePiece \/ Finish
        BY <1>3, <2>3 DEF index, CallSearch, SkipCovered, WriteLiteral, WriteReference, WritePiece, Finish
    <2>4. QED
        BY <1>4, <1>5, <1>6, <1>7, <1>8, <1>9, <2>1, <2>2, <2>3 DEF Next

LEMMA InsertLast ==
    ASSUME SearchInv, LastInv, [Next]_vars, saved' = saved,
           NEW c, NEW begin, NEW cs, NEW cells, NEW head, Insert(c, begin, cs, cells, head)
    PROVE  LastInv'
<1> DEFINE submatch == local.lastLength - 1
           longer == submatch > TupleSize
           end == IF longer THEN local.lastEnd ELSE NoChain
           length == IF longer THEN submatch ELSE 0
<1>1. /\ local.lastEnd \in 0 .. NoChain /\ local.lastLength \in Nat /\ local.lastBest \in BOOLEAN /\ local \in Locals
      /\ saved \in Locals /\ saved.lastEnd \in 0 .. NoChain /\ NoChain \in 0 .. NoChain
    BY SearchIs, SizesAre DEF SearchInv, StateInv, Locals, NoChain
<1>2. /\ Goes(local.lastLength, local.lastBest, local.lastEnd)
      /\ Goes(saved.lastLength, saved.lastBest, saved.lastEnd)
    BY DEF LastInv
<1>3. /\ local.lastLength - 1 > TupleSize /\ ~local.lastBest => local.lastEnd # NoChain
      /\ local.lastEnd # NoChain => chains'[local.lastEnd].base >= 0
    <2> DEFINE l == local.lastLength
               b == local.lastBest
               e == local.lastEnd
    <2>1. e \in 0 .. NoChain /\ Goes(l, b, e)
        BY <1>1, <1>2
    <2>2. e # NoChain => e \in Chains
        BY <2>1, SizesAre DEF NoChain, Chains
    <2> HIDE DEF l, b, e
    <2>3. e # NoChain => chains'[e].base >= 0
        BY <2>1, <2>2, InUseStays DEF Goes
    <2>4. l - 1 > TupleSize /\ ~b => e # NoChain
        BY <2>1 DEF Goes
    <2>5. QED
        BY <2>3, <2>4 DEF l, b, e
<1>4. Goes(saved.lastLength, saved.lastBest, saved.lastEnd)'
    <2>1. /\ saved.lastLength - 1 > TupleSize /\ ~saved.lastBest => saved.lastEnd # NoChain
          /\ saved.lastEnd # NoChain => chains'[saved.lastEnd].base >= 0
        <3> DEFINE l == saved.lastLength
                   b == saved.lastBest
                   e == saved.lastEnd
        <3>1. e \in 0 .. NoChain /\ Goes(l, b, e)
            BY <1>1, <1>2
        <3>2. e # NoChain => e \in Chains
            BY <3>1, SizesAre DEF NoChain, Chains
        <3> HIDE DEF l, b, e
        <3>3. e # NoChain => chains'[e].base >= 0
            BY <3>1, <3>2, InUseStays DEF Goes
        <3>4. l - 1 > TupleSize /\ ~b => e # NoChain
            BY <3>1 DEF Goes
        <3>5. QED
            BY <3>3, <3>4 DEF l, b, e
    <2>2. QED
        BY <2>1 DEF Goes
<1>5. CASE longer /\ local.lastBest
    <2>1. /\ local' = [local EXCEPT !.pos = @ + 1, !.head = head, !.lastLength = submatch]
          /\ phase' = "search"
        BY <1>5 DEF Insert
    <2>2. local'.lastEnd = local.lastEnd /\ local'.lastBest
        BY <1>1, <1>5, <2>1 DEF Locals
    <2>3. QED
        BY <1>3, <1>4, <2>1, <2>2 DEF LastInv, Goes
<1>6. CASE ~(longer /\ local.lastBest)
    <2>1. /\ local' = [local EXCEPT !.head = head] /\ phase' = "probe"
          /\ probe' = FirstProbe([cs EXCEPT ![c].capacity = @ - 1, ![c].data_index = cs[c].data_index - 1], c, begin)
        BY <1>6 DEF Insert
    <2>2. local'.lastEnd = local.lastEnd /\ local'.lastBest = local.lastBest /\ local'.lastLength = local.lastLength
        BY <1>1, <2>1 DEF Locals
    <2>3. probe'.end = end /\ probe'.length = length /\ probe'.best = FALSE
        BY <2>1 DEF FirstProbe
    <2>4. (length - 1 > TupleSize => end # NoChain) /\ (end # NoChain => chains'[end].base >= 0)
        <3>1. CASE longer
            BY <1>3, <1>6, <3>1
        <3>2. CASE ~longer
            <4>1. ~(0 - 1 > TupleSize)
                BY SizesAre
            <4>2. QED
                BY <3>2, <4>1
        <3>3. QED
            BY <3>1, <3>2
    <2>5. QED
        BY <1>3, <1>4, <2>1, <2>2, <2>3, <2>4 DEF LastInv, Goes
<1>7. QED
    BY <1>5, <1>6

\* The chain that a match which is not the best is ended by is in use.
LEMMA TryLast ==
    ASSUME SearchInv, LastInv, Try
    PROVE  Goes(probe.length, probe.best, probe.end)'
<1> DEFINE most == Len(data) - local.pos
           n == Strmatch(local.pos, probe.begin, most)
           found == [probe EXCEPT !.length = n, !.matchPos = probe.begin]
           best == [found EXCEPT !.best = TRUE]
           end == TupleChain(local.pos + n - TupleSize + 1)
           longer == [found EXCEPT !.end = end, !.endPos = chains[end].base,
                                   !.endIter = chains[end].data_index, !.target = LongerThan(n)]
           next(p) == [p EXCEPT !.begin = p.begin - Cell(p.iter), !.iter = @ + 1, !.syncs = 0]
<1>1. phase = "probe" /\ probe \in Probes /\ probe.target >= TupleSize /\ probe.target \in Nat
      /\ chains' = chains /\ Walks(probe)
    BY DEF Try, Probing, SearchInv, ProbeInv, Sane, Probes, index
<1>2. /\ local.pos \in Nat /\ Len(data) \in Nat /\ local.pos + TupleSize <= Len(data) /\ probe.begin \in Nat
    BY <1>1, SearchIs DEF SearchInv, StateInv, Between, Walks
<1>3. most \in Nat
    BY <1>2, SizesAre
<1>4. n \in 0 .. most
    <2> HIDE DEF most
    <2>1. QED
        BY <1>2, <1>3, StrmatchIs
<1>5. Goes(probe.length, probe.best, probe.end)
    BY <1>1 DEF LastInv
<1>6. \/ n < probe.target /\ probe' = next(probe)
      \/ probe' = best
      \/ ~(n < probe.target) /\ n # most /\ ~(local.pos - chains[end].base >= MaxDist) /\ probe' = next(longer)
    BY DEF Try, Break, Advance
<1> HIDE DEF n
<1>7. CASE probe' = next(probe)
    <2>1. probe'.length = probe.length /\ probe'.best = probe.best /\ probe'.end = probe.end
        BY <1>1, <1>7 DEF Probes
    <2>2. QED
        BY <1>1, <1>5, <2>1 DEF Goes
<1>8. CASE probe' = best
    <2>1. probe'.best /\ probe'.end = probe.end
        BY <1>1, <1>8 DEF Probes
    <2>2. QED
        BY <1>1, <1>5, <2>1 DEF Goes
<1>9. CASE ~(n < probe.target) /\ n # most /\ ~(local.pos - chains[end].base >= MaxDist) /\ probe' = next(longer)
    <2>1. end \in Chains
        <3>1. local.pos + n - TupleSize + 1 \in 0 .. Len(data) - TupleSize
            <4>1. \A p, m, t, l \in Nat : p + m < l /\ t >= TupleSize /\ m >= t => p + m - TupleSize + 1 \in 0 .. l - TupleSize
                BY SizesAre
            <4>2. n \in Nat /\ local.pos + n < Len(data) /\ n >= probe.target
                BY <1>1, <1>2, <1>3, <1>4, <1>9
            <4>3. QED
                BY <1>1, <1>2, <4>1, <4>2
        <3>2. QED
            BY <3>1 DEF SearchInv, TextInv
    <2> HIDE DEF end
    <2>2. chains[end].base >= 0 /\ end # NoChain
        <3>1. chains[end].base \in Nat \cup {-MaxDist} /\ end # NoChain
            BY <2>1, SearchIs, SizesAre DEF Places, Chains, NoChain
        <3>2. \A p \in Nat, b \in Nat \cup {-MaxDist} : ~(p - b >= MaxDist) => b >= 0
            BY SizesAre
        <3>3. QED
            BY <1>2, <1>9, <3>1, <3>2
    <2>3. probe'.end = end
        BY <1>1, <1>9 DEF Probes
    <2>4. QED
        BY <1>1, <2>2, <2>3 DEF Goes
<1>10. QED
    BY <1>6, <1>7, <1>8, <1>9

LEMMA LastStep == SearchInv /\ LastInv /\ [Next]_vars => LastInv'
<1> SUFFICES ASSUME SearchInv, LastInv, [Next]_vars PROVE LastInv'
    OBVIOUS
<1>1. /\ local \in Locals /\ saved \in Locals
      /\ local.lastEnd \in 0 .. NoChain /\ saved.lastEnd \in 0 .. NoChain
      /\ Goes(local.lastLength, local.lastBest, local.lastEnd)
      /\ Goes(saved.lastLength, saved.lastBest, saved.lastEnd)
    BY SearchIs DEF SearchInv, StateInv, LastInv, Locals
<1>2. \A end \in Chains : chains[end].base >= 0 => chains'[end].base >= 0
    BY InUseStays
<1>3. \A end \in 0 .. NoChain : end # NoChain => end \in Chains
    BY SizesAre DEF NoChain, Chains
<1>4. /\ Goes(local.lastLength, local.lastBest, local.lastEnd) => /\ local.lastLength - 1 > TupleSize /\ ~local.lastBest => local.lastEnd # NoChain
                                                                  /\ local.lastEnd # NoChain => chains'[local.lastEnd].base >= 0
      /\ Goes(saved.lastLength, saved.lastBest, saved.lastEnd) => /\ saved.lastLength - 1 > TupleSize /\ ~saved.lastBest => saved.lastEnd # NoChain
                                                                  /\ saved.lastEnd # NoChain => chains'[saved.lastEnd].base >= 0
    BY <1>1, <1>2, <1>3 DEF Goes
<1>5. CASE ~(phase' \in {"probe", "emit"}) /\ UNCHANGED saved
            /\ (UNCHANGED local \/ local' = [local EXCEPT !.pos = @ + 1] \/ local' = [local EXCEPT !.head = 1] \/ local' = saved)
    <2>1. \/ local'.lastEnd = local.lastEnd /\ local'.lastBest = local.lastBest /\ local'.lastLength = local.lastLength
          \/ local'.lastEnd = saved.lastEnd /\ local'.lastBest = saved.lastBest /\ local'.lastLength = saved.lastLength
        BY <1>1, <1>5 DEF Locals
    <2>2. QED
        BY <1>1, <1>4, <1>5, <2>1 DEF LastInv, Goes
<1>6. CASE SkipTail \/ StartChain \/ GrowChain \/ Mark
    <2>1. /\ ~(phase' \in {"probe", "emit"}) /\ UNCHANGED saved
          /\ UNCHANGED local \/ local' = [local EXCEPT !.pos = @ + 1] \/ local' = [local EXCEPT !.head = 1]
        BY <1>6 DEF SkipTail, StartChain, GrowChain, Mark, HasTuple, Searching
    <2>2. QED
        BY <1>5, <2>1
<1>7. CASE CallSearch \/ SkipCovered \/ WriteLiteral \/ WriteReference \/ WritePiece \/ Finish
    <2>1. ~(phase' \in {"probe", "emit"}) /\ UNCHANGED saved /\ (UNCHANGED local \/ local' = saved)
        BY <1>7 DEF Writing, CallSearch, SkipCovered, WriteLiteral, WriteReference, WritePiece, Finish
    <2>2. QED
        BY <1>5, <2>1
<1>8. CASE MoveChain
    <2>1. /\ ~(phase' \in {"probe", "emit"}) /\ UNCHANGED saved
          /\ local'.lastEnd = local.lastEnd /\ local'.lastBest = local.lastBest /\ local'.lastLength = local.lastLength
        BY <1>1, <1>8 DEF MoveChain, Locals
    <2>2. QED
        BY <1>1, <1>4, <2>1 DEF LastInv, Goes
<1>9. CASE ExtendChain
    <2>1. saved' = saved /\ Insert(TupleChain(local.pos), chains[TupleChain(local.pos)].base,
                    [chains EXCEPT ![TupleChain(local.pos)].base = local.pos], chain_data, local.head)
        BY <1>9 DEF ExtendChain
    <2>2. QED
        BY <2>1, InsertLast
<1>10. CASE Reallocate
    <2>1. CASE ~Full
        <3> DEFINE n == grow.length
                   room == BlockSize(n) - n
                   first == local.head + room
                   cs == [chains EXCEPT ![grow.chain].data_index = first, ![grow.chain].capacity = room]
                   cells == [i \in Memory |-> IF i \in first .. first + n - 1
                                              THEN chain_data[grow.from + i - first] ELSE chain_data[i]]
        <3>1. saved' = saved /\ Insert(grow.chain, grow.begin, cs, cells, first + n)
            BY <1>10, <2>1 DEF Reallocate
        <3> HIDE DEF cs, cells, first, n
        <3>2. QED
            BY <3>1, InsertLast
    <2>2. CASE Full
        <3>1. local' = saved /\ phase' = "write" /\ saved' = saved
            BY <1>10, <2>2 DEF Reallocate, GiveUp
        <3>2. QED
            BY <1>5, <3>1
    <2>3. QED
        BY <2>1, <2>2
<1>11. CASE Sync
    <2>1. phase = "probe" /\ probe \in Probes /\ UNCHANGED <<saved, local, chains>>
        BY <1>11 DEF Sync, Probing, SearchInv, ProbeInv, Sane, index
    <2>2. probe'.length = probe.length /\ probe'.best = probe.best /\ probe'.end = probe.end
        <3> DEFINE nearer == [probe EXCEPT !.begin = @ - Cell(probe.iter), !.iter = @ + 1, !.syncs = @ + 1]
                   back == [probe EXCEPT !.endPos = @ - Cell(probe.endIter), !.endIter = @ + 1, !.syncs = @ + 1]
        <3>1. probe' = probe \/ probe' = nearer \/ probe' = back
            BY <1>11 DEF Sync, Break
        <3>2. QED
            BY <2>1, <3>1 DEF Probes
    <2>3. QED
        BY <1>1, <1>4, <2>1, <2>2 DEF LastInv, Goes
<1>12. CASE Try
    <2>1. UNCHANGED <<saved, local>>
        BY <1>12 DEF Try
    <2>2. Goes(probe.length, probe.best, probe.end)'
        BY <1>12, TryLast
    <2>3. QED
        BY <1>1, <1>4, <2>1, <2>2 DEF LastInv, Goes
<1>13. CASE Emit
    <2>1. UNCHANGED <<saved, chains>> /\ phase = "emit" /\ phase' = "search"
          /\ local'.lastEnd = probe.end /\ local'.lastBest = probe.best /\ local'.lastLength = probe.length
        BY <1>1, <1>13 DEF Emit, index, Locals
    <2>2. QED
        BY <1>1, <1>4, <2>1 DEF LastInv, Goes
<1>14. CASE Return
    <2>1. saved' = local /\ local' = local /\ phase' = "write"
        BY <1>14 DEF Return
    <2>2. QED
        BY <1>1, <1>4, <2>1 DEF LastInv, Goes
<1>15. CASE UNCHANGED vars
    <2>1. UNCHANGED <<saved, local, probe, phase, chains>>
        BY <1>15 DEF vars, index
    <2>2. QED
        BY <1>1, <1>4, <2>1 DEF LastInv, Goes
<1>16. QED
    BY <1>6, <1>7, <1>8, <1>9, <1>10, <1>11, <1>12, <1>13, <1>14, <1>15 DEF Next

LEMMA LastInit == Init => LastInv
<1> SUFFICES ASSUME Init PROVE LastInv
    OBVIOUS
<1>1. /\ local = saved /\ saved.lastEnd = NoChain /\ saved.lastLength = 0 /\ phase = "write"
    BY DEF Init
<1>2. ~(0 - 1 > TupleSize)
    BY SizesAre
<1>3. QED
    BY <1>1, <1>2 DEF LastInv, Goes

-----------------------------------------------------------------------------
(* The chains and the walks along them, before a collection.               *)

\* A walk has come to position p and reads cell i next.
OnWalk(place, p, i, stop, way, last) ==
    /\ place.base >= 0
    /\ \/ p = stop
       \/ i \in place.data_index .. last /\ p = way[i] /\ (p > stop \/ i = place.data_index)

\* The candidate is on a walk along chain c, and the tuple that has to follow it
\* on one along the chain end.
Walking(cs, cells, head, stop, n, c, p) ==
    \E at \in Ways, last \in Ends :
        /\ Kept(cs, cells, head, stop, n, at, last)
        /\ OnWalk(cs[c], p.begin, p.iter, stop, at[c], last[c])
        /\ p.end # NoChain => OnWalk(cs[p.end], p.endPos, p.endIter, stop, at[p.end], last[p.end])

KeptInv ==
    /\ phase \in Between => KeptOut(chains, chain_data, local.head, Stop, local.pos)
    /\ phase = "grow" => KeptOut([chains EXCEPT ![grow.chain].base = grow.begin],
                                 chain_data, local.head, Stop, local.pos)
    /\ phase \in {"probe", "emit"} => KeptOut(chains, chain_data, local.head, Stop, local.pos + 1)
    /\ phase = "probe" => Walking(chains, chain_data, local.head, Stop, local.pos + 1,
                                  TupleChain(local.pos), probe)

LEMMA KeptText ==
    UNCHANGED text =>
        /\ \A c, n : Inserted(c, n)' = Inserted(c, n)
        /\ \A cs, cells, head, stop, n : KeptOut(cs, cells, head, stop, n)' <=> KeptOut(cs, cells, head, stop, n)
        /\ \A cs, cells, head, stop, n, c, p :
            Walking(cs, cells, head, stop, n, c, p)' <=> Walking(cs, cells, head, stop, n, c, p)
<1> SUFFICES ASSUME UNCHANGED text
             PROVE  /\ \A c, n : Inserted(c, n)' = Inserted(c, n)
                    /\ \A cs, cells, head, stop, n :
                        KeptOut(cs, cells, head, stop, n)' <=> KeptOut(cs, cells, head, stop, n)
                    /\ \A cs, cells, head, stop, n, c, p :
                        Walking(cs, cells, head, stop, n, c, p)' <=> Walking(cs, cells, head, stop, n, c, p)
    OBVIOUS
<1>1. data' = data /\ hash' = hash
    BY DEF text
<1>2. \A c, n : Inserted(c, n)' = Inserted(c, n)
    BY <1>1 DEF Inserted, TupleChain
<1>3. \A cs, cells, head, stop, n, at, last :
        Kept(cs, cells, head, stop, n, at, last)' <=> Kept(cs, cells, head, stop, n, at, last)
    BY <1>2 DEF Kept, KeptChain, Leads, Housed, Clear
<1>4. \A cs, cells, head, stop, n : KeptOut(cs, cells, head, stop, n)' <=> KeptOut(cs, cells, head, stop, n)
    BY <1>3 DEF KeptOut
<1>5. \A cs, cells, head, stop, n, c, p :
        Walking(cs, cells, head, stop, n, c, p)' <=> Walking(cs, cells, head, stop, n, c, p)
    BY <1>3 DEF Walking, OnWalk
<1>6. QED
    BY <1>2, <1>4, <1>5

\* The window moves on by one.
LEMMA KeptNext ==
    ASSUME NEW cs \in [Chains -> Places], NEW cells \in [Memory -> 0 .. Terminator], NEW head \in Nat,
           NEW stop \in Int, NEW n \in Nat, NEW m \in Nat, KeptOut(cs, cells, head, stop, n),
           \A c \in Chains : Inserted(c, m) = Inserted(c, n)
    PROVE  KeptOut(cs, cells, head, stop + 1, m)
<1>1. PICK at \in Ways, last \in Ends : Kept(cs, cells, head, stop, n, at, last)
    BY DEF KeptOut
<1>2. stop + 1 \in Int /\ stop <= stop + 1
    OBVIOUS
<1>3. Kept(cs, cells, head, stop + 1, m, at, last)
    BY <1>1, <1>2, KeptLater
<1>4. QED
    BY <1>3 DEF KeptOut

\* A walk starts at a chain's base.
LEMMA WalkStarts ==
    ASSUME NEW cs \in [Chains -> Places], NEW cells, NEW head, NEW stop, NEW n, NEW at \in Ways, NEW last \in Ends,
           Kept(cs, cells, head, stop, n, at, last), NEW c \in Chains, cs[c].base >= 0
    PROVE  OnWalk(cs[c], cs[c].base, cs[c].data_index, stop, at[c], last[c])
<1>1. ~(cs[c].base < 0)
    <2>1. \A b \in Nat \cup {-MaxDist} : b >= 0 => ~(b < 0)
        BY SizesAre
    <2>2. QED
        BY <2>1 DEF Places
<1>2. KeptChain(cs[c], cells, head, stop, Inserted(c, n), at[c], last[c])
    BY DEF Kept
<1>3. Leads(cs[c], cells, stop, Inserted(c, n), at[c], last[c])
    BY <1>1, <1>2 DEF KeptChain
<1>4. cs[c].data_index \in Nat /\ last[c] \in Nat
    BY DEF Places, Ends
<1>5. cs[c].data_index \in cs[c].data_index .. last[c] /\ at[c][cs[c].data_index] = cs[c].base
    <2>1. cs[c].data_index <= last[c] /\ at[c][cs[c].data_index] = cs[c].base
        BY <1>3 DEF Leads
    <2>2. \A f, l \in Nat : f <= l => f \in f .. l
        OBVIOUS
    <2>3. QED
        BY <1>4, <2>1, <2>2
<1>6. QED
    BY <1>5 DEF OnWalk

\* One step back along a chain that stays in the window.
LEMMA StepsBack ==
    ASSUME NEW cs \in [Chains -> Places], chain_data \in [Memory -> 0 .. Terminator], NEW head, NEW stop \in Int,
           NEW n, NEW at \in Ways, NEW last \in Ends,
           Kept(cs, chain_data, head, stop, n, at, last), NEW c \in Chains, NEW p \in Int, NEW i \in Nat,
           OnWalk(cs[c], p, i, stop, at[c], last[c])
    PROVE  /\ Cell(i) \in Nat
           /\ p - Cell(i) >= stop => OnWalk(cs[c], p - Cell(i), i + 1, stop, at[c], last[c])
           /\ \A q \in Inserted(c, n) : stop < q /\ q < p => q <= p - Cell(i)
<1> DEFINE first == cs[c].data_index
           way == at[c]
           end == last[c]
           own == Inserted(c, n)
           place == cs[c]
<1>1. Cell(i) \in Nat
    BY SizesAre DEF Cell
<1>2. Leads(place, chain_data, stop, own, way, end)
    <2>1. \A b \in Nat \cup {-MaxDist} : b >= 0 => ~(b < 0)
        BY SizesAre
    <2>2. ~(place.base < 0)
        BY <2>1 DEF OnWalk, Places
    <2>3. KeptChain(place, chain_data, head, stop, own, way, end)
        BY DEF Kept
    <2>4. QED
        BY <2>2, <2>3 DEF KeptChain
<1>3. first \in Nat /\ end \in Nat /\ way \in [Nat -> Nat] /\ end < DataCount /\ place.data_index = first
    BY <1>2 DEF Leads, Places, Ends, Ways
<1>4. OnWalk(place, p, i, stop, way, end) /\ place.base >= 0
    BY DEF OnWalk
<1>5. own \in SUBSET Nat
    BY DEF Inserted
<1> HIDE DEF first, way, end, own, place
<1>6. CASE p = stop
    <2>1. p - Cell(i) >= stop => p - Cell(i) = stop
        BY <1>1, <1>6
    <2>2. p - Cell(i) >= stop => OnWalk(place, p - Cell(i), i + 1, stop, way, end)
        BY <1>4, <2>1 DEF OnWalk
    <2>3. \A q \in own : ~(stop < q /\ q < p)
        BY <1>5, <1>6
    <2>4. QED
        BY <1>1, <2>2, <2>3 DEF place, way, end, own
<1>7. CASE i \in first .. end /\ p = way[i] /\ (p > stop \/ i = first)
    <2>1. Cell(i) = chain_data[i]
        <3>1. i \in Memory
            <4>1. \A f, e \in Nat : \A j \in f .. e : e < DataCount => j \in 0 .. DataCount + Beyond - 1
                BY SizesAre
            <4>2. QED
                BY <1>3, <1>7, <4>1 DEF Memory
        <3>2. QED
            BY <3>1 DEF Cell
    <2>2. \A q \in own : q < p => q <= p - chain_data[i] \/ q <= stop
        BY <1>2, <1>3, <1>7 DEF Leads
    <2>3. \A q \in own : stop < q /\ q < p => q <= p - Cell(i)
        <3>1. \A q \in own : stop < q => ~(q <= stop)
            BY <1>5
        <3>2. QED
            BY <2>1, <2>2, <3>1
    <2>4. ASSUME p - Cell(i) >= stop PROVE OnWalk(place, p - Cell(i), i + 1, stop, way, end)
        <3>1. CASE i = end
            <4>1. p - Cell(i) <= stop
                BY <1>2, <1>7, <2>1, <3>1 DEF Leads
            <4>2. p - Cell(i) = stop
                BY <1>1, <2>4, <4>1
            <4>3. QED
                BY <1>4, <4>2 DEF OnWalk
        <3>2. CASE i # end
            <4>1. i \in first .. end - 1 /\ i + 1 \in first .. end
                BY <1>3, <1>7, <3>2
            <4>2. way[i + 1] = p - Cell(i)
                BY <1>2, <1>3, <1>7, <2>1, <4>1 DEF Leads
            <4>3. p - Cell(i) = stop \/ p - Cell(i) > stop
                BY <1>1, <2>4
            <4>4. QED
                BY <1>3, <1>4, <4>1, <4>2, <4>3 DEF OnWalk
        <3>3. QED
            BY <3>1, <3>2
    <2>5. QED
        BY <1>1, <2>3, <2>4 DEF place, way, end, own
<1>8. QED
    BY <1>3, <1>4, <1>6, <1>7 DEF OnWalk

LEMMA StopIs ==
    ASSUME SearchInv
    PROVE  /\ Stop \in Int /\ Stop = local.pos - MaxDist /\ Stop + 1 = (local.pos + 1) - MaxDist
           /\ local.pos + 1 \in Nat
BY SearchIs, SizesAre DEF Stop

\* The state of a search between two positions.
LEMMA KeptBetween ==
    ASSUME SearchInv, UNCHANGED text, phase' \in Between, phase' # "grow",
           NEW n \in Nat, local'.pos = n,
           KeptOut(chains', chain_data', local'.head, n - MaxDist, n)
    PROVE  KeptInv'
<1>1. ~(phase' \in {"probe", "emit"}) /\ phase' # "probe"
    BY DEF Between
<1>2. Stop' = n - MaxDist
    BY DEF Stop
<1>3. KeptOut(chains, chain_data, local.head, Stop, local.pos)'
    BY <1>2, KeptText
<1>4. QED
    BY <1>1, <1>3 DEF KeptInv, Between

LEMMA SkipTailKept == SearchInv /\ KeptInv /\ SkipTail => KeptInv'
<1> SUFFICES ASSUME SearchInv, KeptInv, SkipTail PROVE KeptInv'
    OBVIOUS
<1>1. /\ UNCHANGED text /\ phase = "search" /\ phase' = "search"
      /\ chains' = chains /\ chain_data' = chain_data
      /\ local' = [local EXCEPT !.pos = @ + 1] /\ local.pos + TupleSize > Len(data)
    BY DEF SkipTail, Searching, index
<1>2. local'.pos = local.pos + 1 /\ local'.head = local.head
    BY <1>1, MovedOn
<1>3. /\ KeptOut(chains, chain_data, local.head, Stop, local.pos)
      /\ chains \in [Chains -> Places] /\ chain_data \in [Memory -> 0 .. Terminator]
      /\ local.head \in Nat /\ local.pos \in Nat /\ data \in Seq(Bytes) /\ Len(data) \in Nat
    BY <1>1, SearchIs DEF KeptInv, Between
<1>4. ~(local.pos + TupleSize <= Len(data))
    <2>1. \A p, l \in Nat : p + TupleSize > l => ~(p + TupleSize <= l)
        BY SizesAre
    <2>2. QED
        BY <1>1, <1>3, <2>1
<1>5. \A c \in Chains : Inserted(c, local.pos + 1) = Inserted(c, local.pos)
    BY <1>3, <1>4, InsertedIs
<1>6. Stop \in Int /\ Stop + 1 = (local.pos + 1) - MaxDist /\ local.pos + 1 \in Nat
    BY StopIs
<1>7. KeptOut(chains, chain_data, local.head, Stop + 1, local.pos + 1)
    BY <1>3, <1>5, <1>6, KeptNext
<1>8. phase' \in Between /\ phase' # "grow"
    BY <1>1 DEF Between
<1>9. QED
    BY <1>1, <1>2, <1>6, <1>7, <1>8, KeptBetween

LEMMA StartKept == SearchInv /\ KeptInv /\ StartChain => KeptInv'
<1> SUFFICES ASSUME SearchInv, KeptInv, StartChain PROVE KeptInv'
    OBVIOUS
<1> DEFINE c == TupleChain(local.pos)
           orphan == [base |-> local.pos, capacity |-> 0, data_index |-> 0]
           started == [chains EXCEPT ![c] = orphan]
<1>1. /\ UNCHANGED text /\ phase = "search" /\ phase' = "search"
      /\ chain_data' = chain_data /\ chains' = started
      /\ local' = [local EXCEPT !.pos = @ + 1] /\ local.pos + TupleSize <= Len(data)
      /\ local.pos - chains[c].base >= MaxDist
    BY DEF StartChain, HasTuple, Searching, Orphan
<1>2. local'.pos = local.pos + 1 /\ local'.head = local.head
    BY <1>1, MovedOn
<1>3. /\ KeptOut(chains, chain_data, local.head, Stop, local.pos)
      /\ chains \in [Chains -> Places] /\ chain_data \in [Memory -> 0 .. Terminator]
      /\ local.head \in Nat /\ local.pos \in Nat /\ data \in Seq(Bytes) /\ c \in Chains
      /\ chain_data[0] = Terminator
    BY <1>1, SearchIs DEF KeptInv, Between, SearchInv, IndexInv
<1>4. Stop \in Int /\ Stop = local.pos - MaxDist /\ Stop + 1 = (local.pos + 1) - MaxDist /\ local.pos + 1 \in Nat
    BY StopIs
<1>5. KeptOut(started, chain_data, local.head, local.pos - MaxDist, local.pos + 1)
    <2>1. PICK at \in Ways, last \in Ends : Kept(chains, chain_data, local.head, Stop, local.pos, at, last)
        BY <1>3 DEF KeptOut
    <2>2. Kept(chains, chain_data, local.head, local.pos - MaxDist, local.pos, at, last)
        BY <1>4, <2>1
    <2>3. TupleChain(local.pos) = c
        OBVIOUS
    <2> HIDE DEF c
    <2>4. QED
        BY <1>1, <1>3, <2>2, <2>3, KeptStarted
<1>6. started \in [Chains -> Places]
    BY <1>3 DEF Places
<1> HIDE DEF started
<1>7. KeptOut(started, chain_data, local.head, Stop + 1, local.pos + 1)
    <2>1. KeptOut(started, chain_data, local.head, Stop, local.pos + 1)
        BY <1>4, <1>5
    <2>2. QED
        BY <1>3, <1>4, <1>6, <2>1, KeptNext
<1>8. phase' \in Between /\ phase' # "grow"
    BY <1>1 DEF Between
<1>9. QED
    BY <1>1, <1>2, <1>4, <1>7, <1>8, KeptBetween

\* A position put in front of a chain that has room for it.
LEMMA InsertKept ==
    ASSUME SearchInv, LastInv', UNCHANGED text,
           NEW c \in Chains, NEW begin \in Nat, NEW head \in Nat \ {0},
           NEW cs \in [Chains -> Places], NEW cells \in [Memory -> 0 .. Terminator],
           Insert(c, begin, cs, cells, head),
           c = TupleChain(local.pos), local.pos + TupleSize <= Len(data),
           begin < local.pos, local.pos - begin < MaxDist,
           cs[c].base = local.pos, cs[c].capacity > 0, cs[c].data_index > cs[c].capacity,
           KeptOut([cs EXCEPT ![c].base = begin], cells, head, Stop, local.pos)
    PROVE  KeptInv'
<1> DEFINE first == cs[c].data_index
           room == cs[c].capacity
           after == [cells EXCEPT ![first - 1] = local.pos - begin]
           pre == [cs EXCEPT ![c].base = begin]
           next == local.pos + 1
<1>1. /\ local.pos \in Nat /\ local \in Locals /\ local.lastEnd \in 0 .. NoChain
      /\ local.lastLength \in Nat /\ local.lastBest \in BOOLEAN /\ data \in Seq(Bytes)
      /\ Stop \in Int /\ Stop = local.pos - MaxDist /\ Stop + 1 = next - MaxDist /\ next \in Nat
    BY SearchIs, StopIs
<1>2. first \in Nat /\ room \in Nat /\ room > 0 /\ first > room /\ room - 1 \in Nat /\ first - 1 \in Nat
      /\ (first - 1) + 1 = first
    <2>1. first \in Nat /\ room \in Nat
        BY DEF Places
    <2>2. QED
        BY <2>1
<1>3. (local.pos - begin) % (Terminator + 1) = local.pos - begin
    <2>1. local.pos - begin \in Nat /\ local.pos - begin <= Terminator
        <3>1. \A p, b \in Nat : b < p /\ p - b < MaxDist => p - b \in Nat /\ p - b <= Terminator
            BY SizesAre
        <3>2. QED
            BY <1>1, <3>1, Zenon
    <2>2. QED
        BY <2>1, DistanceFits, SizesAre
<1>4. chain_data' = after
    BY <1>3 DEF Insert
<1>5. chains' = [cs EXCEPT ![c].capacity = room - 1, ![c].data_index = first - 1]
    BY DEF Insert
<1>6. /\ chains' \in [Chains -> Places]
      /\ chains'[c].base = local.pos /\ chains'[c].capacity = room - 1 /\ chains'[c].data_index = first - 1
      /\ \A d \in Chains \ {c} : chains'[d] = cs[d]
    BY <1>2, <1>5 DEF Places
<1>7. PICK at \in Ways, last \in Ends :
        /\ Kept(chains', after, head, Stop, next, at, last)
        /\ first \in chains'[c].data_index .. last[c] /\ at[c][first] = begin
    <2>1. /\ pre \in [Chains -> Places]
          /\ pre[c].base = begin /\ pre[c].capacity = room /\ pre[c].data_index = first
          /\ \A d \in Chains \ {c} : pre[d] = cs[d]
        BY DEF Places
    <2>2. KeptOut(pre, cells, head, Stop, local.pos)
        OBVIOUS
    <2> HIDE DEF pre
    <2> DEFINE start == pre[c].data_index
               told == [cells EXCEPT ![start - 1] = local.pos - pre[c].base]
               laid == [pre EXCEPT ![c] = [base |-> local.pos, capacity |-> pre[c].capacity - 1,
                                           data_index |-> start - 1]]
    <2>3. pre[c].base >= 0 /\ pre[c].capacity > 0 /\ head \in Nat
        BY <1>2, <2>1
    <2>4. KeptWith(laid, told, head, Stop, next, c, start, pre[c].base)
        <3>1. TupleChain(local.pos) = c
            OBVIOUS
        <3>2. QED
            BY <1>1, <2>1, <2>2, <2>3, <3>1, KeptPushed, Zenon
    <2>5. told = after /\ start = first /\ pre[c].base = begin
        BY <2>1
    <2>6. /\ laid[c].base = local.pos /\ laid[c].capacity = room - 1 /\ laid[c].data_index = first - 1
          /\ \A d \in Chains \ {c} : laid[d] = cs[d]
        BY <2>1
    <2>7. \A d \in Chains : /\ chains'[d].base = laid[d].base /\ chains'[d].capacity = laid[d].capacity
                            /\ chains'[d].data_index = laid[d].data_index
        BY <1>6, <2>6
    <2> HIDE DEF laid, told, start, after, first
    <2>8. PICK at \in Ways, last \in Ends :
            /\ Kept(laid, told, head, Stop, next, at, last)
            /\ start \in laid[c].data_index .. last[c] /\ at[c][start] = pre[c].base
        BY <2>4 DEF KeptWith
    <2>9. Kept(laid, after, head, Stop, next, at, last)
        BY <2>5, <2>8
    <2>10. Kept(chains', after, head, Stop, next, at, last)
        BY <2>7, <2>9, KeptSame
    <2>11. first \in chains'[c].data_index .. last[c] /\ at[c][first] = begin
        BY <2>5, <2>7, <2>8
    <2>12. QED
        BY <2>10, <2>11
<1> HIDE DEF after, first, room
<1>8. KeptOut(chains', after, head, Stop, next)
    BY <1>7 DEF KeptOut
<1>9. after \in [Memory -> 0 .. Terminator]
    <2>1. local.pos - begin \in 0 .. Terminator
        <3>1. \A p, b \in Nat : b < p /\ p - b < MaxDist => p - b \in 0 .. Terminator
            <4>1. MaxDist \in Nat /\ Terminator \in Nat /\ MaxDist <= Terminator
                BY SizesAre
            <4>2. QED
                BY <4>1
        <3>2. QED
            BY <1>1, <3>1, Zenon
    <2>2. QED
        BY <2>1 DEF after
<1> DEFINE submatch == local.lastLength - 1
           ahead == submatch > TupleSize /\ local.lastBest
<1>10. CASE ahead
    <2>1. /\ local' = [local EXCEPT !.pos = @ + 1, !.head = head, !.lastLength = submatch]
          /\ phase' = "search"
        BY <1>10 DEF Insert
    <2>2. local'.pos = next /\ local'.head = head
        BY <1>1, <2>1 DEF Locals
    <2>3. KeptOut(chains', after, head, Stop + 1, next)
        <3>1. head \in Nat
            OBVIOUS
        <3>2. QED
            BY <1>1, <1>6, <1>8, <1>9, <3>1, KeptNext
    <2>4. phase' \in Between /\ phase' # "grow"
        BY <2>1 DEF Between
    <2> HIDE DEF next
    <2>5. QED
        BY <1>1, <1>4, <2>2, <2>3, <2>4, KeptBetween
<1>11. CASE ~ahead
    <2>1. /\ local' = [local EXCEPT !.head = head] /\ phase' = "probe"
          /\ probe' = FirstProbe([cs EXCEPT ![c].capacity = @ - 1, ![c].data_index = cs[c].data_index - 1], c, begin)
        BY <1>11 DEF Insert
    <2>2. probe' = FirstProbe(chains', c, begin)
        BY <1>5, <2>1 DEF first, room
    <2>3. local'.pos = local.pos /\ local'.head = head /\ Stop' = Stop
        BY <1>1, <2>1 DEF Locals, Stop
    <2>4. /\ probe'.begin = begin /\ probe'.iter = first
          /\ probe'.end # NoChain => /\ probe'.end = local.lastEnd
                                     /\ probe'.endPos = chains'[probe'.end].base
                                     /\ probe'.endIter = chains'[probe'.end].data_index
        <3>1. chains'[c].data_index + 1 = first
            BY <1>2, <1>6
        <3>2. QED
            BY <2>2, <3>1 DEF FirstProbe
    <2>5. OnWalk(chains'[c], begin, first, Stop, at[c], last[c])
        <3>1. begin > Stop
            <4>1. \A p, b \in Nat : p - b < MaxDist => b > p - MaxDist
                BY SizesAre
            <4>2. QED
                BY <1>1, <4>1
        <3>2. local.pos >= 0
            BY <1>1
        <3>3. QED
            BY <1>6, <1>7, <3>1, <3>2 DEF OnWalk
    <2>6. ASSUME probe'.end # NoChain
          PROVE  OnWalk(chains'[probe'.end], probe'.endPos, probe'.endIter, Stop, at[probe'.end], last[probe'.end])
        <3> DEFINE end == probe'.end
        <3>1. end = local.lastEnd /\ end # NoChain
            BY <2>4, <2>6
        <3>2. end \in Chains
            <4>1. \A e \in 0 .. NoChain : e # NoChain => e \in Chains
                BY SizesAre DEF NoChain, Chains
            <4>2. end \in 0 .. NoChain /\ end # NoChain
                BY <1>1, <3>1
            <4> HIDE DEF end
            <4>3. QED
                BY <4>1, <4>2
        <3>3. chains'[end].base >= 0
            BY <2>1, <2>6 DEF LastInv, Goes
        <3>4. probe'.endPos = chains'[end].base /\ probe'.endIter = chains'[end].data_index
            BY <2>4, <2>6
        <3> HIDE DEF end
        <3>5. OnWalk(chains'[end], chains'[end].base, chains'[end].data_index, Stop, at[end], last[end])
            BY <1>6, <1>7, <3>2, <3>3, WalkStarts
        <3>6. QED
            BY <3>4, <3>5 DEF end
    <2>7. Walking(chains', after, head, Stop, next, c, probe')
        <3>1. OnWalk(chains'[c], probe'.begin, probe'.iter, Stop, at[c], last[c])
            BY <2>4, <2>5
        <3>2. QED
            BY <1>7, <2>6, <3>1 DEF Walking
    <2>8. TupleChain(local.pos)' = c
        BY <2>3, SameText
    <2>9. Walking(chains, chain_data, local.head, Stop, local.pos + 1, TupleChain(local.pos), probe)'
        BY <1>4, <2>3, <2>7, <2>8, KeptText
    <2>10. KeptOut(chains, chain_data, local.head, Stop, local.pos + 1)'
        BY <1>4, <1>8, <2>3, KeptText
    <2>11. QED
        BY <2>1, <2>9, <2>10 DEF KeptInv, Between
<1>12. QED
    BY <1>10, <1>11

LEMMA ExtendKept == SearchInv /\ LastInv /\ KeptInv /\ ExtendChain => KeptInv'
<1> SUFFICES ASSUME SearchInv, LastInv, KeptInv, ExtendChain PROVE KeptInv'
    OBVIOUS
<1> DEFINE c == TupleChain(local.pos)
           begin == chains[c].base
           cs == [chains EXCEPT ![c].base = local.pos]
<1>1. /\ UNCHANGED text /\ phase = "search" /\ local.pos + TupleSize <= Len(data)
      /\ local.pos - begin < MaxDist /\ chains[c].capacity > 0
      /\ Insert(c, begin, cs, chain_data, local.head)
    BY DEF ExtendChain, HasTuple, Searching
<1>2. LastInv'
    BY LastStep DEF Next
<1> HIDE DEF c
<1>3. c = TupleChain(local.pos)
    BY DEF c
<1>4. /\ c \in Chains /\ begin \in Nat /\ begin < local.pos
      /\ chains[c].capacity \in Nat /\ chains[c].data_index \in Nat
    BY <1>1, <1>3, InReachIs
<1>5. /\ local.pos \in Nat /\ local.head \in Nat \ {0} /\ chains \in [Chains -> Places]
      /\ chain_data \in [Memory -> 0 .. Terminator]
    BY SearchIs
<1>6. /\ cs \in [Chains -> Places] /\ cs[c].base = local.pos /\ cs[c].capacity = chains[c].capacity
      /\ cs[c].data_index = chains[c].data_index
      /\ \A d \in Chains \ {c} : cs[d] = chains[d]
    BY <1>4, <1>5 DEF Places
<1>7. chains[c].data_index > chains[c].capacity
    BY <1>1, <1>4 DEF SearchInv, IndexInv, Sound
<1> HIDE DEF cs
<1>8. KeptOut([cs EXCEPT ![c].base = begin], chain_data, local.head, Stop, local.pos)
    <2> DEFINE ds == [cs EXCEPT ![c].base = begin]
    <2>1. PICK at \in Ways, last \in Ends : Kept(chains, chain_data, local.head, Stop, local.pos, at, last)
        BY <1>1 DEF KeptInv, KeptOut, Between
    <2>2. /\ ds[c].base = begin /\ ds[c].capacity = cs[c].capacity /\ ds[c].data_index = cs[c].data_index
          /\ \A d \in Chains \ {c} : ds[d] = cs[d]
        BY <1>4, <1>6 DEF Places
    <2>3. \A d \in Chains : /\ ds[d].base = chains[d].base /\ ds[d].capacity = chains[d].capacity
                            /\ ds[d].data_index = chains[d].data_index
        BY <1>6, <2>2
    <2> HIDE DEF ds
    <2>4. Kept(ds, chain_data, local.head, Stop, local.pos, at, last)
        BY <2>1, <2>3, KeptSame
    <2>5. QED
        BY <2>4 DEF ds, KeptOut
<1>9. QED
    BY <1>1, <1>2, <1>3, <1>4, <1>5, <1>6, <1>7, <1>8, InsertKept

LEMMA GrowKept == SearchInv /\ KeptInv /\ GrowChain => KeptInv'
<1> SUFFICES ASSUME SearchInv, KeptInv, GrowChain PROVE KeptInv'
    OBVIOUS
<1> DEFINE c == TupleChain(local.pos)
           begin == chains[c].base
<1>1. /\ UNCHANGED text /\ phase = "search" /\ phase' = "grow"
      /\ local' = local /\ chain_data' = chain_data
      /\ local.pos + TupleSize <= Len(data)
      /\ chains' = [chains EXCEPT ![c].base = local.pos]
      /\ grow'.chain = c /\ grow'.begin = begin
    BY DEF GrowChain, HasTuple, Searching
<1> HIDE DEF c
<1>2. chains \in [Chains -> Places] /\ c \in Chains /\ local.pos \in Nat
    BY <1>1, SearchIs DEF c
<1>3. KeptOut([chains' EXCEPT ![c].base = begin], chain_data, local.head, Stop, local.pos)
    <2> DEFINE ds == [chains' EXCEPT ![c].base = begin]
    <2>1. PICK at \in Ways, last \in Ends : Kept(chains, chain_data, local.head, Stop, local.pos, at, last)
        BY <1>1 DEF KeptInv, KeptOut, Between
    <2>2. /\ chains'[c].base = local.pos /\ chains'[c].capacity = chains[c].capacity
          /\ chains'[c].data_index = chains[c].data_index /\ DOMAIN chains' = Chains
          /\ \A d \in Chains \ {c} : chains'[d] = chains[d]
          /\ chains' \in [Chains -> Places]
        BY <1>1, <1>2 DEF Places
    <2>3. /\ ds[c].base = begin /\ ds[c].capacity = chains'[c].capacity /\ ds[c].data_index = chains'[c].data_index
          /\ \A d \in Chains \ {c} : ds[d] = chains'[d]
        BY <1>2, <2>2 DEF Places
    <2>4. \A d \in Chains : /\ ds[d].base = chains[d].base /\ ds[d].capacity = chains[d].capacity
                            /\ ds[d].data_index = chains[d].data_index
        BY <2>2, <2>3
    <2> HIDE DEF ds
    <2>5. Kept(ds, chain_data, local.head, Stop, local.pos, at, last)
        BY <2>1, <2>4, KeptSame
    <2>6. QED
        BY <2>5 DEF ds, KeptOut
<1>4. KeptOut([chains EXCEPT ![grow.chain].base = grow.begin], chain_data, local.head, Stop, local.pos)'
    <2>1. Stop' = Stop /\ [chains EXCEPT ![grow.chain].base = grow.begin]' = [chains' EXCEPT ![c].base = begin]
        BY <1>1 DEF Stop
    <2>2. QED
        BY <1>1, <1>3, <2>1, KeptText
<1>5. QED
    BY <1>1, <1>4 DEF KeptInv, Between

\* A chain without room moves, as long as there is a block for it.
LEMMA ReallocateKept ==
    SearchInv /\ LastInv /\ KeptInv /\ Reallocate /\ phase = "grow" => KeptInv'
<1> SUFFICES ASSUME SearchInv, LastInv, KeptInv, Reallocate, phase = "grow" PROVE KeptInv'
    OBVIOUS
<1> DEFINE c == grow.chain
           begin == grow.begin
           n == grow.length
           room == BlockSize(n) - n
           first == local.head + room
           cs == [chains EXCEPT ![c].data_index = first, ![c].capacity = room]
           cells == [i \in Memory |-> IF i \in first .. first + n - 1
                                      THEN chain_data[grow.from + i - first] ELSE chain_data[i]]
<1>1. UNCHANGED text /\ ~Full /\ Insert(c, begin, cs, cells, first + n)
    BY DEF Reallocate
<1>2. LastInv'
    BY LastStep DEF Next
<1>3. /\ c \in Chains /\ c = TupleChain(local.pos)
      /\ begin \in Nat /\ begin < local.pos /\ local.pos - begin < MaxDist
      /\ grow.from \in Nat /\ n \in Nat \ {0} /\ grow.from + n <= DataCount + Beyond
      /\ chains[c].base = local.pos
      /\ local.pos + TupleSize <= Len(data)
    BY GrowIs
<1>4. /\ chains[c].capacity = 0 /\ grow.from = chains[c].data_index
      /\ n = OldLength(c, local.pos - begin)
    BY DEF SearchInv, GrowInv
<1>5. /\ local.pos \in Nat /\ local.head \in Nat \ {0} /\ chains \in [Chains -> Places]
      /\ chain_data \in [Memory -> 0 .. Terminator] /\ Stop \in Int /\ Stop = local.pos - MaxDist
    BY SearchIs, StopIs
<1>6. /\ room = n /\ first \in Nat /\ first > n /\ first + n \in Nat \ {0}
      /\ first + n <= DataCount /\ first + n = local.head + 2 * n /\ first = local.head + n
      /\ local.head + 2 * n <= DataCount
    <2>1. BlockSize(n) = 2 * n /\ ~(local.head + 2 * n > DataCount)
        BY <1>1 DEF Full, BlockSize
    <2>2. room = 2 * n - n /\ first = local.head + room
        BY <2>1, Zenon
    <2>3. \A h, m \in Nat \ {0} : ~(h + 2 * m > DataCount) =>
            /\ 2 * m - m = m /\ h + m \in Nat /\ h + m > m /\ (h + m) + m \in Nat \ {0}
            /\ (h + m) + m <= DataCount /\ (h + m) + m = h + 2 * m /\ h + 2 * m <= DataCount
        BY SizesAre
    <2> HIDE DEF room, first, n
    <2>4. room = n
        BY <1>3, <1>5, <2>1, <2>2, <2>3
    <2>5. first = local.head + n
        BY <2>2, <2>4, Zenon
    <2>6. /\ local.head + n \in Nat /\ local.head + n > n /\ (local.head + n) + n \in Nat \ {0}
          /\ (local.head + n) + n <= DataCount /\ (local.head + n) + n = local.head + 2 * n
          /\ local.head + 2 * n <= DataCount
        BY <1>3, <1>5, <2>1, <2>3
    <2>7. QED
        BY <2>4, <2>5, <2>6, Zenon
<1>7. cells = Copied(chain_data, grow.from, first, n)
    BY DEF Copied
<1> HIDE DEF c, begin, n, room, first
<1>8. /\ cs \in [Chains -> Places] /\ cs[c].base = local.pos /\ cs[c].capacity = n /\ cs[c].data_index = first
      /\ \A d \in Chains \ {c} : cs[d] = chains[d]
    <2>1. room \in Nat /\ first \in Nat
        BY <1>3, <1>6
    <2>2. QED
        BY <1>3, <1>5, <1>6, <2>1 DEF Places
<1>9. cells \in [Memory -> 0 .. Terminator]
    <2>1. first + n <= DataCount + Beyond /\ first \in Nat /\ n \in Nat
        BY <1>3, <1>6, SizesAre
    <2>2. Copied(chain_data, grow.from, first, n) \in [Memory -> 0 .. Terminator]
        BY <1>3, <1>5, <2>1, CopiedIs
    <2>3. QED
        BY <1>7, <2>2
<1> HIDE DEF cs, cells
<1>10. KeptOut([cs EXCEPT ![c].base = begin], cells, first + n, Stop, local.pos)
    <2> DEFINE pre == [chains EXCEPT ![c].base = begin]
               moved == [pre EXCEPT ![c] = [base |-> pre[c].base, capacity |-> n, data_index |-> local.head + n]]
               ds == [cs EXCEPT ![c].base = begin]
    <2>1. KeptOut(pre, chain_data, local.head, Stop, local.pos)
        BY DEF KeptInv, c, begin
    <2>2. /\ pre[c].base = begin /\ pre[c].data_index = grow.from /\ \A d \in Chains \ {c} : pre[d] = chains[d]
          /\ pre \in [Chains -> Places]
        BY <1>3, <1>4, <1>5 DEF Places
    <2> HIDE DEF pre
    <2>3. pre[c].base >= 0 /\ pre[c].base > Stop
        <3>1. \A p, b \in Nat : p - b < MaxDist => b > p - MaxDist /\ b >= 0
            BY SizesAre
        <3>2. QED
            BY <1>3, <1>5, <2>2, <3>1
    <2>4. n = CellsFor(chain_data, pre[c].data_index, pre[c].base - Stop)
        <3>1. \A p, b \in Nat : MaxDist - (p - b) = b - (p - MaxDist)
            BY SizesAre
        <3>2. MaxDist - (local.pos - begin) = begin - Stop
            BY <1>3, <1>5, <3>1
        <3>3. QED
            BY <1>4, <2>2, <3>2 DEF OldLength
    <2>5. KeptOut(moved, Copied(chain_data, pre[c].data_index, local.head + n, n), local.head + 2 * n, Stop, local.pos)
        BY <1>3, <1>5, <1>6, <2>1, <2>2, <2>3, <2>4, KeptMoved
    <2>6. /\ moved[c].base = begin /\ moved[c].capacity = n /\ moved[c].data_index = local.head + n
          /\ \A d \in Chains \ {c} : moved[d] = chains[d]
        BY <1>3, <2>2
    <2>7. /\ ds[c].base = begin /\ ds[c].capacity = n /\ ds[c].data_index = first
          /\ \A d \in Chains \ {c} : ds[d] = chains[d]
        BY <1>3, <1>8 DEF Places
    <2> HIDE DEF moved, ds
    <2>8. \A d \in Chains : /\ ds[d].base = moved[d].base /\ ds[d].capacity = moved[d].capacity
                            /\ ds[d].data_index = moved[d].data_index
        BY <1>6, <2>6, <2>7
    <2>9. KeptOut(moved, cells, first + n, Stop, local.pos)
        BY <1>6, <1>7, <2>2, <2>5
    <2>10. PICK at \in Ways, last \in Ends : Kept(moved, cells, first + n, Stop, local.pos, at, last)
        BY <2>9 DEF KeptOut
    <2>11. Kept(ds, cells, first + n, Stop, local.pos, at, last)
        BY <2>8, <2>10, KeptSame
    <2>12. QED
        BY <2>11 DEF ds, KeptOut
<1>11. QED
    <2>1. Insert(c, begin, cs, cells, first + n)
        BY <1>1 DEF cs, cells, c, begin, n, room, first
    <2>2. cs[c].capacity > 0 /\ cs[c].data_index > cs[c].capacity
        BY <1>3, <1>6, <1>8
    <2>3. QED
        BY <1>1, <1>2, <1>3, <1>6, <1>8, <1>9, <1>10, <2>1, <2>2, InsertKept

\* The candidate changes, and the walks go on.
LEMMA ProbeKept ==
    ASSUME SearchInv, KeptInv, UNCHANGED text, UNCHANGED index, local' = local, phase = "probe",
           NEW p, probe' = p,
           \/ phase' = "emit"
           \/ phase' = "probe" /\ Walking(chains, chain_data, local.head, Stop, local.pos + 1, TupleChain(local.pos), p)
    PROVE  KeptInv'
<1>1. chains' = chains /\ chain_data' = chain_data /\ Stop' = Stop /\ TupleChain(local.pos)' = TupleChain(local.pos)
    BY SameText DEF index, Stop
<1>2. KeptOut(chains, chain_data, local.head, Stop, local.pos + 1)
    BY DEF KeptInv
<1>3. KeptOut(chains, chain_data, local.head, Stop, local.pos + 1)'
    BY <1>1, <1>2, KeptText
<1>4. CASE phase' = "emit"
    BY <1>3, <1>4 DEF KeptInv, Between
<1>5. CASE phase' = "probe"
    <2>1. Walking(chains, chain_data, local.head, Stop, local.pos + 1, TupleChain(local.pos), probe)'
        BY <1>1, <1>5, KeptText
    <2>2. QED
        BY <1>3, <1>5, <2>1 DEF KeptInv, Between
<1>6. QED
    BY <1>4, <1>5

\* What is known of the walks of a probe.
LEMMA ProbeWalks ==
    ASSUME SearchInv, KeptInv, phase = "probe"
    PROVE  /\ Walking(chains, chain_data, local.head, Stop, local.pos + 1, TupleChain(local.pos), probe)
           /\ TupleChain(local.pos) \in Chains /\ local.pos + TupleSize <= Len(data)
           /\ probe \in Probes /\ probe.begin \in Int /\ probe.iter \in Nat /\ probe.endPos \in Int /\ probe.endIter \in Nat
           /\ probe.end # NoChain => probe.end \in Chains
           /\ probe.target \in Nat /\ probe.target >= TupleSize
           /\ chains \in [Chains -> Places] /\ chain_data \in [Memory -> 0 .. Terminator]
           /\ probe.begin \in Nat /\ probe.begin < local.pos /\ probe.begin >= Stop
<1>1. Sane(probe) /\ probe \in Probes /\ Walks(probe)
    BY DEF SearchInv, ProbeInv, Sane
<1>2. local.pos + TupleSize <= Len(data)
    BY DEF SearchInv, StateInv, Between
<1>3. \A e \in 0 .. NoChain : e # NoChain => e \in Chains
    BY SizesAre DEF NoChain, Chains
<1>4. probe.end \in 0 .. NoChain
    BY <1>1 DEF Probes
<1>5. QED
    BY <1>1, <1>2, <1>3, <1>4, SearchIs DEF KeptInv, Sane, Probes, Walks

\* On to the previous position, with p found.
LEMMA AdvanceKept ==
    ASSUME SearchInv, KeptInv, UNCHANGED text, UNCHANGED index, local' = local, phase = "probe",
           NEW p \in Probes, Advance(p),
           Walking(chains, chain_data, local.head, Stop, local.pos + 1, TupleChain(local.pos), p)
    PROVE  KeptInv'
<1> DEFINE c == TupleChain(local.pos)
           n == local.pos + 1
           begin == p.begin - Cell(p.iter)
           next == [p EXCEPT !.begin = begin, !.iter = @ + 1, !.syncs = 0]
<1>1. p.begin \in Int /\ p.iter \in Nat /\ c \in Chains /\ n \in Nat /\ Stop \in Int /\ local.pos \in Nat
      /\ chains \in [Chains -> Places] /\ chain_data \in [Memory -> 0 .. Terminator]
    BY ProbeWalks, SearchIs, StopIs DEF Probes
<1>2. begin \in Int
    BY <1>1, CellIs
<1> HIDE DEF begin, c, n
<1>3. /\ next.begin = begin /\ next.iter = p.iter + 1
      /\ next.end = p.end /\ next.endPos = p.endPos /\ next.endIter = p.endIter
    BY DEF Probes
<1>4. \/ probe' = next /\ phase' = "emit"
      \/ probe' = next /\ phase' = "probe" /\ InReach(begin)
    BY DEF Advance, Break, begin
<1>5. ASSUME InReach(begin) PROVE Walking(chains, chain_data, local.head, Stop, n, c, next)
    <2>1. begin >= Stop
        <3>1. \A q \in Nat, b \in Int : q - b < MaxDist => b >= q - MaxDist
            BY SizesAre
        <3>2. QED
            BY <1>1, <1>2, <1>5, <3>1 DEF InReach, Stop
    <2>2. PICK at \in Ways, last \in Ends :
            /\ Kept(chains, chain_data, local.head, Stop, n, at, last)
            /\ OnWalk(chains[c], p.begin, p.iter, Stop, at[c], last[c])
            /\ p.end # NoChain => OnWalk(chains[p.end], p.endPos, p.endIter, Stop, at[p.end], last[p.end])
        BY DEF Walking, c, n
    <2>3. OnWalk(chains[c], begin, p.iter + 1, Stop, at[c], last[c])
        <3> DEFINE b == p.begin
                   i == p.iter
        <3>1. b \in Int /\ i \in Nat /\ OnWalk(chains[c], b, i, Stop, at[c], last[c]) /\ b - Cell(i) >= Stop
            BY <1>1, <2>1, <2>2 DEF begin
        <3> HIDE DEF b, i
        <3>2. OnWalk(chains[c], b - Cell(i), i + 1, Stop, at[c], last[c])
            BY <1>1, <2>2, <3>1, StepsBack
        <3>3. QED
            BY <3>2 DEF b, i, begin
    <2> HIDE DEF next
    <2>4. QED
        BY <1>3, <2>2, <2>3 DEF Walking
<1> HIDE DEF next
<1>6. probe' = next /\ (phase' = "emit" \/ (phase' = "probe" /\ Walking(chains, chain_data, local.head, Stop, n, c, next)))
    BY <1>4, <1>5
<1>7. QED
    BY <1>6, ProbeKept DEF n, c

LEMMA SyncKept == SearchInv /\ KeptInv /\ Sync => KeptInv'
<1> SUFFICES ASSUME SearchInv, KeptInv, Sync PROVE KeptInv'
    OBVIOUS
<1> DEFINE nearer == [probe EXCEPT !.begin = @ - Cell(probe.iter), !.iter = @ + 1, !.syncs = @ + 1]
           back == [probe EXCEPT !.endPos = @ - Cell(probe.endIter), !.endIter = @ + 1, !.syncs = @ + 1]
           stepped == IF Gap < 0 THEN nearer ELSE back
           c == TupleChain(local.pos)
           end == probe.end
           n == local.pos + 1
<1>1. phase = "probe" /\ UNCHANGED text /\ UNCHANGED index /\ local' = local /\ end # NoChain
    BY DEF Sync, Probing, InSync
<1>2. /\ Walking(chains, chain_data, local.head, Stop, n, c, probe)
      /\ c \in Chains /\ end \in Chains /\ probe \in Probes
      /\ probe.begin \in Int /\ probe.iter \in Nat /\ probe.endPos \in Int /\ probe.endIter \in Nat
      /\ chains \in [Chains -> Places] /\ chain_data \in [Memory -> 0 .. Terminator] /\ Stop \in Int
    BY <1>1, ProbeWalks, StopIs
<1>3. /\ nearer.begin = probe.begin - Cell(probe.iter) /\ nearer.iter = probe.iter + 1
      /\ nearer.end = end /\ nearer.endPos = probe.endPos /\ nearer.endIter = probe.endIter
      /\ back.begin = probe.begin /\ back.iter = probe.iter
      /\ back.end = end /\ back.endPos = probe.endPos - Cell(probe.endIter) /\ back.endIter = probe.endIter + 1
    BY <1>2 DEF Probes
<1>4. \/ probe' = probe /\ phase' = "emit"
      \/ probe' = stepped /\ phase' = "emit"
      \/ probe' = stepped /\ phase' = "probe" /\ ~(stepped.begin < Stop) /\ ~(stepped.endPos < Stop)
    <2> HIDE DEF nearer, back
    <2>1. IF probe.syncs = MaxSync THEN Break(probe)
          ELSE IF stepped.begin < Stop \/ stepped.endPos < Stop THEN Break(stepped)
          ELSE probe' = stepped /\ UNCHANGED phase
        BY DEF Sync, nearer, back
    <2> HIDE DEF stepped
    <2>2. QED
        BY <1>1, <2>1 DEF Break
<1> HIDE DEF nearer, back, c, end, n
<1>5. PICK at \in Ways, last \in Ends :
            /\ Kept(chains, chain_data, local.head, Stop, n, at, last)
            /\ OnWalk(chains[c], probe.begin, probe.iter, Stop, at[c], last[c])
            /\ OnWalk(chains[end], probe.endPos, probe.endIter, Stop, at[end], last[end])
    BY <1>1, <1>2 DEF Walking, end
<1>6. ASSUME ~(stepped.begin < Stop), ~(stepped.endPos < Stop)
      PROVE  Walking(chains, chain_data, local.head, Stop, n, c, stepped)
    <2>1. CASE Gap < 0
        <3> DEFINE b == probe.begin
                   i == probe.iter
        <3>1. b \in Int /\ i \in Nat /\ OnWalk(chains[c], b, i, Stop, at[c], last[c]) /\ ~(b - Cell(i) < Stop)
            BY <1>2, <1>3, <1>5, <1>6, <2>1
        <3>2. stepped.begin = b - Cell(i) /\ stepped.iter = i + 1 /\ stepped.end = end
              /\ stepped.endPos = probe.endPos /\ stepped.endIter = probe.endIter
            BY <1>3, <2>1
        <3> HIDE DEF b, i
        <3>3. b - Cell(i) >= Stop
            BY <1>2, <3>1, CellIs
        <3>4. OnWalk(chains[c], b - Cell(i), i + 1, Stop, at[c], last[c])
            BY <1>2, <1>5, <3>1, <3>3, StepsBack
        <3> HIDE DEF stepped
        <3>5. QED
            BY <1>5, <3>2, <3>4 DEF Walking
    <2>2. CASE ~(Gap < 0)
        <3> DEFINE b == probe.endPos
                   i == probe.endIter
        <3>1. b \in Int /\ i \in Nat /\ OnWalk(chains[end], b, i, Stop, at[end], last[end]) /\ ~(b - Cell(i) < Stop)
            BY <1>2, <1>3, <1>5, <1>6, <2>2
        <3>2. stepped.endPos = b - Cell(i) /\ stepped.endIter = i + 1 /\ stepped.end = end
              /\ stepped.begin = probe.begin /\ stepped.iter = probe.iter
            BY <1>3, <2>2
        <3> HIDE DEF b, i
        <3>3. b - Cell(i) >= Stop
            BY <1>2, <3>1, CellIs
        <3>4. OnWalk(chains[end], b - Cell(i), i + 1, Stop, at[end], last[end])
            BY <1>2, <1>5, <3>1, <3>3, StepsBack
        <3> HIDE DEF stepped
        <3>5. QED
            BY <1>5, <3>2, <3>4 DEF Walking
    <2>3. QED
        BY <2>1, <2>2
<1> HIDE DEF stepped
<1>7. CASE probe' = probe /\ phase' = "emit"
    BY <1>1, <1>7, ProbeKept
<1>8. CASE probe' = stepped /\ (phase' = "emit" \/ (phase' = "probe" /\ ~(stepped.begin < Stop) /\ ~(stepped.endPos < Stop)))
    BY <1>1, <1>6, <1>8, ProbeKept DEF n, c
<1>9. QED
    BY <1>4, <1>7, <1>8

LEMMA TryKept == SearchInv /\ KeptInv /\ Try => KeptInv'
<1> SUFFICES ASSUME SearchInv, KeptInv, Try PROVE KeptInv'
    OBVIOUS
<1> DEFINE most == Len(data) - local.pos
           n == Strmatch(local.pos, probe.begin, most)
           found == [probe EXCEPT !.length = n, !.matchPos = probe.begin]
           best == [found EXCEPT !.best = TRUE]
           end == TupleChain(local.pos + n - TupleSize + 1)
           longer == [found EXCEPT !.end = end, !.endPos = chains[end].base,
                                   !.endIter = chains[end].data_index, !.target = LongerThan(n)]
           c == TupleChain(local.pos)
           m == local.pos + 1
<1>1. phase = "probe" /\ UNCHANGED text /\ UNCHANGED index /\ local' = local
    BY DEF Try, Probing
<1>2. /\ Walking(chains, chain_data, local.head, Stop, m, c, probe)
      /\ probe \in Probes /\ probe.target \in Nat /\ probe.target >= TupleSize
      /\ probe.begin \in Nat /\ chains \in [Chains -> Places]
    BY <1>1, ProbeWalks
<1>3. /\ local.pos \in Nat /\ Len(data) \in Nat /\ local.pos + TupleSize <= Len(data)
    BY <1>1, SearchIs, ProbeWalks
<1>4. most \in Nat
    BY <1>3, SizesAre
<1> HIDE DEF most
<1>5. n \in 0 .. most
    BY <1>2, <1>3, <1>4, StrmatchIs
<1> DEFINE step == IF n < probe.target THEN Advance(probe)
                   ELSE IF n = most THEN Break(best)
                   ELSE IF local.pos - chains[end].base >= MaxDist THEN Break(best)
                   ELSE Advance(longer)
<1>6. step
    BY DEF Try, most
<1> HIDE DEF n
<1>7. CASE ~(n < probe.target) /\ n # most /\ ~(local.pos - chains[end].base >= MaxDist) /\ Advance(longer)
    <2>1. end \in Chains
        <3>1. local.pos + n - TupleSize + 1 \in 0 .. Len(data) - TupleSize
            <4>1. \A p, k, t, l \in Nat : p + k < l /\ t >= TupleSize /\ k >= t => p + k - TupleSize + 1 \in 0 .. l - TupleSize
                BY SizesAre
            <4>2. n \in Nat /\ local.pos + n < Len(data) /\ n >= probe.target
                BY <1>2, <1>3, <1>4, <1>5, <1>7 DEF most
            <4>3. QED
                BY <1>2, <1>3, <4>1, <4>2
        <3>2. QED
            BY <3>1 DEF SearchInv, TextInv
    <2> HIDE DEF end
    <2>2. chains[end].base \in Nat /\ chains[end].data_index \in Nat /\ end \in 0 .. NoChain /\ end # NoChain
        <3>1. chains[end].base \in Nat \cup {-MaxDist} /\ chains[end].data_index \in Nat
            BY <1>2, <2>1 DEF Places
        <3>2. end \in 0 .. NoChain /\ end # NoChain
            BY <2>1, SizesAre DEF Chains, NoChain
        <3>3. \A p \in Nat, b \in Nat \cup {-MaxDist} : ~(p - b >= MaxDist) => b \in Nat
            BY SizesAre
        <3>4. chains[end].base \in Nat
            BY <1>3, <1>7, <3>1, <3>3
        <3>5. QED
            BY <3>1, <3>2, <3>4
    <2>3. LongerThan(n) \in Nat /\ n \in Nat
        BY <1>4, <1>5 DEF LongerThan
    <2>4. /\ longer \in Probes /\ longer.begin = probe.begin /\ longer.iter = probe.iter
          /\ longer.end = end /\ longer.endPos = chains[end].base /\ longer.endIter = chains[end].data_index
        <3> DEFINE base == chains[end].base
                   first == chains[end].data_index
                   target == LongerThan(n)
        <3>1. base \in Int /\ first \in Nat /\ target \in Nat /\ end \in 0 .. NoChain /\ n \in Nat /\ probe \in Probes
              /\ probe.begin \in Int
            BY <1>2, <2>2, <2>3
        <3> HIDE DEF base, first, target
        <3>2. /\ found \in Probes /\ found.begin = probe.begin /\ found.iter = probe.iter
            BY <3>1 DEF Probes
        <3> HIDE DEF found
        <3>3. longer = [found EXCEPT !.end = end, !.endPos = base, !.endIter = first, !.target = target]
            BY DEF base, first, target
        <3> HIDE DEF longer
        <3>4. /\ longer \in Probes /\ longer.begin = probe.begin /\ longer.iter = probe.iter
              /\ longer.end = end /\ longer.endPos = base /\ longer.endIter = first
            BY <3>1, <3>2, <3>3 DEF Probes
        <3>5. QED
            BY <3>4 DEF base, first
    <2> HIDE DEF longer, c, m
    <2>5. Walking(chains, chain_data, local.head, Stop, m, c, longer)
        <3>1. PICK at \in Ways, last \in Ends :
                /\ Kept(chains, chain_data, local.head, Stop, m, at, last)
                /\ OnWalk(chains[c], probe.begin, probe.iter, Stop, at[c], last[c])
            BY <1>2 DEF Walking
        <3>2. chains[end].base >= 0
            BY <2>2
        <3>3. OnWalk(chains[end], chains[end].base, chains[end].data_index, Stop, at[end], last[end])
            BY <1>2, <2>1, <3>1, <3>2, WalkStarts
        <3>4. QED
            BY <2>4, <3>1, <3>3 DEF Walking
    <2>6. QED
        BY <1>1, <1>7, <2>4, <2>5, AdvanceKept DEF c, m
<1>8. CASE n < probe.target
    BY <1>1, <1>2, <1>6, <1>8, AdvanceKept
<1> HIDE DEF best, found, longer
<1>9. CASE Break(best)
    <2>1. probe' = best /\ phase' = "emit"
        BY <1>9 DEF Break
    <2>2. QED
        BY <1>1, <2>1, ProbeKept
<1>10. QED
    BY <1>6, <1>7, <1>8, <1>9

LEMMA EmitKept == SearchInv /\ KeptInv /\ Emit => KeptInv'
<1> SUFFICES ASSUME SearchInv, KeptInv, Emit PROVE KeptInv'
    OBVIOUS
<1>1. /\ UNCHANGED text /\ phase = "emit" /\ phase' = "search"
      /\ chains' = chains /\ chain_data' = chain_data
      /\ local' = [local EXCEPT !.pos = @ + 1, !.lastEnd = probe.end,
                                !.lastLength = probe.length, !.lastBest = probe.best]
    BY DEF Emit, index
<1>2. /\ KeptOut(chains, chain_data, local.head, Stop, local.pos + 1)
      /\ chains \in [Chains -> Places] /\ chain_data \in [Memory -> 0 .. Terminator]
      /\ local.head \in Nat /\ local.pos \in Nat /\ local \in Locals
    BY <1>1, SearchIs DEF KeptInv
<1>3. local'.pos = local.pos + 1 /\ local'.head = local.head
    BY <1>1, <1>2 DEF Locals
<1>4. Stop \in Int /\ Stop + 1 = (local.pos + 1) - MaxDist /\ local.pos + 1 \in Nat
    BY StopIs
<1>5. KeptOut(chains, chain_data, local.head, Stop + 1, local.pos + 1)
    BY <1>2, <1>4, KeptNext
<1>6. phase' \in Between /\ phase' # "grow"
    BY <1>1 DEF Between
<1>7. QED
    BY <1>1, <1>3, <1>4, <1>5, <1>6, KeptBetween

\* Steps that leave the search's state alone, or store it between two calls.
LEMMA RestKept ==
    ASSUME SearchInv, KeptInv, UNCHANGED text, UNCHANGED index, phase \in Between, phase' \in Between,
           local' = local
    PROVE  KeptInv'
<1>1. /\ KeptOut(chains, chain_data, local.head, Stop, local.pos) /\ local.pos \in Nat
      /\ chains' = chains /\ chain_data' = chain_data /\ Stop = local.pos - MaxDist
    BY SearchIs, StopIs DEF KeptInv, index
<1>2. phase' # "grow"
    BY DEF Between
<1>3. QED
    BY <1>1, <1>2, KeptBetween

LEMMA KeptStep == SearchInv /\ LastInv /\ KeptInv /\ phase # "collect" /\ ~Mark /\ [Next]_vars => KeptInv'
<1> SUFFICES ASSUME SearchInv, LastInv, KeptInv, phase # "collect", ~Mark, [Next]_vars PROVE KeptInv'
    OBVIOUS
<1>1. CASE Reallocate
    BY <1>1, ReallocateKept DEF Reallocate
<1>2. CASE Return
    <2>1. phase \in Between /\ phase' \in Between /\ local' = local /\ UNCHANGED text /\ UNCHANGED index
        BY <1>2 DEF Return, Between, index
    <2>2. QED
        BY <2>1, RestKept
<1>3. CASE CallSearch \/ SkipCovered \/ WriteLiteral \/ WriteReference \/ WritePiece \/ Finish
    <2>1. phase = "write" /\ phase' \in Between /\ (local' = local \/ local' = saved) /\ UNCHANGED text /\ UNCHANGED index
        BY <1>3 DEF Writing, Between, CallSearch, SkipCovered, WriteLiteral, WriteReference, WritePiece, Finish
    <2>2. local' = local /\ phase \in Between
        BY <2>1 DEF SearchInv, StateInv, Between
    <2>3. QED
        BY <2>1, <2>2, RestKept
<1>4. CASE UNCHANGED vars
    <2>1. /\ UNCHANGED text /\ chains' = chains /\ chain_data' = chain_data /\ local' = local /\ grow' = grow
          /\ probe' = probe /\ phase' = phase /\ Stop' = Stop /\ TupleChain(local.pos)' = TupleChain(local.pos)
        BY <1>4, SameText DEF vars, index, Stop
    <2>2. /\ KeptOut(chains, chain_data, local.head, Stop, local.pos)' <=> KeptOut(chains, chain_data, local.head, Stop, local.pos)
          /\ KeptOut(chains, chain_data, local.head, Stop, local.pos + 1)'
                <=> KeptOut(chains, chain_data, local.head, Stop, local.pos + 1)
          /\ KeptOut([chains EXCEPT ![grow.chain].base = grow.begin], chain_data, local.head, Stop, local.pos)'
                <=> KeptOut([chains EXCEPT ![grow.chain].base = grow.begin], chain_data, local.head, Stop, local.pos)
          /\ Walking(chains, chain_data, local.head, Stop, local.pos + 1, TupleChain(local.pos), probe)'
                <=> Walking(chains, chain_data, local.head, Stop, local.pos + 1, TupleChain(local.pos), probe)
        BY <2>1, KeptText
    <2>3. QED
        BY <2>1, <2>2 DEF KeptInv
<1>5. QED
    <2>1. CASE SkipTail \/ StartChain \/ ExtendChain \/ GrowChain
        BY <2>1, SkipTailKept, StartKept, ExtendKept, GrowKept
    <2>2. CASE Sync \/ Try \/ Emit
        BY <2>2, SyncKept, TryKept, EmitKept
    <2>3. ~MoveChain
        BY DEF MoveChain
    <2>4. QED
        BY <1>1, <1>2, <1>3, <1>4, <2>1, <2>2, <2>3 DEF Next

LEMMA KeptInit == Init => KeptInv
<1> SUFFICES ASSUME Init PROVE KeptInv
    OBVIOUS
<1>1. /\ chains = [c \in Chains |-> [base |-> -MaxDist, capacity |-> 0, data_index |-> DataCount]]
      /\ phase = "write" /\ local.pos = 0 /\ local.head = 1
    BY DEF Init
<1> DEFINE at == [c \in Chains |-> [i \in Nat |-> 0]]
           last == [c \in Chains |-> 0]
<1>2. at \in Ways /\ last \in Ends
    BY DEF Ways, Ends
<1>3. \A c : Inserted(c, 0) = {}
    <2>1. 0 .. 0 - 1 = {}
        OBVIOUS
    <2>2. QED
        BY <2>1 DEF Inserted
<1>4. -MaxDist < 0 /\ ~(-MaxDist >= 0) /\ 1 <= DataCount
    BY SizesAre
<1> HIDE DEF at, last
<1>5. Kept(chains, chain_data, 1, Stop, 0, at, last)
    <2>1. \A c \in Chains : chains[c].base = -MaxDist /\ chains[c].capacity = 0 /\ chains[c].data_index = DataCount
        BY <1>1
    <2>2. QED
        BY <1>3, <1>4, <2>1 DEF Kept, KeptChain
<1>6. KeptOut(chains, chain_data, 1, Stop, 0)
    BY <1>2, <1>5 DEF KeptOut
<1>7. QED
    BY <1>1, <1>6 DEF KeptInv, Between

\* The chains' part of the state before a collection.
HistoryInv ==
    /\ UncollectedInv
    /\ ~collected => LastInv /\ KeptInv

\* A collection is not forgotten.
LEMMA StaysUncollected == [Next]_vars /\ ~collected' => ~collected /\ ~Mark
<1> SUFFICES ASSUME [Next]_vars, ~collected' PROVE ~collected /\ ~Mark
    OBVIOUS
<1>1. CASE UNCHANGED vars
    <2>1. collected' = collected /\ phase' = phase
        BY <1>1 DEF vars, history
    <2>2. QED
        BY <2>1 DEF Mark
<1>2. CASE Mark
    BY <1>2 DEF Mark
<1>3. CASE Next /\ ~Mark
    BY <1>3 DEF Next, history, SkipTail, StartChain, ExtendChain, GrowChain, MoveChain, Reallocate,
       Sync, Try, Emit, Return, CallSearch, SkipCovered, WriteLiteral, WriteReference, WritePiece, Finish
<1>4. QED
    BY <1>1, <1>2, <1>3

LEMMA HistoryStep == HistoryInv /\ [Next]_vars => HistoryInv'
<1> SUFFICES ASSUME HistoryInv, [Next]_vars PROVE HistoryInv'
    OBVIOUS
<1>1. UncollectedInv'
    BY UncollectedStep DEF HistoryInv
<1>2. ~collected' => ~collected /\ ~Mark
    BY StaysUncollected
<1>3. ASSUME ~collected' PROVE LastInv' /\ KeptInv'
    <2>1. SearchInv /\ LastInv /\ KeptInv /\ phase # "collect" /\ ~Mark
        BY <1>2, <1>3 DEF HistoryInv, UncollectedInv
    <2>2. QED
        BY <2>1, LastStep, KeptStep
<1>4. QED
    BY <1>1, <1>3 DEF HistoryInv

LEMMA HistoryInit == Init => HistoryInv
<1>1. Init => UncollectedInv
    BY SearchInit DEF Init, UncollectedInv
<1>2. QED
    BY <1>1, LastInit, KeptInit DEF HistoryInv

\* Until chain_data_gc runs for the first time, a walk over a chain visits exactly
\* the earlier positions of its tuples that the window reaches.
THEOREM ChainsAreHistoryUntilCollection == Spec => []ChainsAreHistory
<1>1. HistoryInv => ChainsAreHistory
    <2> SUFFICES ASSUME HistoryInv, phase = "search", local.pos + TupleSize <= Len(data), ~collected
                 PROVE  WalksAreHistory
        BY DEF ChainsAreHistory
    <2>1. SearchInv /\ KeptInv
        BY DEF HistoryInv, UncollectedInv
    <2>2. KeptOut(chains, chain_data, local.head, Stop, local.pos)
        BY <2>1 DEF KeptInv, Between
    <2>3. QED
        BY <2>1, <2>2, SearchIs, KeptIsHistory
<1>2. QED
    BY <1>1, HistoryInit, HistoryStep, PTL DEF Spec

-----------------------------------------------------------------------------
(* What a probe reads.                                                     *)

\* A walk within the window reads the chain's own cells, unless it has come to
\* the window's end.
LEMMA WalkReadsOwn ==
    ASSUME SearchInv, NEW head, NEW n, NEW at \in Ways, NEW last \in Ends,
           Kept(chains, chain_data, head, Stop, n, at, last), NEW c \in Chains, NEW p \in Int, NEW i \in Nat,
           OnWalk(chains[c], p, i, Stop, at[c], last[c])
    PROVE  i \in OwnCells(c) \/ p = local.pos - MaxDist
<1> DEFINE place == chains[c]
           first == chains[c].data_index
           base == chains[c].base
           way == at[c]
           end == last[c]
           cells == CellsFor(chain_data, first, MaxDist)
<1>1. /\ chains \in [Chains -> Places] /\ chain_data \in [Memory -> 0 .. Terminator]
      /\ local.pos \in Nat /\ Stop \in Int /\ Stop = local.pos - MaxDist /\ base <= local.pos
    BY SearchIs, StopIs DEF SearchInv, IndexInv
<1>2. Leads(place, chain_data, Stop, Inserted(c, n), way, end)
    <2>1. \A b \in Nat \cup {-MaxDist} : b >= 0 => ~(b < 0)
        BY SizesAre
    <2>2. ~(place.base < 0)
        BY <1>1, <2>1 DEF OnWalk, Places
    <2>3. KeptChain(place, chain_data, head, Stop, Inserted(c, n), way, end)
        BY DEF Kept
    <2>4. QED
        BY <2>2, <2>3 DEF KeptChain
<1>3. /\ place \in Places /\ first \in Nat /\ end \in Nat /\ way \in [Nat -> Nat] /\ end < DataCount /\ first <= end
      /\ base \in Nat /\ place.data_index = first /\ place.base = base
    <2>1. place \in Places /\ first \in Nat /\ end \in Nat /\ way \in [Nat -> Nat]
        BY <1>1 DEF Places, Ends, Ways
    <2>2. way[first] = base /\ first <= end /\ end < DataCount
        BY <1>2 DEF Leads
    <2>3. QED
        BY <2>1, <2>2
<1>4. cells \in Nat /\ (Sum(chain_data, first, cells) >= MaxDist \/ first + cells = DataCount + Beyond)
    <2>1. first <= DataCount + Beyond /\ MaxDist \in Int
        BY <1>3, SizesAre
    <2> HIDE DEF first
    <2>2. QED
        BY <1>1, <1>3, <2>1, CellsForIs
<1>5. OwnCells(c) = first .. first + cells - 1
    BY DEF OwnCells
<1>6. OnWalk(place, p, i, Stop, way, end)
    OBVIOUS
<1> HIDE DEF cells, first, base, way, end
<1>7. CASE p = Stop
    BY <1>1, <1>7
<1>8. CASE i \in first .. end /\ p = way[i] /\ (p > Stop \/ i = first)
    <2> DEFINE k == i - first
    <2>1. k \in Nat /\ first + k = i /\ i <= end
        BY <1>3, <1>8
    <2>2. Sum(chain_data, first, k) = base - p
        <3>1. Sum(chain_data, place.data_index, k) = place.base - way[place.data_index + k]
            BY <1>1, <1>2, <1>3, <2>1, LeadsSum
        <3> HIDE DEF place, k
        <3>2. QED
            BY <1>3, <1>8, <2>1, <3>1
    <2>3. Sum(chain_data, first, k) < MaxDist
        <3>1. CASE p > Stop
            <4>1. \A q \in Nat, b \in Nat, r \in Int : b <= q /\ r > q - MaxDist => b - r < MaxDist
                BY SizesAre
            <4> HIDE DEF k
            <4>2. QED
                BY <1>1, <1>3, <2>2, <3>1, <4>1
        <3>2. CASE i = first
            <4>1. way[first] = base
                BY <1>2, <1>3 DEF Leads
            <4>2. base - p = 0
                BY <1>3, <1>8, <3>2, <4>1
            <4> HIDE DEF k
            <4>3. QED
                BY <2>2, <4>2, SizesAre
        <3>3. QED
            BY <1>8, <3>1, <3>2
    <2> HIDE DEF k
    <2>4. k < cells
        <3> SUFFICES ASSUME cells <= k PROVE FALSE
            BY <1>4, <2>1
        <3>1. first + cells < DataCount + Beyond /\ first + k < DataCount + Beyond
            BY <1>3, <1>4, <2>1, SizesAre
        <3>2. Sum(chain_data, first, cells) <= Sum(chain_data, first, k)
            BY <1>1, <1>3, <1>4, <2>1, <3>1, SumGrows
        <3>3. Sum(chain_data, first, cells) >= MaxDist
            BY <1>4, <3>1, <1>3, SizesAre
        <3>4. Sum(chain_data, first, cells) \in Nat /\ Sum(chain_data, first, k) \in Nat
            BY <1>1, <1>3, <1>4, <2>1, <3>1, SumNext
        <3>5. QED
            BY <2>3, <3>2, <3>3, <3>4, SizesAre
    <2>5. i \in first .. first + cells - 1
        BY <1>3, <1>4, <2>1, <2>4
    <2>6. QED
        BY <1>5, <2>5
<1>9. QED
    BY <1>3, <1>6, <1>7, <1>8 DEF OnWalk

LEMMA ProbeReadsOwn ==
    ASSUME SearchInv, KeptInv, phase = "probe"
    PROVE  /\ \/ probe.iter \in OwnCells(TupleChain(local.pos))
              \/ probe.begin = local.pos - MaxDist
           /\ \/ probe.end = NoChain
              \/ probe.endIter \in OwnCells(probe.end)
              \/ probe.endPos = local.pos - MaxDist
<1> DEFINE c == TupleChain(local.pos)
<1>1. /\ Walking(chains, chain_data, local.head, Stop, local.pos + 1, c, probe)
      /\ c \in Chains /\ (probe.end # NoChain => probe.end \in Chains)
      /\ probe.begin \in Int /\ probe.iter \in Nat /\ probe.endPos \in Int /\ probe.endIter \in Nat
    BY ProbeWalks
<1> HIDE DEF c
<1>2. PICK at \in Ways, last \in Ends :
        /\ Kept(chains, chain_data, local.head, Stop, local.pos + 1, at, last)
        /\ OnWalk(chains[c], probe.begin, probe.iter, Stop, at[c], last[c])
        /\ probe.end # NoChain => OnWalk(chains[probe.end], probe.endPos, probe.endIter, Stop, at[probe.end], last[probe.end])
    BY <1>1 DEF Walking
<1>3. probe.iter \in OwnCells(c) \/ probe.begin = local.pos - MaxDist
    BY <1>1, <1>2, WalkReadsOwn
<1>4. probe.end # NoChain => probe.endIter \in OwnCells(probe.end) \/ probe.endPos = local.pos - MaxDist
    BY <1>1, <1>2, WalkReadsOwn
<1>5. QED
    BY <1>3, <1>4 DEF c

\* As long as every call of the search gets ahead, a probe reads the cells of the
\* chain it walks, except at the end of the window, and what is gone on with is
\* the chain that ended the last match.
OverrunInv == SearchInv /\ LastInv /\ HistoryInv

LEMMA ReadsOwn == SearchInv /\ LastInv /\ (~collected => KeptInv) => OverrunsOnlyAtLimit
<1> SUFFICES ASSUME SearchInv, LastInv, ~collected => KeptInv PROVE OverrunsOnlyAtLimit
    OBVIOUS
<1>1. local.lastLength - 1 > TupleSize /\ ~local.lastBest => local.lastEnd # NoChain
    BY DEF LastInv, Goes
<1>2. phase = "probe" /\ ~collected =>
          /\ \/ probe.iter \in OwnCells(TupleChain(local.pos))
             \/ probe.begin = local.pos - MaxDist
          /\ \/ probe.end = NoChain
             \/ probe.endIter \in OwnCells(probe.end)
             \/ probe.endPos = local.pos - MaxDist
    BY ProbeReadsOwn
<1>3. QED
    BY <1>1, <1>2 DEF OverrunsOnlyAtLimit

\* Until chain_data_gc runs for the first time, a search that goes on has a chain
\* to go on with, and a probe reads no cells but those of the chain it walks,
\* save at the end of the window.
THEOREM OverrunsUntilCollection == Spec => [](~collected => OverrunsOnlyAtLimit)
<1>1. HistoryInv => (~collected => OverrunsOnlyAtLimit)
    BY ReadsOwn DEF HistoryInv, UncollectedInv
<1>2. QED
    BY <1>1, HistoryInit, HistoryStep, PTL DEF Spec

\* The same of all states, as long as every call of the search gets ahead: there
\* is a chain to go on with after collections as well.
THEOREM OverrunsAtLimit == Spec /\ CallsAdvance => []OverrunsOnlyAtLimit
<1>1. Init => OverrunInv
    BY SearchInit, LastInit, HistoryInit DEF OverrunInv
<1>2. OverrunInv /\ [Next]_vars /\ [phase # "write" /\ phase' = "write" => saved'.pos > saved.pos]_vars
        => OverrunInv'
    BY SearchStep, GiveUpIsNoAdvance, LastStep, HistoryStep DEF OverrunInv
<1>3. OverrunInv => OverrunsOnlyAtLimit
    BY ReadsOwn DEF OverrunInv, HistoryInv
<1>4. QED
    BY <1>1, <1>2, <1>3, PTL DEF Spec, CallsAdvance

-----------------------------------------------------------------------------
(* The sizes of things, before a collection.                               *)

LimitsInv ==
    /\ hash \in Hashes /\ collected \in BOOLEAN /\ limited \in BOOLEAN
    /\ saved.head <= DataCount
    /\ Len(matches) <= MaxMatches
    /\ phase \notin Between => Len(matches) < MaxMatches

LEMMA LimitsStep == SearchInv /\ KeptInv /\ LimitsInv /\ phase # "collect" /\ ~Mark /\ [Next]_vars => LimitsInv'
<1> SUFFICES ASSUME SearchInv, KeptInv, LimitsInv, phase # "collect", ~Mark, [Next]_vars PROVE LimitsInv'
    OBVIOUS
<1>1. /\ Len(matches) \in Nat /\ Len(matches) <= MaxMatches /\ hash \in Hashes /\ collected \in BOOLEAN
      /\ limited \in BOOLEAN /\ saved.head <= DataCount /\ MaxMatches \in Nat
      /\ matches \in Seq([position : Nat, offset : 1 .. MaxDist, length : Nat])
      /\ phase \notin Between => Len(matches) < MaxMatches
    BY LenProperties, SizesAre DEF SearchInv, MatchesInv, LimitsInv
<1>2. hash' = hash /\ limited' \in BOOLEAN /\ collected' = collected
    <2>1. CASE Sync
        BY <1>1, <2>1 DEF Sync, text
    <2>2. CASE UNCHANGED vars
        BY <1>1, <2>2 DEF vars, text, history
    <2>3. CASE Next /\ ~Sync
        BY <1>1, <2>3 DEF Next, text, history, SkipTail, StartChain, ExtendChain, GrowChain, MoveChain, Reallocate,
           Try, Emit, Return, CallSearch, SkipCovered, WriteLiteral, WriteReference, WritePiece, Finish
    <2>4. QED
        BY <2>1, <2>2, <2>3
<1>3. saved'.head <= DataCount
    <2>1. CASE Return
        <3>1. saved' = local /\ phase \in Between
            BY <2>1 DEF Return, Between
        <3>2. KeptOut(chains, chain_data, local.head, Stop, local.pos)
            BY <3>1 DEF KeptInv
        <3>3. QED
            BY <3>1, <3>2 DEF KeptOut, Kept
    <2>2. CASE UNCHANGED vars
        BY <1>1, <2>2 DEF vars
    <2>3. CASE Next /\ ~Return
        BY <1>1, <2>3 DEF Next, SkipTail, StartChain, ExtendChain, GrowChain, MoveChain, Reallocate,
           Sync, Try, Emit, CallSearch, SkipCovered, WriteLiteral, WriteReference, WritePiece, Finish
    <2>4. QED
        BY <2>1, <2>2, <2>3
<1>4. Len(matches') <= MaxMatches /\ (phase' \notin Between => Len(matches') < MaxMatches)
    <2>1. CASE SkipTail \/ StartChain \/ ExtendChain \/ GrowChain
        <3>1. matches' = matches /\ Len(matches) < MaxMatches
            BY <2>1 DEF SkipTail, StartChain, ExtendChain, GrowChain, HasTuple, Searching
        <3>2. QED
            BY <1>1, <3>1
    <2>2. CASE Reallocate
        <3>1. matches' = matches /\ phase \notin Between
            BY <2>2 DEF Reallocate, Between
        <3>2. QED
            BY <1>1, <3>1
    <2>3. CASE Sync \/ Try
        <3>1. matches' = matches /\ phase \notin Between
            BY <2>3 DEF Sync, Try, Probing, Between
        <3>2. QED
            BY <1>1, <3>1
    <2>4. CASE Emit
        <3>1. phase \notin Between /\ phase' \in Between
            BY <2>4 DEF Emit, Between
        <3> DEFINE m == [position |-> local.pos, offset |-> local.pos - probe.matchPos, length |-> probe.length]
        <3>2. matches' = matches \/ matches' = Append(matches, m)
            BY <2>4 DEF Emit
        <3> HIDE DEF m
        <3>3. Len(Append(matches, m)) = Len(matches) + 1
            <4> DEFINE S == [position : Nat, offset : 1 .. MaxDist, length : Nat]
            <4>1. matches \in Seq(S)
                BY <1>1
            <4> HIDE DEF S
            <4>2. matches \in Seq(S \cup {m})
                BY <4>1
            <4>3. QED
                BY <4>2, AppendProperties
        <3>4. QED
            BY <1>1, <3>1, <3>2, <3>3
    <2>5. CASE Return \/ CallSearch \/ WriteLiteral \/ Finish
        <3>1. matches' = matches /\ (phase' \in Between)
            BY <2>5 DEF Return, CallSearch, WriteLiteral, Finish, Writing, Between
        <3>2. QED
            BY <1>1, <3>1
    <2>6. CASE SkipCovered \/ WriteReference \/ WritePiece
        <3>1. (matches' = matches \/ matches' = Tail(matches)) /\ matches # <<>> /\ phase' \in Between
            BY <2>6 DEF SkipCovered, WriteReference, WritePiece, Writing, Between
        <3>2. Len(Tail(matches)) = Len(matches) - 1
            <4> DEFINE S == [position : Nat, offset : 1 .. MaxDist, length : Nat]
            <4>1. matches \in Seq(S) /\ matches # <<>>
                BY <1>1, <3>1
            <4> HIDE DEF S
            <4>2. QED
                BY <4>1, HeadTailProperties
        <3>3. QED
            BY <1>1, <3>1, <3>2
    <2>7. CASE UNCHANGED vars
        BY <1>1, <2>7 DEF vars
    <2>8. ~MoveChain
        BY DEF MoveChain
    <2>9. QED
        BY <2>1, <2>2, <2>3, <2>4, <2>5, <2>6, <2>7, <2>8 DEF Next
<1>5. QED
    BY <1>1, <1>2, <1>3, <1>4 DEF LimitsInv

\* A kept chain's base is a position of the text.
LEMMA KeptBase ==
    ASSUME SearchInv, NEW cs \in [Chains -> Places], NEW head, NEW stop, NEW n,
           KeptOut(cs, chain_data, head, stop, n), NEW c \in Chains
    PROVE  cs[c].base \in -MaxDist .. Len(data)
<1>1. PICK at \in Ways, last \in Ends : Kept(cs, chain_data, head, stop, n, at, last)
    BY DEF KeptOut
<1>2. cs[c].base \in Nat \cup {-MaxDist}
    BY DEF Places
<1>3. Len(data) \in Nat
    BY SearchIs
<1>4. CASE cs[c].base = -MaxDist
    <2>1. \A l \in Nat : -MaxDist \in -MaxDist .. l
        BY SizesAre
    <2>2. QED
        BY <1>3, <1>4, <2>1
<1>5. CASE cs[c].base # -MaxDist
    <2>1. cs[c].base \in Nat /\ ~(cs[c].base < 0)
        BY <1>2, <1>5
    <2>2. Leads(cs[c], chain_data, stop, Inserted(c, n), at[c], last[c])
        BY <1>1, <2>1 DEF Kept, KeptChain
    <2>3. cs[c].base \in Inserted(c, n)
        <3>1. cs[c].data_index \in Nat /\ last[c] \in Nat
            BY DEF Places, Ends
        <3>2. cs[c].data_index \in cs[c].data_index .. last[c] /\ at[c][cs[c].data_index] = cs[c].base
            <4>1. cs[c].data_index <= last[c] /\ at[c][cs[c].data_index] = cs[c].base
                BY <2>2 DEF Leads
            <4>2. \A f, l \in Nat : f <= l => f \in f .. l
                OBVIOUS
            <4>3. QED
                BY <3>1, <4>1, <4>2
        <3>3. \A i \in cs[c].data_index .. last[c] : at[c][i] \in Inserted(c, n)
            BY <2>2 DEF Leads
        <3>4. QED
            BY <3>2, <3>3
    <2>4. cs[c].base + TupleSize <= Len(data)
        BY <2>3 DEF Inserted
    <2>5. \A b \in Nat, l \in Nat : b + TupleSize <= l => b \in -MaxDist .. l
        BY SizesAre
    <2>6. QED
        BY <1>3, <2>1, <2>4, <2>5
<1>6. QED
    BY <1>4, <1>5

LEMMA BasesFit ==
    ASSUME SearchInv, KeptInv, phase # "collect", NEW c \in Chains
    PROVE  chains[c].base \in -MaxDist .. Len(data)
<1>1. chains \in [Chains -> Places] /\ Len(data) \in Nat /\ local.pos \in Nat
    BY SearchIs
<1>2. CASE phase = "grow"
    <2> DEFINE cs == [chains EXCEPT ![grow.chain].base = grow.begin]
    <2>1. KeptOut(cs, chain_data, local.head, Stop, local.pos)
        BY <1>2 DEF KeptInv
    <2>2. /\ grow.chain \in Chains /\ grow.begin \in Nat /\ chains[grow.chain].base = local.pos
          /\ local.pos + TupleSize <= Len(data)
        BY <1>2, GrowIs
    <2>3. cs \in [Chains -> Places] /\ (c # grow.chain => cs[c] = chains[c])
        BY <1>1, <2>2 DEF Places
    <2> HIDE DEF cs
    <2>4. CASE c = grow.chain
        <3>1. \A b \in Nat, l \in Nat : b + TupleSize <= l => b \in -MaxDist .. l
            BY SizesAre
        <3>2. QED
            BY <1>1, <2>2, <2>4, <3>1
    <2>5. CASE c # grow.chain
        BY <2>1, <2>3, <2>5, KeptBase
    <2>6. QED
        BY <2>4, <2>5
<1>3. CASE phase # "grow"
    <2>1. PICK n : KeptOut(chains, chain_data, local.head, Stop, n)
        BY <1>3 DEF KeptInv, Between, SearchInv, StateInv
    <2>2. QED
        BY <1>1, <2>1, KeptBase
<1>4. QED
    BY <1>2, <1>3

LEMMA HeadFits == SearchInv /\ KeptInv /\ phase # "collect" => local.head \in 1 .. DataCount
<1> SUFFICES ASSUME SearchInv, KeptInv, phase # "collect" PROVE local.head \in 1 .. DataCount
    OBVIOUS
<1>1. local.head \in Nat \ {0}
    BY SearchIs
<1>2. \E cs, n : KeptOut(cs, chain_data, local.head, Stop, n)
    BY DEF KeptInv, Between, SearchInv, StateInv
<1>3. local.head <= DataCount
    BY <1>2 DEF KeptOut, Kept
<1>4. QED
    BY <1>1, <1>3, SizesAre

LEMMA AllTyped == SearchInv /\ KeptInv /\ LimitsInv /\ phase # "collect" => TypeOK
<1> SUFFICES ASSUME SearchInv, KeptInv, LimitsInv, phase # "collect" PROVE TypeOK
    OBVIOUS
<1>1. data \in Seq(Bytes) /\ Len(data) \in Nat /\ hash \in Hashes
    BY SearchIs DEF LimitsInv
<1>2. chains \in [Chains -> [base : -MaxDist .. Len(data), capacity : 0 .. DataCount, data_index : 0 .. DataCount]]
    <2>1. ASSUME NEW c \in Chains
          PROVE  chains[c] \in [base : -MaxDist .. Len(data), capacity : 0 .. DataCount, data_index : 0 .. DataCount]
        <3>1. chains[c] \in Places /\ Sound(chains[c]) /\ chains[c].base \in -MaxDist .. Len(data)
            BY SearchIs, BasesFit DEF SearchInv, IndexInv
        <3>2. chains[c].capacity \in Nat /\ chains[c].data_index \in Nat
            BY <3>1 DEF Places
        <3>3. \A f, r \in Nat : (r > 0 => f > r) /\ (f < DataCount \/ f = DataCount) => f \in 0 .. DataCount /\ r \in 0 .. DataCount
            BY SizesAre
        <3>4. chains[c].capacity \in 0 .. DataCount /\ chains[c].data_index \in 0 .. DataCount
            BY <3>1, <3>2, <3>3 DEF Sound
        <3>5. QED
            BY <3>1, <3>4 DEF Places
    <2>2. DOMAIN chains = Chains /\ chains = [c \in Chains |-> chains[c]]
        BY SearchIs
    <2>3. QED
        BY <2>1, <2>2
<1>3. chain_data \in [Memory -> 0 .. Terminator]
    BY SearchIs
<1>4. saved \in LocalType /\ local \in LocalType
    <2>1. local \in Locals /\ saved \in Locals /\ local.head \in 1 .. DataCount /\ saved.head <= DataCount
        BY HeadFits, SearchIs DEF SearchInv, StateInv, LimitsInv
    <2>2. saved.head \in 1 .. DataCount
        <3>1. \A h \in Nat \ {0} : h <= DataCount => h \in 1 .. DataCount
            BY SizesAre
        <3>2. QED
            BY <2>1, <3>1 DEF Locals
    <2>3. QED
        BY <2>1, <2>2 DEF Locals, LocalType
<1>5. matches \in Seq([position : Nat, offset : Int, length : Nat]) /\ Len(matches) <= MaxMatches
    <2> DEFINE S == [position : Nat, offset : 1 .. MaxDist, length : Nat]
               T == [position : Nat, offset : Int, length : Nat]
    <2>1. matches \in Seq(S) /\ Len(matches) <= MaxMatches
        BY DEF SearchInv, MatchesInv, LimitsInv
    <2>2. S \subseteq T
        <3>1. 1 .. MaxDist \subseteq Int
            BY SizesAre
        <3>2. QED
            BY <3>1
    <2> HIDE DEF S, T
    <2>3. matches \in Seq(T)
        BY <2>1, <2>2
    <2>4. QED
        BY <2>1, <2>3 DEF T
<1>6. phase \in {"search", "grow", "collect", "probe", "emit", "write", "done"}
    BY DEF SearchInv, StateInv
<1>7. written \in 0 .. Len(data) /\ left \in 0 .. Len(data)
    <2>1. written \in 0 .. Len(data) /\ left \in Nat
        BY DEF SearchInv, OutputInv
    <2>2. CASE left > 0
        <3>1. /\ matches # <<>> /\ written + left = Head(matches).position + Head(matches).length
            BY <2>2 DEF SearchInv, OutputInv
        <3> DEFINE m == Head(matches)
                   S == [position : Nat, offset : 1 .. MaxDist, length : Nat]
        <3>2. m \in S /\ m = matches[1] /\ Len(matches) \in Nat /\ Len(matches) > 0
            <4>1. matches \in Seq(S)
                BY DEF SearchInv, MatchesInv
            <4> HIDE DEF S
            <4>2. QED
                BY <3>1, <4>1, HeadTailProperties, EmptySeq, LenProperties, ElementOfSeq
        <3>3. m.position + m.length <= Len(data)
            <4>1. 1 \in 1 .. Len(matches)
                BY <3>2
            <4>2. Repeats(matches[1].position, matches[1].position - matches[1].offset, matches[1].length)
                BY <4>1 DEF SearchInv, MatchesInv
            <4>3. QED
                BY <3>2, <4>2 DEF Repeats
        <3>4. written + left <= Len(data)
            BY <3>1, <3>3
        <3> HIDE DEF m, S
        <3>5. QED
            BY <1>1, <2>1, <3>4
    <2>3. CASE ~(left > 0)
        BY <1>1, <2>1, <2>3
    <2>4. QED
        BY <2>1, <2>2, <2>3
<1>8. decoded \in Seq(Bytes)
    <2>1. decoded = SubSeq(data, 1, written) /\ written \in 0 .. Len(data)
        BY DEF SearchInv, OutputInv
    <2>2. \A i \in 1 .. written : data[i] \in Bytes
        BY <1>1, <2>1, ElementOfSeq
    <2>3. QED
        BY <1>1, <2>1, <2>2, SubSeqProperties
<1>9. collected \in BOOLEAN /\ limited \in BOOLEAN
    BY DEF LimitsInv
<1>10. QED
    BY <1>1, <1>2, <1>3, <1>4, <1>5, <1>6, <1>7, <1>8, <1>9 DEF TypeOK

TypedInv ==
    /\ HistoryInv
    /\ ~collected => LimitsInv

\* Until chain_data_gc runs for the first time, chains stay inside chain_data,
\* every distance fits its cell, and no call reports more matches than it has
\* room for.
THEOREM TypedUntilCollection == Spec => [](~collected => TypeOK)
<1>1. Init => TypedInv
    <2> SUFFICES ASSUME Init PROVE LimitsInv
        BY HistoryInit DEF TypedInv
    <2>1. hash \in Hashes /\ ~collected /\ ~limited /\ collected = FALSE /\ limited = FALSE /\ saved.head = 1
          /\ matches = <<>> /\ phase \in Between
        BY DEF Init, Between
    <2>2. Len(<<>>) = 0 /\ 0 <= MaxMatches /\ 1 <= DataCount
        BY SizesAre
    <2>3. hash \in Hashes /\ collected \in BOOLEAN /\ limited \in BOOLEAN
        BY <2>1
    <2>4. QED
        BY <2>1, <2>2, <2>3 DEF LimitsInv
<1>2. TypedInv /\ [Next]_vars => TypedInv'
    <2> SUFFICES ASSUME TypedInv, [Next]_vars PROVE TypedInv'
        OBVIOUS
    <2>1. HistoryInv'
        BY HistoryStep DEF TypedInv
    <2>2. ASSUME ~collected' PROVE LimitsInv'
        <3>1. ~collected /\ ~Mark
            BY <2>2, StaysUncollected
        <3>2. SearchInv /\ KeptInv /\ LimitsInv /\ phase # "collect"
            BY <3>1 DEF TypedInv, HistoryInv, UncollectedInv
        <3>3. QED
            BY <3>1, <3>2, LimitsStep
    <2>3. QED
        BY <2>1, <2>2 DEF TypedInv
<1>3. TypedInv => (~collected => TypeOK)
    BY AllTyped DEF TypedInv, HistoryInv, UncollectedInv
<1>4. QED
    BY <1>1, <1>2, <1>3, PTL DEF Spec

-----------------------------------------------------------------------------
(* Longer matches, before a collection.                                    *)

\* Position q in reach goes on like position pos for t bytes, and what it goes on
\* with is in the chains once pos is.
Rival(pos, q, t) ==
    /\ q \in 0 .. pos - 1 /\ q > pos - MaxDist
    /\ q + t <= pos + TupleSize /\ pos + t <= Len(data)
    /\ \A i \in 1 .. t : data[q + i] = data[pos + i]

\* How far behind a candidate the tuple begins that ends a match of length t.
Behind(t) == t - TupleSize

\* The chain the search follows is that of the tuple that has to be there.
RightEnd(p) == p.end = NoChain \/ p.end = TupleChain(local.pos + Behind(p.target))

Found(p) == p.length >= TupleSize /\ p.length >= local.lastLength

\* The search has passed over nothing that is long enough: it still lies before
\* the candidate, and its end before the position in the chain that is followed.
Before(p) ==
    RightEnd(p) => \A q \in Nat : Rival(local.pos, q, p.target) =>
        q <= p.begin /\ (p.end # NoChain => q + Behind(p.target) <= p.endPos)

\* What has been found is the longest up to here, only longer ones are looked for,
\* and there are steps left.
Aimed(p) ==
    /\ p.syncs <= MaxSync
    /\ Found(p) => p.target = p.length + 1 /\ RightEnd(p) /\ p.end # NoChain
    /\ p.end = NoChain => p.target = TupleSize
    /\ p.end # NoChain => p.target > TupleSize

Unrivalled(p) == Found(p) => \A q \in Nat : ~Rival(local.pos, q, p.length + 1)

LongInv ==
    /\ phase = "probe" => Before(probe) /\ Aimed(probe)
    /\ phase = "emit" => Unrivalled(probe)
    /\ phase \notin {"write", "done"} => \A i \in 1 .. Len(matches) : Longest(matches[i])

\* Equal bytes are in the same chain.
LEMMA SameTuple ==
    ASSUME SearchInv, NEW a \in Nat, NEW b \in Nat, \A i \in 1 .. TupleSize : data[a + i] = data[b + i],
           a + TupleSize <= Len(data), b + TupleSize <= Len(data)
    PROVE  TupleChain(a) = TupleChain(b)
<1> DEFINE s == SubSeq(data, a + 1, a + TupleSize)
           t == SubSeq(data, b + 1, b + TupleSize)
<1>1. data \in Seq(Bytes) /\ Len(data) \in Nat /\ TupleSize \in 1 .. 4
    BY SearchIs, SizesAre
<1>2. \A x \in Nat : x + TupleSize <= Len(data) =>
        /\ SubSeq(data, x + 1, x + TupleSize) \in Seq(Bytes)
        /\ Len(SubSeq(data, x + 1, x + TupleSize)) = TupleSize
        /\ \A i \in 1 .. TupleSize : SubSeq(data, x + 1, x + TupleSize)[i] = data[x + i]
    <2> SUFFICES ASSUME NEW x \in Nat, x + TupleSize <= Len(data)
                 PROVE  /\ SubSeq(data, x + 1, x + TupleSize) \in Seq(Bytes)
                        /\ Len(SubSeq(data, x + 1, x + TupleSize)) = TupleSize
                        /\ \A i \in 1 .. TupleSize : SubSeq(data, x + 1, x + TupleSize)[i] = data[x + i]
        OBVIOUS
    <2> DEFINE m == x + 1
               n == x + TupleSize
    <2>1. /\ m \in Int /\ n \in Int /\ m <= n /\ (n - m) + 1 = TupleSize /\ \A i \in m .. n : i \in 1 .. Len(data)
          /\ \A i \in 1 .. TupleSize : m + i - 1 = x + i
        BY <1>1
    <2>2. \A i \in m .. n : data[i] \in Bytes
        BY <1>1, <2>1, ElementOfSeq
    <2> HIDE DEF m, n
    <2>3. /\ SubSeq(data, m, n) \in Seq(Bytes)
          /\ Len(SubSeq(data, m, n)) = IF m <= n THEN (n - m) + 1 ELSE 0
          /\ \A i \in 1 .. (n - m) + 1 : SubSeq(data, m, n)[i] = data[m + i - 1]
        BY <2>1, <2>2, SubSeqProperties
    <2>4. /\ SubSeq(data, m, n) \in Seq(Bytes) /\ Len(SubSeq(data, m, n)) = TupleSize
          /\ \A i \in 1 .. TupleSize : SubSeq(data, m, n)[i] = data[x + i]
        BY <2>1, <2>3
    <2>5. QED
        BY <2>4 DEF m, n
<1>3. /\ s \in Seq(Bytes) /\ t \in Seq(Bytes) /\ Len(s) = TupleSize /\ Len(t) = TupleSize
      /\ \A i \in 1 .. TupleSize : s[i] = t[i]
    BY <1>2
<1> HIDE DEF s, t
<1>4. s = t
    BY <1>3, SeqEqual
<1>5. QED
    BY <1>4 DEF TupleChain, s, t

\* A rival and its end are in the chains the search follows.
LEMMA RivalInChains ==
    ASSUME SearchInv, NEW q \in Nat, NEW t \in Nat, t >= TupleSize, Rival(local.pos, q, t)
    PROVE  /\ q \in Inserted(TupleChain(local.pos), local.pos)
           /\ q \in Inserted(TupleChain(local.pos), local.pos + 1)
           /\ q + Behind(t) \in Inserted(TupleChain(local.pos + Behind(t)), local.pos + 1)
           /\ q > Stop /\ q + Behind(t) > Stop /\ q + Behind(t) \in Nat
<1> DEFINE pos == local.pos
           d == Behind(t)
<1>1. /\ pos \in Nat /\ Len(data) \in Nat /\ TupleSize \in 1 .. 4
      /\ Stop \in Int /\ Stop = pos - MaxDist /\ MaxDist \in Nat
    BY SearchIs, StopIs, SizesAre
<1>2. /\ q \in 0 .. pos - 1 /\ q > pos - MaxDist /\ q + t <= pos + TupleSize /\ pos + t <= Len(data)
      /\ \A i \in 1 .. t : data[q + i] = data[pos + i]
    BY DEF Rival
<1>3. d \in Nat /\ d = t - TupleSize
    BY <1>1 DEF Behind
<1> HIDE DEF pos, d
<1>4. TupleChain(q) = TupleChain(pos)
    <2>1. \A i \in 1 .. TupleSize : i \in 1 .. t
        BY <1>1
    <2>2. q + TupleSize <= Len(data) /\ pos + TupleSize <= Len(data)
        BY <1>1, <1>2
    <2>3. QED
        BY <1>1, <1>2, <2>1, <2>2, SameTuple
<1>5. TupleChain(q + d) = TupleChain(pos + d)
    <2>1. ASSUME NEW i \in 1 .. TupleSize PROVE data[(q + d) + i] = data[(pos + d) + i]
        <3>1. d + i \in 1 .. t /\ (q + d) + i = q + (d + i) /\ (pos + d) + i = pos + (d + i)
            BY <1>1, <1>3
        <3>2. QED
            BY <1>2, <3>1
    <2>2. q + d \in Nat /\ pos + d \in Nat /\ (q + d) + TupleSize <= Len(data) /\ (pos + d) + TupleSize <= Len(data)
        BY <1>1, <1>2, <1>3
    <2>3. QED
        BY <2>1, <2>2, SameTuple
<1>6. /\ q \in 0 .. pos - 1 /\ q \in 0 .. (pos + 1) - 1 /\ q + d \in 0 .. (pos + 1) - 1
      /\ q + TupleSize <= Len(data) /\ (q + d) + TupleSize <= Len(data)
      /\ q > pos - MaxDist /\ q + d > pos - MaxDist
    BY <1>1, <1>2, <1>3
<1>7. QED
    BY <1>1, <1>4, <1>5, <1>6 DEF Inserted, pos, d

\* A chain's base is its newest position.
LEMMA NewestFirst ==
    ASSUME NEW cs \in [Chains -> Places], NEW cells, NEW head, NEW stop, NEW n,
           KeptOut(cs, cells, head, stop, n), NEW c \in Chains, NEW q \in Inserted(c, n)
    PROVE  q <= cs[c].base
<1>1. PICK at \in Ways, last \in Ends : Kept(cs, cells, head, stop, n, at, last)
    BY DEF KeptOut
<1>2. Leads(cs[c], cells, stop, Inserted(c, n), at[c], last[c])
    BY <1>1 DEF Kept, KeptChain
<1>3. QED
    BY <1>2 DEF Leads

LEMMA LongText ==
    UNCHANGED text =>
        /\ \A m : Longest(m)' <=> Longest(m)
        /\ \A pos, q, t : Rival(pos, q, t)' <=> Rival(pos, q, t)
        /\ \A q : TupleChain(q)' = TupleChain(q)
<1> SUFFICES ASSUME UNCHANGED text
             PROVE  /\ \A m : Longest(m)' <=> Longest(m)
                    /\ \A pos, q, t : Rival(pos, q, t)' <=> Rival(pos, q, t)
                    /\ \A q : TupleChain(q)' = TupleChain(q)
    OBVIOUS
<1>1. data' = data /\ hash' = hash
    BY DEF text
<1>2. \A m : Longest(m)' <=> Longest(m)
    BY <1>1 DEF Longest
<1>3. \A pos, q, t : Rival(pos, q, t)' <=> Rival(pos, q, t)
    BY <1>1 DEF Rival
<1>4. \A q : TupleChain(q)' = TupleChain(q)
    BY <1>1 DEF TupleChain
<1>5. QED
    BY <1>2, <1>3, <1>4

\* Nothing has been reported that is not the longest, and no candidate is looked at.
LEMMA LongBetween ==
    ASSUME LongInv, UNCHANGED text, phase \notin {"write", "done"}, phase' \notin {"probe", "emit"}, matches' = matches
    PROVE  LongInv'
<1>1. \A i \in 1 .. Len(matches) : Longest(matches[i])
    BY DEF LongInv
<1>2. (\A i \in 1 .. Len(matches) : Longest(matches[i]))'
    BY <1>1, LongText
<1>3. QED
    BY <1>2 DEF LongInv

\* The candidate changes.
LEMMA ProbeLong ==
    ASSUME LongInv, UNCHANGED text, local'.pos = local.pos, local'.lastLength = local.lastLength, matches' = matches,
           phase \notin {"write", "done"},
           NEW p, probe' = p,
           \/ phase' = "emit" /\ Unrivalled(p)
           \/ phase' = "probe" /\ Before(p) /\ Aimed(p)
    PROVE  LongInv'
<1>1. \A i \in 1 .. Len(matches) : Longest(matches[i])
    BY DEF LongInv
<1>2. (\A i \in 1 .. Len(matches) : Longest(matches[i]))'
    BY <1>1, LongText
<1>3. /\ Found(probe)' <=> Found(p)
      /\ RightEnd(probe)' <=> RightEnd(p)
      /\ \A q, t : Rival(local.pos, q, t)' <=> Rival(local.pos, q, t)
    <2>1. \A q, t : Rival(local.pos, q, t)' <=> Rival(local.pos, q, t)
        BY LongText
    <2>2. \A q : TupleChain(local.pos + q)' = TupleChain(local.pos + q)
        BY LongText
    <2>3. TupleChain(local.pos + Behind(probe.target))' = TupleChain(local.pos + Behind(p.target))
        BY <2>2 DEF Behind
    <2>4. RightEnd(probe)' <=> RightEnd(p)
        BY <2>3 DEF RightEnd
    <2>5. Found(probe)' <=> Found(p)
        BY DEF Found
    <2>6. QED
        BY <2>1, <2>4, <2>5
<1>4. CASE phase' = "emit" /\ Unrivalled(p)
    <2>1. Unrivalled(probe)'
        BY <1>3, <1>4 DEF Unrivalled
    <2>2. QED
        BY <1>2, <1>4, <2>1 DEF LongInv
<1>5. CASE phase' = "probe" /\ Before(p) /\ Aimed(p)
    <2>1. Before(probe)'
        BY <1>3, <1>5 DEF Before, Behind
    <2>2. Aimed(probe)'
        BY <1>3, <1>5 DEF Aimed
    <2>3. QED
        BY <1>2, <1>5, <2>1, <2>2 DEF LongInv
<1>6. QED
    BY <1>4, <1>5

\* A step back passes over no rival.
LEMMA RivalStays ==
    ASSUME SearchInv, KeptInv, phase = "probe", NEW q \in Nat, NEW t \in Nat, t >= TupleSize, Rival(local.pos, q, t)
    PROVE  /\ q < probe.begin => q <= probe.begin - Cell(probe.iter)
           /\ probe.end # NoChain /\ probe.end = TupleChain(local.pos + Behind(t)) /\ q + Behind(t) < probe.endPos
                => q + Behind(t) <= probe.endPos - Cell(probe.endIter)
<1> DEFINE c == TupleChain(local.pos)
           end == probe.end
           n == local.pos + 1
<1>1. /\ Walking(chains, chain_data, local.head, Stop, n, c, probe)
      /\ c \in Chains /\ (end # NoChain => end \in Chains)
      /\ probe.begin \in Int /\ probe.iter \in Nat /\ probe.endPos \in Int /\ probe.endIter \in Nat
      /\ chains \in [Chains -> Places] /\ chain_data \in [Memory -> 0 .. Terminator] /\ Stop \in Int
    BY ProbeWalks, StopIs
<1>2. /\ q \in Inserted(c, n) /\ q > Stop
      /\ q + Behind(t) \in Inserted(TupleChain(local.pos + Behind(t)), n) /\ q + Behind(t) > Stop
    BY RivalInChains
<1> HIDE DEF c, end, n
<1>3. PICK at \in Ways, last \in Ends :
            /\ Kept(chains, chain_data, local.head, Stop, n, at, last)
            /\ OnWalk(chains[c], probe.begin, probe.iter, Stop, at[c], last[c])
            /\ end # NoChain => OnWalk(chains[end], probe.endPos, probe.endIter, Stop, at[end], last[end])
    BY <1>1 DEF Walking, end
<1>4. q < probe.begin => q <= probe.begin - Cell(probe.iter)
    <2> DEFINE b == probe.begin
               i == probe.iter
    <2>1. b \in Int /\ i \in Nat /\ OnWalk(chains[c], b, i, Stop, at[c], last[c])
        BY <1>1, <1>3
    <2> HIDE DEF b, i
    <2>2. \A r \in Inserted(c, n) : Stop < r /\ r < b => r <= b - Cell(i)
        BY <1>1, <1>3, <2>1, StepsBack
    <2>3. Stop < q
        BY <1>1, <1>2
    <2>4. QED
        BY <1>2, <2>2, <2>3 DEF b, i
<1>5. ASSUME end # NoChain, end = TupleChain(local.pos + Behind(t)), q + Behind(t) < probe.endPos
      PROVE  q + Behind(t) <= probe.endPos - Cell(probe.endIter)
    <2> DEFINE b == probe.endPos
               i == probe.endIter
               r == q + Behind(t)
    <2>1. b \in Int /\ i \in Nat /\ OnWalk(chains[end], b, i, Stop, at[end], last[end]) /\ end \in Chains
        BY <1>1, <1>3, <1>5
    <2>2. r \in Inserted(end, n) /\ r < b
        BY <1>2, <1>5
    <2>3. Stop < r
        <3>1. r \in Int
            BY SizesAre DEF Behind
        <3>2. QED
            BY <1>1, <1>2, <3>1
    <2> HIDE DEF b, i, r
    <2>4. \A x \in Inserted(end, n) : Stop < x /\ x < b => x <= b - Cell(i)
        BY <1>1, <1>3, <2>1, StepsBack
    <2>5. r <= b - Cell(i)
        BY <2>2, <2>3, <2>4
    <2>6. QED
        BY <2>5 DEF b, i, r
<1>6. QED
    BY <1>4, <1>5 DEF end

\* On to the previous position, with p found.
LEMMA AdvanceLong ==
    ASSUME SearchInv, KeptInv, LongInv, UNCHANGED text, local' = local, matches' = matches, phase = "probe",
           NEW p \in Probes, p.begin = probe.begin, p.iter = probe.iter, p.target >= TupleSize, Advance(p), Aimed(p),
           RightEnd(p) => \A q \in Nat : Rival(local.pos, q, p.target) =>
                q < p.begin /\ (p.end # NoChain => q + Behind(p.target) <= p.endPos)
    PROVE  LongInv'
<1> DEFINE begin == p.begin - Cell(p.iter)
           next == [p EXCEPT !.begin = begin, !.iter = @ + 1, !.syncs = 0]
<1>1. probe \in Probes /\ p.target \in Nat /\ local.pos \in Nat
    BY ProbeWalks, SearchIs DEF Probes
<1>2. begin \in Int
    <2>1. p.begin \in Int /\ Cell(p.iter) \in Nat
        BY CellIs DEF Probes
    <2>2. QED
        BY <2>1
<1>3. RightEnd(p) => \A q \in Nat : Rival(local.pos, q, p.target) =>
                q <= begin /\ (p.end # NoChain => q + Behind(p.target) <= p.endPos)
    BY <1>1, RivalStays
<1>4. \/ probe' = next /\ phase' = "emit" /\ ~InReach(begin)
      \/ probe' = next /\ phase' = "probe"
    BY DEF Advance, Break
<1> HIDE DEF begin
<1>5. /\ next.begin = begin /\ next.target = p.target /\ next.length = p.length
      /\ next.end = p.end /\ next.endPos = p.endPos /\ next.syncs = 0 /\ 0 <= MaxSync
    BY SizesAre DEF Probes
<1> HIDE DEF next
<1>6. Before(next) /\ Aimed(next)
    <2>1. Before(next)
        BY <1>3, <1>5 DEF Before, RightEnd
    <2>2. Aimed(next)
        BY <1>5 DEF Aimed, RightEnd, Found
    <2>3. QED
        BY <2>1, <2>2
<1>7. ~InReach(begin) => Unrivalled(next)
    <2> SUFFICES ASSUME ~InReach(begin), Found(next), NEW q \in Nat, Rival(local.pos, q, next.length + 1) PROVE FALSE
        BY DEF Unrivalled
    <2>1. next.target = next.length + 1 /\ RightEnd(next)
        BY <1>6 DEF Aimed
    <2>2. q <= begin
        BY <1>5, <1>6, <2>1 DEF Before
    <2>3. q > local.pos - MaxDist
        BY DEF Rival
    <2>4. \A r \in Nat, x \in Nat, b \in Int : ~(x - b < MaxDist) /\ r <= b => ~(r > x - MaxDist)
        BY SizesAre
    <2>5. QED
        BY <1>1, <1>2, <2>2, <2>3, <2>4 DEF InReach
<1>8. QED
    BY <1>4, <1>6, <1>7, ProbeLong

\* A new position in front of its chain: no rival is newer than the one before.
LEMMA InsertLong ==
    ASSUME SearchInv, SearchInv', KeptInv', LastInv, LongInv, UNCHANGED text, matches' = matches,
           phase \notin {"write", "done"},
           NEW c \in Chains, NEW begin \in Nat, NEW cs, NEW cells, NEW head,
           Insert(c, begin, cs, cells, head), c = TupleChain(local.pos),
           \A q \in Inserted(c, local.pos) : q <= begin
    PROVE  LongInv'
<1> DEFINE submatch == local.lastLength - 1
           longer == submatch > TupleSize
           ahead == longer /\ local.lastBest
           end == IF longer THEN local.lastEnd ELSE NoChain
           target == IF longer THEN local.lastLength ELSE TupleSize
           length == IF longer THEN submatch ELSE 0
<1>1. /\ local \in Locals /\ local.lastLength \in Nat /\ local.lastEnd \in 0 .. NoChain /\ local.lastBest \in BOOLEAN
      /\ local.pos \in Nat /\ TupleSize \in 1 .. 4
    BY SearchIs, SizesAre
<1>2. CASE ahead
    <2>1. phase' = "search"
        BY <1>2 DEF Insert
    <2>2. QED
        BY <2>1, LongBetween
<1>3. CASE ~ahead
    <2>1. /\ local' = [local EXCEPT !.head = head] /\ phase' = "probe"
          /\ probe' = FirstProbe([cs EXCEPT ![c].capacity = @ - 1, ![c].data_index = cs[c].data_index - 1], c, begin)
          /\ chains' = [cs EXCEPT ![c].capacity = @ - 1, ![c].data_index = cs[c].data_index - 1]
        BY <1>3 DEF Insert
    <2>2. probe' = FirstProbe(chains', c, begin)
        BY <2>1
    <2>3. local'.pos = local.pos /\ local'.lastLength = local.lastLength
        BY <1>1, <2>1 DEF Locals
    <2>4. PICK p : p = probe'
        OBVIOUS
    <2>5. /\ p.begin = begin /\ p.end = end /\ p.target = target /\ p.length = length
          /\ p.end # NoChain => p.endPos = chains'[p.end].base
          /\ p.syncs = 0 /\ 0 <= MaxSync
        BY <2>2, <2>4, SizesAre DEF FirstProbe
    <2>6. longer => end # NoChain
        BY <1>3 DEF LastInv, Goes
    <2>7. /\ ~Found(p) /\ target \in Nat /\ target >= TupleSize
          /\ p.end = NoChain => target = TupleSize
          /\ p.end # NoChain => target > TupleSize
        <3>1. ~(length >= TupleSize /\ length >= local.lastLength) /\ target \in Nat /\ target >= TupleSize
            BY <1>1
        <3>2. longer => target > TupleSize
            BY <1>1
        <3>3. ~longer => target = TupleSize /\ end = NoChain
            OBVIOUS
        <3> HIDE DEF target, length, end, longer
        <3>4. QED
            BY <2>5, <2>6, <3>1, <3>2, <3>3 DEF Found
    <2> HIDE DEF end, target, length, longer
    <2>8. Aimed(p)
        BY <2>5, <2>7 DEF Aimed
    <2>9. p.end # NoChain => p.end \in Chains
        <3>1. end \in 0 .. NoChain
            BY <1>1, SizesAre DEF end, NoChain
        <3>2. \A e \in 0 .. NoChain : e # NoChain => e \in Chains
            BY SizesAre DEF NoChain, Chains
        <3>3. QED
            BY <2>5, <3>1, <3>2
    <2>10. KeptOut(chains', chain_data', local'.head, Stop', local.pos + 1)
        <3>1. KeptOut(chains, chain_data, local.head, Stop, local.pos + 1)'
            BY <2>1 DEF KeptInv
        <3>2. KeptOut(chains', chain_data', local'.head, Stop', local'.pos + 1)
            BY <3>1, KeptText
        <3>3. QED
            BY <2>3, <3>2
    <2>11. chains' \in [Chains -> Places]
        BY DEF SearchInv, IndexInv, Places
    <2>12. Before(p)
        <3> SUFFICES ASSUME RightEnd(p), NEW q \in Nat, Rival(local.pos, q, p.target)
                     PROVE  q <= p.begin /\ (p.end # NoChain => q + Behind(p.target) <= p.endPos)
            BY DEF Before
        <3>1. /\ q \in Inserted(c, local.pos)
              /\ q + Behind(target) \in Inserted(TupleChain(local.pos + Behind(target)), local.pos + 1)
            BY <2>5, <2>7, RivalInChains
        <3>2. q <= p.begin
            BY <2>5, <3>1
        <3>3. ASSUME p.end # NoChain PROVE q + Behind(p.target) <= p.endPos
            <4>1. q + Behind(target) \in Inserted(p.end, local.pos + 1)
                BY <2>5, <3>1, <3>3 DEF RightEnd
            <4>2. q + Behind(target) <= chains'[p.end].base
                BY <2>9, <2>10, <2>11, <3>3, <4>1, NewestFirst
            <4>3. QED
                BY <2>5, <3>3, <4>2
        <3>4. QED
            BY <3>2, <3>3
    <2>13. QED
        BY <2>1, <2>3, <2>4, <2>8, <2>12, ProbeLong
<1>4. QED
    BY <1>2, <1>3

LEMMA ExtendLong ==
    SearchInv /\ KeptInv /\ LastInv /\ LongInv /\ ExtendChain /\ SearchInv' /\ KeptInv' => LongInv'
<1> SUFFICES ASSUME SearchInv, KeptInv, LastInv, LongInv, ExtendChain, SearchInv', KeptInv' PROVE LongInv'
    OBVIOUS
<1> DEFINE c == TupleChain(local.pos)
           begin == chains[c].base
           cs == [chains EXCEPT ![c].base = local.pos]
<1>1. /\ UNCHANGED text /\ phase = "search" /\ local.pos + TupleSize <= Len(data) /\ matches' = matches
      /\ local.pos - begin < MaxDist
      /\ Insert(c, begin, cs, chain_data, local.head)
    BY DEF ExtendChain, HasTuple, Searching
<1> HIDE DEF c
<1>2. c = TupleChain(local.pos)
    BY DEF c
<1>3. c \in Chains /\ begin \in Nat /\ chains \in [Chains -> Places]
    BY <1>1, <1>2, InReachIs, SearchIs
<1>4. KeptOut(chains, chain_data, local.head, Stop, local.pos)
    BY <1>1 DEF KeptInv, Between
<1>5. \A q \in Inserted(c, local.pos) : q <= begin
    BY <1>3, <1>4, NewestFirst
<1> HIDE DEF begin, cs
<1>6. QED
    BY <1>1, <1>2, <1>3, <1>5, InsertLong

LEMMA ReallocateLong ==
    SearchInv /\ KeptInv /\ LastInv /\ LongInv /\ Reallocate /\ phase = "grow" /\ SearchInv' /\ KeptInv' => LongInv'
<1> SUFFICES ASSUME SearchInv, KeptInv, LastInv, LongInv, Reallocate, phase = "grow", SearchInv', KeptInv' PROVE LongInv'
    OBVIOUS
<1> DEFINE c == grow.chain
           begin == grow.begin
           n == grow.length
           room == BlockSize(n) - n
           first == local.head + room
           cs == [chains EXCEPT ![c].data_index = first, ![c].capacity = room]
           cells == [i \in Memory |-> IF i \in first .. first + n - 1
                                      THEN chain_data[grow.from + i - first] ELSE chain_data[i]]
           pre == [chains EXCEPT ![c].base = begin]
<1>1. UNCHANGED text /\ ~Full /\ Insert(c, begin, cs, cells, first + n) /\ matches' = matches
    BY DEF Reallocate
<1> HIDE DEF cs, cells, first, room, n
<1>2. c \in Chains /\ c = TupleChain(local.pos) /\ begin \in Nat /\ chains \in [Chains -> Places]
    BY GrowIs, SearchIs
<1>3. KeptOut(pre, chain_data, local.head, Stop, local.pos)
    BY DEF KeptInv
<1> HIDE DEF c, begin
<1>4. pre[c].base = begin /\ pre \in [Chains -> Places]
    BY <1>2 DEF Places
<1> HIDE DEF pre
<1>5. \A q \in Inserted(c, local.pos) : q <= begin
    BY <1>2, <1>3, <1>4, NewestFirst
<1>6. QED
    BY <1>1, <1>2, <1>5, InsertLong

LEMMA EmitLong == SearchInv /\ LongInv /\ Emit => LongInv'
<1> SUFFICES ASSUME SearchInv, LongInv, Emit PROVE LongInv'
    OBVIOUS
<1> DEFINE m == [position |-> local.pos, offset |-> local.pos - probe.matchPos, length |-> probe.length]
           S == [position : Nat, offset : 1 .. MaxDist, length : Nat]
<1>1. /\ UNCHANGED text /\ phase = "emit" /\ phase' = "search"
      /\ matches' = IF Found(probe) THEN Append(matches, m) ELSE matches
    BY DEF Emit, Found
<1>2. /\ \A i \in 1 .. Len(matches) : Longest(matches[i])
      /\ Unrivalled(probe) /\ matches \in Seq(S) /\ probe.length \in Nat
    BY <1>1 DEF LongInv, SearchInv, MatchesInv, ProbeInv, Sane, Probes
<1>3. Found(probe) => Longest(m)
    <2> DEFINE n == probe.length
               pos == local.pos
    <2>1. pos \in Nat /\ Len(data) \in Nat /\ n \in Nat /\ TupleSize \in Nat /\ MaxDist \in Nat
        BY <1>2, SearchIs, SizesAre
    <2>2. Found(probe) => \A q \in Nat : ~Rival(pos, q, n + 1)
        BY <1>2 DEF Unrivalled
    <2>3. m.position = pos /\ m.length = n
        OBVIOUS
    <2> HIDE DEF m, n, pos
    <2> SUFFICES ASSUME Found(probe), pos + n < Len(data), NEW q \in 0 .. pos - 1,
                        pos - q < MaxDist, q + n < pos + TupleSize
                 PROVE  \E i \in 1 .. n + 1 : data[q + i] # data[pos + i]
        BY <2>3 DEF Longest
    <2>4. q \in Nat /\ ~Rival(pos, q, n + 1)
        BY <2>1, <2>2
    <2>5. q > pos - MaxDist /\ q + (n + 1) <= pos + TupleSize /\ pos + (n + 1) <= Len(data)
        BY <2>1, <2>4
    <2>6. QED
        BY <2>4, <2>5 DEF Rival
<1> HIDE DEF m, S
<1>4. \A i \in 1 .. Len(matches') : Longest(matches'[i])
    <2>1. CASE Found(probe)
        <3>1. matches' = Append(matches, m)
            BY <1>1, <2>1
        <3>2. matches \in Seq(S \cup {m})
            BY <1>2
        <3>3. /\ Len(Append(matches, m)) = Len(matches) + 1 /\ Len(matches) \in Nat
              /\ \A i \in 1 .. Len(matches) : Append(matches, m)[i] = matches[i]
              /\ Append(matches, m)[Len(matches) + 1] = m
            BY <3>2, AppendProperties, LenProperties
        <3>4. \A k \in Nat : \A i \in 1 .. k + 1 : i \in 1 .. k \/ i = k + 1
            OBVIOUS
        <3>5. QED
            BY <1>2, <1>3, <2>1, <3>1, <3>3, <3>4
    <2>2. CASE ~Found(probe)
        BY <1>1, <1>2, <2>2
    <2>3. QED
        BY <2>1, <2>2
<1>5. (\A i \in 1 .. Len(matches) : Longest(matches[i]))'
    BY <1>1, <1>4, LongText
<1>6. QED
    BY <1>1, <1>5 DEF LongInv

LEMMA SyncLong == SearchInv /\ KeptInv /\ LongInv /\ Sync /\ ~limited' => LongInv'
<1> SUFFICES ASSUME SearchInv, KeptInv, LongInv, Sync, ~limited' PROVE LongInv'
    OBVIOUS
<1> DEFINE nearer == [probe EXCEPT !.begin = @ - Cell(probe.iter), !.iter = @ + 1, !.syncs = @ + 1]
           back == [probe EXCEPT !.endPos = @ - Cell(probe.endIter), !.endIter = @ + 1, !.syncs = @ + 1]
           stepped == IF Gap < 0 THEN nearer ELSE back
           begin == probe.begin - Cell(probe.iter)
           endPos == probe.endPos - Cell(probe.endIter)
           t == probe.target
           d == Behind(t)
           end == probe.end
           pos == local.pos
<1>1. phase = "probe" /\ UNCHANGED text /\ local' = local /\ matches' = matches /\ end # NoChain
      /\ probe.syncs # MaxSync /\ ~(Gap = 0 /\ probe.syncs < MaxSync)
    BY DEF Sync, Probing, InSync
<1>2. /\ probe \in Probes /\ probe.begin \in Int /\ probe.endPos \in Int /\ t \in Nat /\ t >= TupleSize
      /\ pos \in Nat /\ Stop \in Int /\ Stop = pos - MaxDist /\ probe.syncs \in Nat
    BY <1>1, ProbeWalks, SearchIs, StopIs DEF Probes
<1>3. Cell(probe.iter) \in Nat /\ Cell(probe.endIter) \in Nat
    BY CellIs
<1>4. begin \in Int /\ endPos \in Int /\ d \in Nat /\ begin <= probe.begin /\ endPos <= probe.endPos
    <2>1. d \in Nat
        BY <1>2, SizesAre DEF Behind
    <2>2. QED
        BY <1>2, <1>3, <2>1
<1>5. Gap = (probe.endPos - probe.begin) - d
    BY DEF Gap, Behind
<1>6. /\ nearer.begin = begin /\ nearer.end = end /\ nearer.endPos = probe.endPos
      /\ nearer.target = t /\ nearer.length = probe.length /\ nearer.syncs = probe.syncs + 1
      /\ back.begin = probe.begin /\ back.end = end /\ back.endPos = endPos
      /\ back.target = t /\ back.length = probe.length /\ back.syncs = probe.syncs + 1
    BY <1>2 DEF Probes
<1>7. \/ probe' = stepped /\ phase' = "emit" /\ (stepped.begin < Stop \/ stepped.endPos < Stop)
      \/ probe' = stepped /\ phase' = "probe"
    <2> HIDE DEF nearer, back
    <2>1. IF probe.syncs = MaxSync THEN Break(probe)
          ELSE IF stepped.begin < Stop \/ stepped.endPos < Stop THEN Break(stepped)
          ELSE probe' = stepped /\ UNCHANGED phase
        BY DEF Sync, nearer, back
    <2> HIDE DEF stepped
    <2>2. QED
        BY <1>1, <2>1 DEF Break
<1> HIDE DEF nearer, back
<1>8. /\ stepped.end = end /\ stepped.target = t /\ stepped.length = probe.length
      /\ stepped.begin \in Int /\ stepped.endPos \in Int /\ stepped.syncs = probe.syncs + 1
      /\ Gap < 0 => stepped.begin = begin /\ stepped.endPos = probe.endPos
      /\ ~(Gap < 0) => stepped.begin = probe.begin /\ stepped.endPos = endPos
    BY <1>2, <1>4, <1>6
<1>9. Before(probe) /\ Aimed(probe)
    BY <1>1 DEF LongInv
<1>10. probe.syncs + 1 <= MaxSync /\ Gap # 0
    <2>1. probe.syncs <= MaxSync
        BY <1>9 DEF Aimed
    <2>2. probe.syncs < MaxSync
        BY <1>1, <1>2, <2>1, SizesAre
    <2>3. QED
        BY <1>1, <1>2, <2>2, SizesAre
<1> HIDE DEF stepped, begin, endPos
<1>11. Before(stepped)
    <2> SUFFICES ASSUME RightEnd(stepped), NEW q \in Nat, Rival(pos, q, t)
                 PROVE  q <= stepped.begin /\ q + d <= stepped.endPos
        BY <1>8 DEF Before
    <2>1. end = TupleChain(pos + d)
        BY <1>1, <1>8 DEF RightEnd
    <2>2. q <= probe.begin /\ q + d <= probe.endPos
        BY <1>1, <1>9, <2>1 DEF Before, RightEnd
    <2>3. /\ q < probe.begin => q <= begin
          /\ q + d < probe.endPos => q + d <= endPos
        BY <1>1, <1>2, <2>1, RivalStays DEF begin, endPos
    <2> HIDE DEF d, t, end, pos
    <2>4. CASE Gap < 0
        <3>1. \A a, b, e \in Int, x \in Nat : (e - a) - x < 0 /\ b + x <= e => b < a
            OBVIOUS
        <3>2. q < probe.begin
            BY <1>2, <1>4, <1>5, <2>2, <2>4, <3>1
        <3>3. QED
            BY <1>8, <2>2, <2>3, <2>4, <3>2
    <2>5. CASE ~(Gap < 0)
        <3>1. \A a, b, e \in Int, x \in Nat : ~((e - a) - x < 0) /\ (e - a) - x # 0 /\ b <= a => b + x < e
            OBVIOUS
        <3>2. q + d < probe.endPos
            BY <1>2, <1>4, <1>5, <1>10, <2>2, <2>5, <3>1
        <3>3. QED
            BY <1>8, <2>2, <2>3, <2>5, <3>2
    <2>6. QED
        BY <2>4, <2>5
<1>12. Aimed(stepped)
    BY <1>8, <1>9, <1>10 DEF Aimed, Found, RightEnd
<1>13. stepped.begin < Stop \/ stepped.endPos < Stop => Unrivalled(stepped)
    <2> SUFFICES ASSUME stepped.begin < Stop \/ stepped.endPos < Stop, Found(stepped),
                        NEW q \in Nat, Rival(pos, q, stepped.length + 1)
                 PROVE  FALSE
        BY DEF Unrivalled
    <2>1. stepped.target = stepped.length + 1 /\ RightEnd(stepped)
        BY <1>12 DEF Aimed
    <2>2. q <= stepped.begin /\ q + d <= stepped.endPos
        BY <1>1, <1>8, <1>11, <2>1 DEF Before
    <2>3. q > Stop
        BY <1>2 DEF Rival
    <2> HIDE DEF d, t, end, pos
    <2>4. QED
        BY <1>2, <1>4, <1>8, <2>2, <2>3
<1>14. QED
    BY <1>1, <1>7, <1>11, <1>12, <1>13, ProbeLong

\* Where the candidate and its end are in step and enough bytes are equal, the
\* chain that is followed is the right one.
LEMMA SyncedRight ==
    ASSUME SearchInv, KeptInv, Aimed(probe), phase = "probe", InSync,
           NEW n \in Nat, n >= probe.target, local.pos + n <= Len(data),
           \A i \in 1 .. n : data[local.pos + i] = data[probe.begin + i]
    PROVE  RightEnd(probe)
<1> DEFINE end == probe.end
           pos == local.pos
           t == probe.target
           d == Behind(t)
           begin == probe.begin
<1> SUFFICES ASSUME end # NoChain PROVE end = TupleChain(pos + d)
    BY DEF RightEnd
<1>1. /\ Walking(chains, chain_data, local.head, Stop, pos + 1, TupleChain(pos), probe)
      /\ end \in Chains /\ begin \in Nat /\ begin >= Stop /\ probe.endPos \in Int
      /\ t \in Nat /\ t >= TupleSize /\ pos \in Nat /\ Stop \in Int /\ Len(data) \in Nat /\ TupleSize \in 1 .. 4
    BY ProbeWalks, SearchIs, StopIs, SizesAre
<1>2. t > TupleSize /\ (probe.endPos - begin) - (t - TupleSize) = 0
    BY DEF Aimed, InSync, Gap
<1> HIDE DEF begin, end, t, pos
<1>3. d \in Nat /\ d > 0 /\ probe.endPos = begin + d /\ d + TupleSize = t
    BY <1>1, <1>2 DEF Behind
<1>4. probe.endPos # Stop
    BY <1>1, <1>3
<1> HIDE DEF d
<1>5. PICK at \in Ways, last \in Ends :
        /\ Kept(chains, chain_data, local.head, Stop, pos + 1, at, last)
        /\ OnWalk(chains[end], probe.endPos, probe.endIter, Stop, at[end], last[end])
    BY <1>1 DEF Walking, end
<1>6. probe.endPos \in Inserted(end, pos + 1)
    <2> DEFINE i == probe.endIter
               place == chains[end]
    <2>1. place.base >= 0 /\ i \in place.data_index .. last[end] /\ probe.endPos = at[end][i]
        BY <1>4, <1>5 DEF OnWalk
    <2>2. place \in Places
        BY <1>1, SearchIs
    <2>3. KeptChain(place, chain_data, local.head, Stop, Inserted(end, pos + 1), at[end], last[end])
        BY <1>1, <1>5 DEF Kept
    <2> HIDE DEF i, place
    <2>4. ~(place.base < 0)
        <3>1. \A b \in Nat \cup {-MaxDist} : b >= 0 => ~(b < 0)
            BY SizesAre
        <3>2. QED
            BY <2>1, <2>2, <3>1 DEF Places
    <2>5. \A j \in place.data_index .. last[end] : at[end][j] \in Inserted(end, pos + 1)
        BY <2>3, <2>4 DEF KeptChain, Leads
    <2>6. QED
        BY <2>1, <2>5
<1>7. TupleChain(begin + d) = end /\ (begin + d) + TupleSize <= Len(data)
    BY <1>3, <1>6 DEF Inserted
<1>8. TupleChain(begin + d) = TupleChain(pos + d)
    <2>1. \A i \in 1 .. TupleSize : data[(begin + d) + i] = data[(pos + d) + i]
        <3> SUFFICES ASSUME NEW i \in 1 .. TupleSize PROVE data[(begin + d) + i] = data[(pos + d) + i]
            OBVIOUS
        <3>1. d + i \in 1 .. n /\ (begin + d) + i = begin + (d + i) /\ (pos + d) + i = pos + (d + i)
            BY <1>1, <1>3 DEF t
        <3>2. data[pos + (d + i)] = data[begin + (d + i)]
            BY <3>1 DEF pos, begin
        <3>3. QED
            BY <3>1, <3>2
    <2>2. begin + d \in Nat /\ pos + d \in Nat /\ (pos + d) + TupleSize <= Len(data)
        BY <1>1, <1>3 DEF t, pos
    <2>3. QED
        BY <1>7, <2>1, <2>2, SameTuple
<1>9. QED
    BY <1>7, <1>8

LEMMA TryLong == SearchInv /\ KeptInv /\ LongInv /\ Try => LongInv'
<1> SUFFICES ASSUME SearchInv, KeptInv, LongInv, Try PROVE LongInv'
    OBVIOUS
<1> DEFINE pos == local.pos
           begin == probe.begin
           t == probe.target
           most == Len(data) - local.pos
           n == Strmatch(local.pos, probe.begin, most)
           found == [probe EXCEPT !.length = n, !.matchPos = probe.begin]
           best == [found EXCEPT !.best = TRUE]
           end == TupleChain(local.pos + n - TupleSize + 1)
           longer == [found EXCEPT !.end = end, !.endPos = chains[end].base,
                                   !.endIter = chains[end].data_index, !.target = LongerThan(n)]
<1>1. phase = "probe" /\ InSync /\ UNCHANGED text /\ local' = local /\ matches' = matches
    BY DEF Try, Probing
<1>2. /\ probe \in Probes /\ t \in Nat /\ t >= TupleSize /\ begin \in Nat /\ chains \in [Chains -> Places]
      /\ pos \in Nat /\ Len(data) \in Nat /\ pos + TupleSize <= Len(data) /\ TupleSize \in 1 .. 4
      /\ Before(probe) /\ Aimed(probe)
      /\ KeptOut(chains, chain_data, local.head, Stop, pos + 1)
    BY <1>1, SearchIs, ProbeWalks, SizesAre DEF KeptInv, LongInv
<1>3. most \in Nat /\ pos + most = Len(data)
    BY <1>2, SizesAre
<1>4. IF n < t THEN Advance(probe)
      ELSE IF n = most THEN Break(best)
      ELSE IF pos - chains[end].base >= MaxDist THEN Break(best)
      ELSE Advance(longer)
    BY DEF Try
<1> HIDE DEF most
<1>5. /\ n \in 0 .. most
      /\ \A i \in 1 .. n : data[pos + i] = data[begin + i]
      /\ n < most => data[pos + n + 1] # data[begin + n + 1]
    <2> HIDE DEF pos, begin
    <2>1. n = Strmatch(pos, begin, most)
        BY DEF pos, begin
    <2> HIDE DEF n
    <2>2. /\ Strmatch(pos, begin, most) \in 0 .. most
          /\ \A i \in 1 .. Strmatch(pos, begin, most) : data[pos + i] = data[begin + i]
          /\ Strmatch(pos, begin, most) < most
                => data[pos + Strmatch(pos, begin, most) + 1] # data[begin + Strmatch(pos, begin, most) + 1]
        BY <1>2, <1>3, StrmatchIs, Zenon
    <2>3. QED
        BY <2>1, <2>2, Zenon
<1>6. n \in Nat /\ pos + n <= Len(data)
    BY <1>2, <1>3, <1>5
<1> HIDE DEF n
\* The candidate itself is no rival for more than the bytes that are equal.
<1>7. \A k \in Nat : n < k => ~Rival(pos, begin, k)
    <2> SUFFICES ASSUME NEW k \in Nat, n < k, Rival(pos, begin, k) PROVE FALSE
        OBVIOUS
    <2>1. pos + k <= Len(data) /\ \A i \in 1 .. k : data[begin + i] = data[pos + i]
        BY DEF Rival
    <2> HIDE DEF pos, begin
    <2>2. n + 1 \in 1 .. k /\ n < most /\ pos + n + 1 = pos + (n + 1) /\ begin + n + 1 = begin + (n + 1)
        BY <1>2, <1>3, <1>6, <2>1
    <2>3. data[begin + (n + 1)] = data[pos + (n + 1)]
        BY <2>1, <2>2
    <2>4. QED
        BY <1>5, <2>2, <2>3
<1>8. CASE n < t /\ Advance(probe)
    <2>1. RightEnd(probe) => \A q \in Nat : Rival(pos, q, t) =>
            q < begin /\ (probe.end # NoChain => q + Behind(t) <= probe.endPos)
        <3> SUFFICES ASSUME RightEnd(probe), NEW q \in Nat, Rival(pos, q, t)
                     PROVE  q < begin /\ (probe.end # NoChain => q + Behind(t) <= probe.endPos)
            OBVIOUS
        <3>1. q <= begin /\ (probe.end # NoChain => q + Behind(t) <= probe.endPos)
            BY <1>2 DEF Before
        <3>2. q # begin
            BY <1>2, <1>7, <1>8
        <3>3. QED
            BY <1>2, <3>1, <3>2
    <2>2. QED
        BY <1>1, <1>2, <1>8, <2>1, AdvanceLong
<1>9. best.length = n
    BY <1>2 DEF Probes
<1>10. CASE n = most /\ Break(best)
    <2>1. Unrivalled(best)
        <3> SUFFICES ASSUME NEW q \in Nat, Rival(pos, q, n + 1) PROVE FALSE
            BY <1>9 DEF Unrivalled
        <3>1. pos + (n + 1) <= Len(data)
            BY DEF Rival
        <3> HIDE DEF pos
        <3>2. QED
            BY <1>2, <1>3, <1>6, <1>10, <3>1
    <2> HIDE DEF best
    <2>2. probe' = best /\ phase' = "emit"
        BY <1>10 DEF Break
    <2>3. QED
        BY <1>1, <2>1, <2>2, ProbeLong
<1>11. ASSUME ~(n < t), n # most
       PROVE  /\ end \in Chains /\ end # NoChain
              /\ end = TupleChain(pos + Behind(n + 1))
              /\ n >= TupleSize
              /\ \A q \in Nat : Rival(pos, q, n + 1) =>
                    q + Behind(n + 1) <= chains[end].base /\ q > Stop /\ q <= q + Behind(n + 1)
    <2>1. pos + n - TupleSize + 1 \in 0 .. Len(data) - TupleSize /\ n >= TupleSize
          /\ pos + n - TupleSize + 1 = pos + Behind(n + 1) /\ Behind(n + 1) \in Nat
        <3> HIDE DEF pos, t
        <3>1. n < most /\ n >= TupleSize
            BY <1>2, <1>3, <1>5, <1>6, <1>11
        <3>2. QED
            BY <1>2, <1>3, <1>6, <3>1 DEF Behind
    <2>2. end \in Chains
        BY <2>1 DEF SearchInv, TextInv
    <2>3. end # NoChain
        BY <2>2, SizesAre DEF Chains, NoChain
    <2>4. end = TupleChain(pos + Behind(n + 1))
        BY <2>1
    <2> HIDE DEF end
    <2>5. ASSUME NEW q \in Nat, Rival(pos, q, n + 1)
          PROVE  q + Behind(n + 1) <= chains[end].base /\ q > Stop /\ q <= q + Behind(n + 1)
        <3>1. n + 1 \in Nat /\ n + 1 >= TupleSize
            BY <1>2, <1>6, <2>1
        <3>2. q + Behind(n + 1) \in Inserted(end, pos + 1) /\ q > Stop
            BY <2>4, <2>5, <3>1, RivalInChains
        <3>3. q + Behind(n + 1) <= chains[end].base
            BY <1>2, <2>2, <3>2, NewestFirst
        <3>4. QED
            BY <2>1, <3>2, <3>3
    <2>6. QED
        BY <2>1, <2>2, <2>3, <2>4, <2>5
<1>12. CASE ~(n < t) /\ n # most /\ pos - chains[end].base >= MaxDist /\ Break(best)
    <2>1. Unrivalled(best)
        <3> SUFFICES ASSUME NEW q \in Nat, Rival(pos, q, n + 1) PROVE FALSE
            BY <1>9 DEF Unrivalled
        <3>1. q + Behind(n + 1) <= chains[end].base /\ q > Stop /\ q <= q + Behind(n + 1) /\ end \in Chains
            BY <1>11, <1>12
        <3> HIDE DEF end
        <3>2. chains[end].base \in Int /\ Behind(n + 1) \in Int /\ Stop = pos - MaxDist
            BY <1>2, <1>6, <3>1, StopIs, SizesAre DEF Places, Behind
        <3> HIDE DEF pos
        <3>3. \A r, x \in Nat, d, b \in Int : r + d <= b /\ r > x - MaxDist /\ r <= r + d => ~(x - b >= MaxDist)
            BY SizesAre
        <3>4. QED
            BY <1>2, <1>12, <3>1, <3>2, <3>3
    <2> HIDE DEF best
    <2>2. probe' = best /\ phase' = "emit"
        BY <1>12 DEF Break
    <2>3. QED
        BY <1>1, <2>1, <2>2, ProbeLong
<1>13. CASE ~(n < t) /\ n # most /\ ~(pos - chains[end].base >= MaxDist) /\ Advance(longer)
    <2>1. /\ end \in Chains /\ end # NoChain /\ end = TupleChain(pos + Behind(n + 1)) /\ n >= TupleSize
          /\ \A q \in Nat : Rival(pos, q, n + 1) =>
                    q + Behind(n + 1) <= chains[end].base /\ q > Stop /\ q <= q + Behind(n + 1)
        BY <1>11, <1>13
    <2>2. RightEnd(probe)
        <3>1. n >= t
            BY <1>2, <1>6, <1>13
        <3>2. QED
            BY <1>1, <1>2, <1>5, <1>6, <3>1, SyncedRight
    <2>3. \A q \in Nat : Rival(pos, q, n + 1) => q < begin
        <3> SUFFICES ASSUME NEW q \in Nat, Rival(pos, q, n + 1) PROVE q < begin
            OBVIOUS
        <3>1. Rival(pos, q, t)
            <4>1. /\ q \in 0 .. pos - 1 /\ q > pos - MaxDist
                  /\ q + (n + 1) <= pos + TupleSize /\ pos + (n + 1) <= Len(data)
                  /\ \A i \in 1 .. n + 1 : data[q + i] = data[pos + i]
                BY DEF Rival
            <4> HIDE DEF pos, t
            <4>2. q + t <= pos + TupleSize /\ pos + t <= Len(data) /\ \A i \in 1 .. t : i \in 1 .. n + 1
                BY <1>2, <1>6, <1>13, <4>1
            <4>3. QED
                BY <4>1, <4>2 DEF Rival
        <3>2. q <= begin
            BY <1>2, <2>2, <3>1 DEF Before
        <3>3. q # begin
            <4>1. n + 1 \in Nat /\ n < n + 1
                BY <1>6
            <4>2. QED
                BY <1>7, <4>1
        <3>4. QED
            BY <1>2, <3>2, <3>3
    <2> HIDE DEF end
    <2>4. /\ longer \in Probes /\ longer.begin = begin /\ longer.iter = probe.iter
          /\ longer.end = end /\ longer.endPos = chains[end].base
          /\ longer.target = n + 1 /\ longer.length = n /\ longer.syncs = probe.syncs
        <3> DEFINE base == chains[end].base
                   first == chains[end].data_index
                   target == LongerThan(n)
        <3>1. base \in Int /\ first \in Nat /\ target \in Nat /\ target = n + 1 /\ end \in 0 .. NoChain /\ begin \in Int
            <4>1. base \in Int /\ first \in Nat
                BY <1>2, <2>1, SizesAre DEF Places
            <4>2. end \in 0 .. NoChain
                BY <2>1, SizesAre DEF Chains, NoChain
            <4>3. target = n + 1 /\ target \in Nat /\ begin \in Int
                BY <1>2, <1>6 DEF LongerThan
            <4>4. QED
                BY <4>1, <4>2, <4>3
        <3> HIDE DEF base, first, target
        <3>2. /\ found \in Probes /\ found.begin = begin /\ found.iter = probe.iter /\ found.length = n
              /\ found.syncs = probe.syncs
            BY <1>2, <1>6, <3>1 DEF Probes
        <3> HIDE DEF found
        <3>3. longer = [found EXCEPT !.end = end, !.endPos = base, !.endIter = first, !.target = target]
            BY DEF base, first, target
        <3> HIDE DEF longer
        <3>4. /\ longer \in Probes /\ longer.begin = found.begin /\ longer.iter = found.iter
              /\ longer.end = end /\ longer.endPos = base /\ longer.target = target
              /\ longer.length = found.length /\ longer.syncs = found.syncs
            BY <3>1, <3>2, <3>3 DEF Probes
        <3>5. QED
            BY <3>1, <3>2, <3>4 DEF base
    <2> HIDE DEF longer
    <2>5. Aimed(longer)
        <3>1. n + 1 > TupleSize /\ probe.syncs <= MaxSync
            BY <1>2, <1>6, <2>1 DEF Aimed
        <3>2. QED
            BY <2>1, <2>4, <3>1 DEF Aimed, RightEnd
    <2>6. \A q \in Nat : Rival(pos, q, longer.target) =>
                q < longer.begin /\ (longer.end # NoChain => q + Behind(longer.target) <= longer.endPos)
        BY <2>1, <2>3, <2>4
    <2>7. longer.target >= TupleSize
        BY <1>2, <1>6, <2>1, <2>4
    <2>8. QED
        BY <1>1, <1>13, <2>4, <2>5, <2>6, <2>7, AdvanceLong
<1>14. QED
    BY <1>4, <1>8, <1>10, <1>12, <1>13

LEMMA LongStep ==
    ASSUME SearchInv, KeptInv, LastInv, LongInv, phase # "collect", ~Mark,
           [Next]_vars, ~limited', SearchInv', KeptInv'
    PROVE  LongInv'
<1>1. CASE SkipTail \/ StartChain \/ GrowChain
    <2>1. UNCHANGED text /\ phase \notin {"write", "done"} /\ phase' \notin {"probe", "emit"} /\ matches' = matches
        BY <1>1 DEF SkipTail, StartChain, GrowChain, HasTuple, Searching
    <2>2. QED
        BY <2>1, LongBetween
<1>2. CASE Sync \/ Try \/ Emit
    BY <1>2, SyncLong, TryLong, EmitLong
<1>3. CASE ExtendChain
    BY <1>3, ExtendLong
<1>4. CASE Reallocate
    BY <1>4, ReallocateLong DEF Reallocate
<1>5. CASE Return \/ SkipCovered \/ WriteLiteral \/ WriteReference \/ WritePiece \/ Finish
    <2>1. phase' \in {"write", "done"}
        BY <1>5 DEF Return, SkipCovered, WriteLiteral, WriteReference, WritePiece, Finish, Writing
    <2>2. QED
        BY <2>1 DEF LongInv
<1>6. CASE CallSearch
    <2>1. phase' = "search" /\ matches' = <<>>
        BY <1>6 DEF CallSearch
    <2>2. Len(<<>>) = 0 /\ 1 .. 0 = {}
        OBVIOUS
    <2>3. (\A i \in 1 .. Len(matches) : Longest(matches[i]))'
        BY <2>1, <2>2
    <2>4. QED
        BY <2>1, <2>3 DEF LongInv
<1>7. CASE UNCHANGED vars
    <2>1. UNCHANGED text /\ local' = local /\ matches' = matches /\ probe' = probe /\ phase' = phase
        BY <1>7 DEF vars
    <2>2. CASE phase \in {"write", "done"}
        BY <2>1, <2>2 DEF LongInv
    <2>3. CASE phase \notin {"write", "done"} /\ phase \notin {"probe", "emit"}
        BY <2>1, <2>3, LongBetween
    <2>4. CASE phase \in {"probe", "emit"}
        <3>1. \/ phase' = "emit" /\ Unrivalled(probe)
              \/ phase' = "probe" /\ Before(probe) /\ Aimed(probe)
            BY <2>1, <2>4 DEF LongInv
        <3>2. QED
            BY <2>1, <2>4, <3>1, ProbeLong
    <2>5. QED
        BY <2>2, <2>3, <2>4
<1>8. ~MoveChain
    BY DEF MoveChain
<1>9. QED
    BY <1>1, <1>2, <1>3, <1>4, <1>5, <1>6, <1>7, <1>8 DEF Next

\* The search has not run out of steps before.
LEMMA StaysUnlimited == [Next]_vars /\ ~limited' => ~limited
<1> SUFFICES ASSUME [Next]_vars, ~limited' PROVE ~limited
    OBVIOUS
<1>1. CASE Sync
    BY <1>1 DEF Sync
<1>2. CASE UNCHANGED vars
    BY <1>2 DEF vars, history
<1>3. CASE Next /\ ~Sync
    BY <1>3 DEF Next, history, SkipTail, StartChain, ExtendChain, GrowChain, Mark, MoveChain, Reallocate,
       Try, Emit, Return, CallSearch, SkipCovered, WriteLiteral, WriteReference, WritePiece, Finish
<1>4. QED
    BY <1>1, <1>2, <1>3

LongestInv ==
    /\ HistoryInv
    /\ ~collected /\ ~limited => LongInv

\* Until chain_data_gc runs for the first time, and as long as sync_iterators has
\* not run out of steps, a match that is reported is the longest of those whose
\* end is in the chains, though most candidates are never compared.
THEOREM MatchesAreLongest == Spec => []LongestMatch
<1>1. Init => LongestInv
    <2> SUFFICES ASSUME Init PROVE LongInv
        BY HistoryInit DEF LongestInv
    <2>1. phase = "write"
        BY DEF Init
    <2>2. QED
        BY <2>1 DEF LongInv
<1>2. LongestInv /\ [Next]_vars => LongestInv'
    <2> SUFFICES ASSUME LongestInv, [Next]_vars PROVE LongestInv'
        OBVIOUS
    <2>1. HistoryInv'
        BY HistoryStep DEF LongestInv
    <2>2. ASSUME ~collected', ~limited' PROVE LongInv'
        <3>1. ~collected /\ ~limited /\ ~Mark
            BY <2>2, StaysUncollected, StaysUnlimited
        <3>2. SearchInv /\ KeptInv /\ LastInv /\ LongInv /\ phase # "collect"
            BY <3>1 DEF LongestInv, HistoryInv, UncollectedInv
        <3>3. SearchInv' /\ KeptInv'
            BY <2>1, <2>2 DEF HistoryInv, UncollectedInv
        <3>4. QED
            BY <2>2, <3>1, <3>2, <3>3, LongStep
    <2>3. QED
        BY <2>1, <2>2 DEF LongestInv
<1>3. LongestInv => LongestMatch
    <2> SUFFICES ASSUME LongestInv, phase = "search", matches # <<>>, ~collected, ~limited
                 PROVE  Longest(matches[Len(matches)])
        BY DEF LongestMatch
    <2>1. \A i \in 1 .. Len(matches) : Longest(matches[i])
        BY DEF LongestInv, LongInv
    <2>2. Len(matches) \in 1 .. Len(matches)
        <3> DEFINE S == [position : Nat, offset : 1 .. MaxDist, length : Nat]
        <3>1. matches \in Seq(S)
            BY DEF LongestInv, HistoryInv, UncollectedInv, SearchInv, MatchesInv
        <3> HIDE DEF S
        <3>2. Len(matches) \in Nat /\ Len(matches) # 0
            BY <3>1, EmptySeq, LenProperties
        <3>3. \A k \in Nat : k # 0 => k \in 1 .. k
            OBVIOUS
        <3>4. QED
            BY <3>2, <3>3
    <2>3. QED
        BY <2>1, <2>2
<1>4. QED
    BY <1>1, <1>2, <1>3, PTL DEF Spec

-----------------------------------------------------------------------------
(* Calls get ahead.                                                        *)

\* A call that is still where it started has found nothing yet and has text left.
AheadInv ==
    phase \notin {"write", "done"} =>
        /\ local.pos >= saved.pos
        /\ local.pos = saved.pos => matches = <<>> /\ saved.pos < Len(data)

LEMMA AheadStep == SearchInv /\ AheadInv /\ phase # "collect" /\ ~Mark /\ [Next]_vars => AheadInv'
<1> SUFFICES ASSUME SearchInv, AheadInv, phase # "collect", ~Mark, [Next]_vars PROVE AheadInv'
    OBVIOUS
<1>1. local \in Locals /\ saved \in Locals /\ local.pos \in Nat /\ saved.pos \in Nat
    BY DEF SearchInv, StateInv, Locals
<1>2. ASSUME data' = data, saved' = saved, local'.pos = local.pos + 1, phase \notin {"write", "done"}
      PROVE  AheadInv'
    <2>1. local.pos >= saved.pos
        BY <1>2 DEF AheadInv
    <2>2. ~(local'.pos = saved'.pos) /\ local'.pos >= saved'.pos
        BY <1>1, <1>2, <2>1
    <2>3. QED
        BY <2>2 DEF AheadInv
<1>3. ASSUME data' = data, saved' = saved, local'.pos = local.pos, matches' = matches, phase \notin {"write", "done"}
      PROVE  AheadInv'
    BY <1>3 DEF AheadInv
<1>4. CASE SkipTail \/ StartChain
    BY <1>1, <1>2, <1>4 DEF SkipTail, StartChain, HasTuple, Searching, text, Locals
<1>5. CASE ExtendChain
    <2>1. data' = data /\ saved' = saved /\ matches' = matches /\ phase \notin {"write", "done"}
        BY <1>5 DEF ExtendChain, HasTuple, Searching, text
    <2>2. local'.pos = local.pos + 1 \/ local'.pos = local.pos
        BY <1>1, <1>5 DEF ExtendChain, Insert, Locals
    <2>3. QED
        BY <1>2, <1>3, <2>1, <2>2
<1>6. CASE GrowChain
    BY <1>3, <1>6 DEF GrowChain, HasTuple, Searching, text
<1>7. CASE Reallocate
    <2>1. phase = "grow" /\ ~Full
        BY <1>7 DEF Reallocate
    <2>2. data' = data /\ saved' = saved /\ matches' = matches
        BY <1>7, <2>1 DEF Reallocate, text
    <2>3. local'.pos = local.pos + 1 \/ local'.pos = local.pos
        BY <1>1, <1>7, <2>1 DEF Reallocate, Insert, Locals
    <2>4. QED
        BY <1>2, <1>3, <2>1, <2>2, <2>3
<1>8. CASE Sync
    BY <1>3, <1>8 DEF Sync, Probing, text
<1>9. CASE Try
    BY <1>3, <1>9 DEF Try, Probing, text
<1>10. CASE Emit
    BY <1>1, <1>2, <1>10 DEF Emit, text, Locals
<1>11. CASE CallSearch
    <2>1. local' = saved /\ saved' = saved /\ data' = data /\ matches' = <<>> /\ ~(saved.pos >= Len(data))
        BY <1>11 DEF CallSearch, SearchDone, text
    <2>2. saved.pos < Len(data)
        BY <1>1, <2>1, SearchIs
    <2>3. QED
        BY <1>1, <2>1, <2>2 DEF AheadInv
<1>12. CASE Return \/ Finish
    BY <1>12 DEF Return, Finish, AheadInv
<1>13. CASE SkipCovered \/ WriteLiteral \/ WriteReference \/ WritePiece
    BY <1>13 DEF SkipCovered, WriteLiteral, WriteReference, WritePiece, Writing, AheadInv
<1>14. CASE UNCHANGED vars
    BY <1>14 DEF vars, text, AheadInv
<1>15. ~MoveChain
    BY DEF MoveChain
<1>16. QED
    BY <1>4, <1>5, <1>6, <1>7, <1>8, <1>9, <1>10, <1>11, <1>12, <1>13, <1>14, <1>15 DEF Next

LEMMA ReturnsAhead ==
    SearchInv /\ AheadInv /\ phase # "collect" /\ ~Mark /\ [Next]_vars
        => [phase # "write" /\ phase' = "write" => saved'.pos > saved.pos]_vars
<1> SUFFICES ASSUME SearchInv, AheadInv, phase # "collect", ~Mark, Next, phase # "write", phase' = "write"
             PROVE  saved'.pos > saved.pos
    OBVIOUS
<1>1. local.pos \in Nat /\ saved.pos \in Nat /\ Len(data) \in Nat
    BY SearchIs DEF SearchInv, StateInv, Locals
<1>2. CASE Return
    <2>1. phase = "search" /\ ~Searching /\ saved' = local
        BY <1>2 DEF Return
    <2>2. CASE local.pos = saved.pos
        <3>1. matches = <<>> /\ saved.pos < Len(data)
            BY <2>1, <2>2 DEF AheadInv
        <3>2. Len(matches) = 0
            BY <3>1
        <3>3. 0 < MaxMatches
            BY SearchAssumption
        <3>4. QED
            BY <2>1, <2>2, <3>1, <3>2, <3>3 DEF Searching
    <2>3. CASE local.pos # saved.pos
        <3>1. local.pos >= saved.pos
            BY <2>1 DEF AheadInv
        <3>2. QED
            BY <1>1, <2>1, <2>3, <3>1
    <2>4. QED
        BY <2>2, <2>3
<1>3. ~SkipTail /\ ~StartChain /\ ~GrowChain /\ ~Emit
    BY DEF SkipTail, StartChain, GrowChain, Emit, HasTuple, Searching
<1>4. ~ExtendChain /\ ~Reallocate
    BY DEF ExtendChain, Reallocate, Insert
<1>5. ~Sync /\ ~Try
    BY DEF Sync, Try, Probing, Break, Advance
<1>6. ~MoveChain /\ ~CallSearch /\ ~SkipCovered /\ ~WriteLiteral /\ ~WriteReference /\ ~WritePiece /\ ~Finish
    BY DEF MoveChain, CallSearch, SkipCovered, WriteLiteral, WriteReference, WritePiece, Finish, Writing
<1>7. QED
    BY <1>2, <1>3, <1>4, <1>5, <1>6 DEF Next

AdvanceInv ==
    /\ UncollectedInv
    /\ ~collected => AheadInv

LEMMA AdvanceStep == AdvanceInv /\ [Next]_vars => AdvanceInv'
<1> SUFFICES ASSUME AdvanceInv, [Next]_vars PROVE AdvanceInv'
    OBVIOUS
<1>1. UncollectedInv'
    BY UncollectedStep DEF AdvanceInv
<1>2. ASSUME ~collected' PROVE AheadInv'
    <2>1. ~collected /\ ~Mark
        BY <1>2, StaysUncollected
    <2>2. SearchInv /\ AheadInv /\ phase # "collect"
        BY <2>1 DEF AdvanceInv, UncollectedInv
    <2>3. QED
        BY <2>1, <2>2, AheadStep
<1>3. QED
    BY <1>1, <1>2 DEF AdvanceInv

LEMMA AdvanceInit == Init => AdvanceInv
<1>1. Init => UncollectedInv
    BY SearchInit DEF Init, UncollectedInv
<1>2. QED
    BY <1>1 DEF Init, AdvanceInv, AheadInv

\* Until chain_data_gc runs for the first time, every call of the search gets
\* ahead: it returns with a position later than the one it was called for.
THEOREM CallsAdvanceUntilCollection ==
    Spec => [][~collected /\ phase # "write" /\ phase' = "write" => saved'.pos > saved.pos]_vars
<1>1. AdvanceInv /\ [Next]_vars
        => [~collected /\ phase # "write" /\ phase' = "write" => saved'.pos > saved.pos]_vars
    <2> SUFFICES ASSUME AdvanceInv, Next, ~collected, phase # "write", phase' = "write"
                 PROVE  [phase # "write" /\ phase' = "write" => saved'.pos > saved.pos]_vars
        OBVIOUS
    <2>1. SearchInv /\ AheadInv /\ phase # "collect"
        BY DEF AdvanceInv, UncollectedInv
    <2>2. ~Mark
        BY DEF Mark
    <2>3. QED
        BY <2>1, <2>2, ReturnsAhead
<1>2. QED
    BY <1>1, AdvanceInit, AdvanceStep, PTL DEF Spec

\* With texts no longer than MaxDist every call of the search gets ahead: such a
\* text is never collected for, so no chain is ever refused a block.
THEOREM ShortTextsAdvance ==
    ASSUME \A input \in Inputs : Len(input) <= MaxDist
    PROVE  Spec => CallsAdvance
<1>1. Init => ShortInv /\ AheadInv
    BY ShortInit, AdvanceInit DEF AdvanceInv, ShortInv
<1>2. ShortInv /\ [Next]_vars => ~Mark
    <2> SUFFICES ASSUME ShortInv, [Next]_vars, Mark PROVE FALSE
        OBVIOUS
    <2>1. ~collected'
        BY ShortStep DEF ShortInv
    <2>2. QED
        BY <2>1 DEF Mark
<1>3. ShortInv /\ AheadInv /\ [Next]_vars => ShortInv' /\ AheadInv'
    BY <1>2, ShortStep, AheadStep DEF ShortInv
<1>4. ShortInv /\ AheadInv /\ [Next]_vars
        => [phase # "write" /\ phase' = "write" => saved'.pos > saved.pos]_vars
    BY <1>2, ReturnsAhead DEF ShortInv
<1>5. QED
    BY <1>1, <1>3, <1>4, PTL DEF Spec, CallsAdvance
=============================================================================
