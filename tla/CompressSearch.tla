--------------------------- MODULE CompressSearch ---------------------------
(***************************************************************************)
(* The search for recurring strings (src/gzip/compress_search.cpp) and the *)
(* loop of deflate_compress_fixed_block that turns what it finds into      *)
(* literals and references (src/gzip/deflate.cpp).                         *)
(*                                                                         *)
(* Positions with the same tuple hash form a chain.  A chain is its latest *)
(* position and, in chain_data, the distances back from there; new         *)
(* distances are put in front of the old ones, a chain without room moves  *)
(* to a larger block, and when chain_data is full the blocks are compacted *)
(* in place.  One action is one iteration of a loop of the code.  The      *)
(* output is kept as what an inflater makes of it.                         *)
(***************************************************************************)
EXTENDS Integers, Sequences, FiniteSets

CONSTANTS
    Bytes,          \* the letters of a text
    Inputs,         \* the texts to compress
    ChainCount,     \* SEARCH_CHAIN_COUNT                      (4096)
    Hashes,         \* what tuplehash may be: functions from tuples to chains
    DataCount,      \* SEARCH_DATA_COUNT, the cells of chain_data  (200000)
    TupleSize,      \* SEARCH_TUPLE_SIZE                       (3)
    MaxSync,        \* MAX_SYNC_AMOUNT                         (10000)
    MaxDist,        \* SEARCH_MAX_DIST                         (32000)
    Terminator,     \* the largest uint16_t, longer than any distance
    MaxMatches,     \* Count(matches) of the caller            (128)
    MaxReference,   \* the longest reference deflate knows     (258)
    Fresh,          \* what memory may hold before it is written
    Beyond          \* how many cells after chain_data a walk may reach

Chains == 0 .. ChainCount - 1
NoChain == ChainCount
Tuples(t) == { SubSeq(t, i + 1, i + TupleSize) : i \in 0 .. Len(t) - TupleSize }

ASSUME SearchAssumption ==
    /\ Inputs \subseteq Seq(Bytes)
    /\ {ChainCount, DataCount, TupleSize, MaxSync, MaxMatches} \subseteq Nat \ {0}
    /\ MaxReference \in Nat /\ MaxReference > TupleSize /\ TupleSize <= 4
    /\ MaxDist \in Nat \ {0} /\ Terminator \in Nat /\ Terminator > 2 * MaxDist
    /\ DataCount > ChainCount + 3 * MaxDist
    /\ DataCount + 3 >= 4 * MaxDist
    /\ Beyond \in Nat /\ Fresh \subseteq 0 .. Terminator
    /\ \A input \in Inputs, h \in Hashes : \A t \in Tuples(input) : h[t] \in Chains

VARIABLES
    data, hash,     \* the text and the hash function of this behaviour
    chains,         \* Search_Context.chains
    chain_data,     \* Search_Context.chain_data
    saved,          \* the rest of Search_Context, as the last call stored it
    local,          \* search_next_matches' copies of it
    probe,          \* the candidate search_next_matches looks at
    grow,           \* the reallocation of a chain under way
    matches,        \* found and not yet written
    phase,          \* which loop is running
    written,        \* deflate's pos
    left,           \* length_left of a match that is being spliced, or 0
    decoded,        \* what the output stands for
    collected,      \* history: chain_data_gc has run
    limited         \* history: sync_iterators has run out of steps

text == <<data, hash>>
index == <<chains, chain_data>>
output == <<written, left, decoded>>
history == <<collected, limited>>
vars == <<text, index, saved, local, probe, grow, matches, phase, output, history>>

Least(a, b) == IF a < b THEN a ELSE b

\* chain_data and what follows it.
Memory == 0 .. DataCount + Beyond - 1

-----------------------------------------------------------------------------
(* The text and the chains.                                                *)

TupleChain(pos) == hash[SubSeq(data, pos + 1, pos + TupleSize)]

\* The first position that is too far back.
Stop == local.pos - MaxDist

\* How many of the next n bytes are equal at positions a and b.
Strmatch(a, b, n) ==
    CHOOSE k \in 0 .. n :
        /\ \A i \in 1 .. k : data[a + i] = data[b + i]
        /\ k < n => data[a + k + 1] # data[b + k + 1]

Sum(cells, from, n) ==
    LET sum[k \in 0 .. n] == IF k = 0 THEN 0 ELSE sum[k - 1] + cells[from + k - 1]
    IN  sum[n]

\* How many cells a walk reads until it has gone a distance; one that would go
\* on for longer is stopped at the end of Memory.
CellsFor(cells, from, distance) ==
    CHOOSE n \in 0 .. DataCount + Beyond - from :
        /\ Sum(cells, from, n) >= distance \/ n = DataCount + Beyond - from
        /\ n > 0 => Sum(cells, from, n - 1) < distance

\* What a walk reads at cell i; it is stopped at the end of Memory.
Cell(i) == IF i \in Memory THEN chain_data[i] ELSE Terminator

-----------------------------------------------------------------------------
(* search_next_matches, one position.                                      *)

\* Between iterations nothing is being probed.
Idle == [begin |-> 0, iter |-> 0, end |-> NoChain, endPos |-> 0, endIter |-> 0,
         target |-> 0, length |-> 0, matchPos |-> 0, best |-> FALSE, syncs |-> 0]

NoGrowth == [chain |-> NoChain, begin |-> 0, from |-> 0, length |-> 0, live |-> {}]

\* match_pos of a submatch comes from last_match_pos, which nothing sets; it is
\* never written out.
NoPosition == -1

\* Where an iteration stands before its first probe.  When the last match was
\* long enough, one byte less of it is known to match here, and only longer
\* ones are looked for.
FirstProbe(cs, c, begin) ==
    LET longer == local.lastLength - 1 > TupleSize
        end    == IF longer THEN local.lastEnd ELSE NoChain
    IN  [ begin    |-> begin,
          iter     |-> cs[c].data_index + 1,
          end      |-> end,
          endPos   |-> IF end = NoChain THEN 0 ELSE cs[end].base,
          endIter  |-> IF end = NoChain THEN 0 ELSE cs[end].data_index,
          target   |-> IF longer THEN local.lastLength ELSE TupleSize,
          length   |-> IF longer THEN local.lastLength - 1 ELSE 0,
          matchPos |-> IF longer THEN NoPosition ELSE 0,
          best     |-> FALSE,
          syncs    |-> 0 ]

Searching == phase = "search" /\ local.pos < Len(data) /\ Len(matches) < MaxMatches

\* Lines 296-301: too near the end for a tuple.
SkipTail ==
    /\ Searching
    /\ local.pos + TupleSize > Len(data)
    /\ local' = [local EXCEPT !.pos = @ + 1]
    /\ UNCHANGED <<text, index, saved, probe, grow, matches, phase, output, history>>

HasTuple == Searching /\ local.pos + TupleSize <= Len(data)

\* Fault: a chain keeps its distances when its base is out of reach.
OrphanKept(chain) == [chain EXCEPT !.base = local.pos]

Orphan(chain) == [base |-> local.pos, capacity |-> 0, data_index |-> 0]

\* Lines 303-320: a tuple never seen before, or too long ago.
StartChain ==
    /\ HasTuple
    /\ LET c == TupleChain(local.pos)
       IN  /\ local.pos - chains[c].base >= MaxDist
           /\ chains' = [chains EXCEPT ![c] = Orphan(@)]
    /\ local' = [local EXCEPT !.pos = @ + 1]
    /\ UNCHANGED <<text, chain_data, saved, probe, grow, matches, phase, output, history>>

\* Lines 360-407: the distance is stored in front of the others, and the first
\* probe is made ready unless the last match was the best there is.
Insert(c, begin, cs, cells, head) ==
    LET cell     == cs[c].data_index - 1
        pushed   == [cs EXCEPT ![c].capacity = @ - 1, ![c].data_index = cell]
        submatch == local.lastLength - 1
    IN  /\ chains' = pushed
        /\ chain_data' = [cells EXCEPT ![cell] = (local.pos - begin) % (Terminator + 1)]
        /\ IF submatch > TupleSize /\ local.lastBest
           THEN /\ local' = [local EXCEPT !.pos = @ + 1, !.head = head, !.lastLength = submatch]
                /\ phase' = "search"
                /\ UNCHANGED probe
           ELSE /\ local' = [local EXCEPT !.head = head]
                /\ phase' = "probe"
                /\ probe' = FirstProbe(pushed, c, begin)

\* Lines 303-313, 360-362: the chain has room.
ExtendChain ==
    /\ HasTuple
    /\ LET c     == TupleChain(local.pos)
           begin == chains[c].base
       IN  /\ local.pos - begin < MaxDist
           /\ chains[c].capacity > 0
           /\ Insert(c, begin, [chains EXCEPT ![c].base = local.pos], chain_data, local.head)
    /\ UNCHANGED <<text, saved, grow, matches, output, history>>

\* Fault: the walk stops one distance short of the window's end.
OldLengthNear(c, diff) ==
    LET n == CellsFor(chain_data, chains[c].data_index, MaxDist - diff - 1)
    IN  IF n = 0 THEN 1 ELSE n

\* The cells of a chain that are worth copying.
OldLength(c, diff) == CellsFor(chain_data, chains[c].data_index, MaxDist - diff)

\* Lines 322-335: the chain has no room and has to move.  `from` is the pointer
\* begin of the code.
GrowChain ==
    /\ HasTuple
    /\ LET c     == TupleChain(local.pos)
           begin == chains[c].base
       IN  /\ local.pos - begin < MaxDist
           /\ chains[c].capacity = 0
           /\ chains' = [chains EXCEPT ![c].base = local.pos]
           /\ grow' = [chain |-> c, begin |-> begin, from |-> chains[c].data_index,
                       length |-> OldLength(c, local.pos - begin), live |-> {}]
    /\ phase' = "grow"
    /\ UNCHANGED <<text, chain_data, saved, local, probe, matches, output, history>>

\* Fault: blocks grow so fast that two of them do not fit.
BlockSizeLarge(length) == 4 * length

BlockSize(length) == 2 * length

Full == local.head + BlockSize(grow.length) > DataCount

\* Lines 155-193: the distances a chain keeps are those between positions the
\* window still reaches; chains without any lose their storage, and all of them
\* their room.
Mark ==
    /\ phase = "grow"
    /\ Full
    /\ LET cells == [c \in Chains |-> CellsFor(chain_data, chains[c].data_index, chains[c].base - Stop + 1)]
       IN  /\ chains' = [c \in Chains |-> [chains[c] EXCEPT
                            !.capacity = 0, !.data_index = IF cells[c] > 1 THEN @ ELSE 0]]
           /\ grow' = [grow EXCEPT !.live =
                          {[chain |-> c, from |-> chains[c].data_index, length |-> cells[c] - 1] :
                              c \in {d \in Chains : cells[d] > 1}}]
    /\ local' = [local EXCEPT !.head = 1]
    /\ phase' = "collect"
    /\ collected' = TRUE
    /\ UNCHANGED <<text, chain_data, saved, probe, matches, output, limited>>

\* Lines 195-207: the chain with the lowest cells moves down to the head.  Its
\* terminator goes to the end of where it was, not of where it is now.
MoveChain ==
    /\ phase = "collect"
    /\ \E lowest \in grow.live :
        LET old == lowest.from
            n   == lowest.length
            new == local.head
        IN /\ \A other \in grow.live : old <= other.from
           /\ chain_data' = [i \in Memory |->
                  IF i = old + n THEN Terminator
                  ELSE IF i \in new .. new + n - 1 THEN chain_data[i - new + old]
                  ELSE chain_data[i]]
           /\ chains' = [chains EXCEPT ![lowest.chain].data_index = new]
           /\ local' = [local EXCEPT !.head = new + n + 1]
           /\ grow' = [grow EXCEPT !.live = @ \ {lowest}]
    /\ UNCHANGED <<text, saved, probe, matches, phase, output, history>>

\* Line 344: no match is reported and nothing is stored but what already is in
\* the arrays.
GiveUp ==
    /\ local' = saved
    /\ matches' = <<>>
    /\ phase' = "write"
    /\ UNCHANGED <<index, probe>>

\* Lines 337-358: a larger block, with the old distances at its
\* end.  They are copied from where they were before any collection.
Reallocate ==
    /\ (phase = "grow" /\ ~Full) \/ (phase = "collect" /\ grow.live = {})
    /\ LET n     == grow.length
           room  == BlockSize(n) - n
           first == local.head + room
       IN  IF Full THEN GiveUp
           ELSE /\ Insert(grow.chain, grow.begin,
                         [chains EXCEPT ![grow.chain].data_index = first,
                                        ![grow.chain].capacity = room],
                         [i \in Memory |-> IF i \in first .. first + n - 1
                                           THEN chain_data[grow.from + i - first] ELSE chain_data[i]],
                         first + n)
                /\ UNCHANGED matches
    /\ grow' = NoGrowth
    /\ UNCHANGED <<text, saved, output, history>>

-----------------------------------------------------------------------------
(* The probes of one position (lines 409-458).                             *)

Probing == phase = "probe"

\* Break: lines 460-471 come next.
Break(p) == probe' = p /\ phase' = "emit"

\* How far the end iterator is ahead of where it has to be.
Gap == (probe.endPos - probe.begin) - (probe.target - TupleSize)

InSync == probe.end = NoChain \/ (Gap = 0 /\ probe.syncs < MaxSync)

\* One step of sync_iterators: the iterator that is ahead moves back.
Sync ==
    /\ Probing
    /\ ~InSync
    /\ LET stepped == IF Gap < 0
                      THEN [probe EXCEPT !.begin = @ - Cell(probe.iter),
                                         !.iter = @ + 1, !.syncs = @ + 1]
                      ELSE [probe EXCEPT !.endPos = @ - Cell(probe.endIter),
                                         !.endIter = @ + 1, !.syncs = @ + 1]
       IN  IF probe.syncs = MaxSync THEN Break(probe)
           ELSE IF stepped.begin < Stop \/ stepped.endPos < Stop THEN Break(stepped)
           ELSE probe' = stepped /\ UNCHANGED phase
    /\ limited' = (limited \/ probe.syncs = MaxSync)
    /\ UNCHANGED <<text, index, saved, local, matches, grow, output, collected>>

InReach(begin) == local.pos - begin < MaxDist

\* Lines 456-458: on to the previous position of the begin chain.
Advance(p) ==
    LET begin == p.begin - Cell(p.iter)
        next  == [p EXCEPT !.begin = begin, !.iter = @ + 1, !.syncs = 0]
    IN  IF InReach(begin)
        THEN probe' = next /\ UNCHANGED phase
        ELSE Break(next)

\* Fault: a match has to get two bytes longer.
LongerThanByTwo(n) == n + 2

LongerThan(n) == n + 1

\* Lines 417-454: compare, keep the longest, and look for the tuple one past it.
Try ==
    /\ Probing
    /\ InSync
    /\ LET most  == Len(data) - local.pos
           n     == Strmatch(local.pos, probe.begin, most)
           found == [probe EXCEPT !.length = n, !.matchPos = probe.begin]
       IN  IF n < probe.target THEN Advance(probe)
           ELSE IF n = most THEN Break([found EXCEPT !.best = TRUE])
           ELSE LET end == TupleChain(local.pos + n - TupleSize + 1)
                IN  IF local.pos - chains[end].base >= MaxDist
                    THEN Break([found EXCEPT !.best = TRUE])
                    ELSE Advance([found EXCEPT !.end = end,
                                               !.endPos = chains[end].base,
                                               !.endIter = chains[end].data_index,
                                               !.target = LongerThan(n)])
    /\ UNCHANGED <<text, index, saved, local, matches, grow, output, history>>

\* Lines 460-471: matches inside the last one are not reported again.
Emit ==
    /\ phase = "emit"
    /\ matches' = IF probe.length >= TupleSize /\ probe.length >= local.lastLength
                  THEN Append(matches, [position |-> local.pos,
                                        offset   |-> local.pos - probe.matchPos,
                                        length   |-> probe.length])
                  ELSE matches
    /\ local' = [local EXCEPT !.pos = @ + 1, !.lastEnd = probe.end,
                              !.lastLength = probe.length, !.lastBest = probe.best]
    /\ probe' = Idle
    /\ phase' = "search"
    /\ UNCHANGED <<text, index, saved, grow, output, history>>

\* Lines 474-482: the matches are full or the text is at its end.
Return ==
    /\ phase = "search"
    /\ ~Searching
    /\ saved' = local
    /\ phase' = "write"
    /\ UNCHANGED <<text, index, local, probe, matches, grow, output, history>>

-----------------------------------------------------------------------------
(* deflate_compress_fixed_block.                                           *)

Writing == phase = "write"

\* What an inflater appends for a reference: length bytes, one after the other,
\* from offset bytes before the end.  Nothing, if the reference is not a legal one.
Inflate(out, offset, length) ==
    IF offset \in 1 .. Least(Len(out), MaxDist) /\ length \in TupleSize .. MaxReference
    THEN out \o [ i \in 1 .. length |-> out[Len(out) - offset + 1 + ((i - 1) % offset)] ]
    ELSE out

\* Fault: the search goes on at the end of the text.
SearchDoneLate(pos) == pos > Len(data)

SearchDone(pos) == pos >= Len(data)

\* Lines 231-233: search again until the text is done.
CallSearch ==
    /\ Writing
    /\ matches = <<>>
    /\ ~SearchDone(saved.pos)
    /\ local' = saved
    /\ phase' = "search"
    /\ UNCHANGED <<text, index, saved, probe, matches, grow, output, history>>

Covered(match) == written > match.position

\* Lines 237-238: what is already written covers the match's start.
SkipCovered ==
    /\ Writing
    /\ matches # <<>> /\ left = 0
    /\ Covered(Head(matches))
    /\ matches' = Tail(matches)
    /\ UNCHANGED <<text, index, saved, local, probe, phase, grow, output, history>>

\* Lines 240-243 before a match, 263-266 after the last one.
WriteLiteral ==
    /\ Writing
    /\ left = 0
    /\ IF matches # <<>> THEN written < Head(matches).position
       ELSE SearchDone(saved.pos) /\ written < Len(data)
    /\ decoded' = Append(decoded, data[written + 1])
    /\ written' = written + 1
    /\ UNCHANGED <<text, index, saved, local, probe, matches, phase, grow, left, history>>

AtMatch(match) == ~Covered(match) /\ ~ written < match.position

\* Lines 245-248.
WriteReference ==
    /\ Writing
    /\ matches # <<>> /\ left = 0
    /\ LET match == Head(matches)
       IN  /\ AtMatch(match)
           /\ match.length <= MaxReference
           /\ decoded' = Inflate(decoded, match.offset, match.length)
           /\ written' = written + match.length
    /\ matches' = Tail(matches)
    /\ UNCHANGED <<text, index, saved, local, probe, phase, grow, left, history>>

\* Fault: the last piece is written however short it is.
MorePiecesAny(n) == n > 0

MorePieces(n) == n > 3

\* Lines 250-260: one piece of a match that is too long for a reference; a rest
\* of three bytes or less is left for literals or later matches.
WritePiece ==
    /\ Writing
    /\ matches # <<>>
    /\ LET match == Head(matches)
           todo  == IF left = 0 THEN match.length ELSE left
           piece == Least(todo, MaxReference)
       IN  /\ left > 0 \/ (AtMatch(match) /\ match.length > MaxReference)
           /\ decoded' = Inflate(decoded, match.offset, piece)
           /\ written' = written + piece
           /\ IF MorePieces(todo - piece)
              THEN left' = todo - piece /\ UNCHANGED matches
              ELSE left' = 0 /\ matches' = Tail(matches)
    /\ UNCHANGED <<text, index, saved, local, probe, grow, phase, history>>

\* Lines 268-273.
Finish ==
    /\ Writing
    /\ matches = <<>>
    /\ SearchDone(saved.pos) /\ written >= Len(data)
    /\ phase' = "done"
    /\ UNCHANGED <<text, index, saved, local, probe, matches, grow, output, history>>

-----------------------------------------------------------------------------
\* init_search_context leaves a new chain's index and capacity unset, and the
\* cells but the first.
Init ==
    /\ data \in Inputs
    /\ hash \in Hashes
    /\ chains = [c \in Chains |-> [base |-> -MaxDist, capacity |-> 0, data_index |-> DataCount]]
    /\ \E fresh \in Fresh : chain_data = [i \in Memory |-> IF i = 0 THEN Terminator ELSE fresh]
    /\ saved = [pos |-> 0, head |-> 1, lastEnd |-> NoChain, lastLength |-> 0, lastBest |-> FALSE]
    /\ local = saved
    /\ probe = Idle /\ grow = NoGrowth
    /\ matches = <<>>
    /\ phase = "write"
    /\ written = 0 /\ left = 0
    /\ decoded = <<>>
    /\ collected = FALSE /\ limited = FALSE

Next ==
    \/ SkipTail \/ StartChain \/ ExtendChain
    \/ GrowChain \/ Mark \/ MoveChain \/ Reallocate
    \/ Sync \/ Try \/ Emit \/ Return
    \/ CallSearch \/ SkipCovered \/ WriteLiteral \/ WriteReference \/ WritePiece \/ Finish

Spec == Init /\ [][Next]_vars

\* One thread runs the compression and nothing can block it.
FairSpec == Spec /\ WF_vars(Next)

-----------------------------------------------------------------------------
LocalType == [pos : Nat, head : 1 .. DataCount, lastEnd : 0 .. NoChain,
              lastLength : Nat, lastBest : BOOLEAN]

\* Chains stay inside chain_data, and every distance fits its cell.
TypeOK ==
    /\ data \in Seq(Bytes) /\ hash \in Hashes
    /\ chains \in [Chains -> [base : -MaxDist .. Len(data), capacity : 0 .. DataCount,
                               data_index : 0 .. DataCount]]
    /\ chain_data \in [Memory -> 0 .. Terminator]
    /\ saved \in LocalType /\ local \in LocalType
    /\ matches \in Seq([position : Nat, offset : Int, length : Nat]) /\ Len(matches) <= MaxMatches
    /\ phase \in {"search", "grow", "collect", "probe", "emit", "write", "done"}
    /\ written \in 0 .. Len(data) /\ left \in 0 .. Len(data)
    /\ decoded \in Seq(Bytes)
    /\ collected \in BOOLEAN /\ limited \in BOOLEAN

\* What has been written stands for exactly the text up to deflate's position,
\* whatever the tuples' hashes, however matches overlap, are cut into batches
\* or are spliced, and even after a collection: every reference is legal,
\* reaches back into what is already there and repeats the right bytes.
OutputIsText ==
    /\ decoded = SubSeq(data, 1, written)
    /\ phase = "done" => decoded = data

\* The positions a walk over chain c comes by before it leaves the window.
Visited(c) ==
    LET first == chains[c].data_index
        n     == CellsFor(chain_data, first, chains[c].base - Stop)
    IN  { chains[c].base - Sum(chain_data, first, k) : k \in 1 .. n - 1 }

Occurrences(c) == { q \in Stop + 1 .. chains[c].base - 1 : q >= 0 /\ TupleChain(q) = c }

WalksAreHistory == \A c \in Chains : chains[c].base > Stop => Visited(c) = Occurrences(c)

\* As long as nothing has been collected, walking a chain visits exactly the
\* earlier positions of its tuples the window reaches, newest first: none is
\* lost or doubled when a chain moves to a larger block, and no walk runs on
\* into another chain's block or into cells nobody has written.
ChainsAreHistory ==
    phase = "search" /\ local.pos + TupleSize <= Len(data) /\ ~collected => WalksAreHistory

\* compress_search.cpp:202: "The chains always end with a terminator": what the
\* collection keeps can be walked like before.
ChainsSurviveCollection ==
    phase = "search" /\ local.pos + TupleSize <= Len(data) /\ collected => WalksAreHistory

\* The cells of a chain: as far as a walk from its base through the window goes.
OwnCells(c) ==
    LET first == chains[c].data_index
    IN  first .. first + CellsFor(chain_data, first, MaxDist) - 1

\* A search that goes on from the last match has a chain to go on with (line 404
\* follows last_end_chain without looking).  A probe reads the cells of the chain
\* it walks and no others, except at one place: blocks are cut where they reach MaxDist back (`< SEARCH_MAX_DIST`,
\* line 330), while sync_iterators still goes on from a position exactly MaxDist
\* back (`a_pos < 0`, line 101) and reads the cell after the block.
OverrunsOnlyAtLimit ==
    /\ local.lastLength - 1 > TupleSize /\ ~local.lastBest => local.lastEnd # NoChain
    /\ phase = "probe" /\ ~collected =>
          /\ \/ probe.iter \in OwnCells(TupleChain(local.pos))
             \/ probe.begin = local.pos - MaxDist
          /\ \/ probe.end = NoChain
             \/ probe.endIter \in OwnCells(probe.end)
             \/ probe.endPos = local.pos - MaxDist

\* No earlier position within reach goes on for one byte longer, as long as the
\* tuple that would end there is in the chains by then.
Longest(m) ==
    m.position + m.length < Len(data) =>
        \A q \in 0 .. m.position - 1 :
            m.position - q < MaxDist /\ q + m.length < m.position + TupleSize =>
                \E i \in 1 .. m.length + 1 : data[q + i] # data[m.position + i]

\* A match that is reported is the longest there is within reach, though most
\* candidates are skipped by looking only where the tuple one past the best
\* match so far is at the right distance.  "This tuple must appear in every
\* longer match" (lines 22-34), but a search that goes on from the last
\* position's match takes the tuple that ended that one (lines 400-404), and a
\* longer match that overlaps its copy may have it where nothing has been put
\* into a chain yet: such matches are skipped, and nothing is said of them.
LongestMatch ==
    phase = "search" /\ matches # <<>> /\ ~collected /\ ~limited => Longest(matches[Len(matches)])

\* Every call of the search gets ahead, so that the loop that calls it ends: a
\* collection always makes enough room for the chain that asked for it.
CallsAdvance ==
    [][ phase # "write" /\ phase' = "write" => saved'.pos > saved.pos ]_vars

\* Compression ends.
Terminates == <>(phase = "done")
=============================================================================
