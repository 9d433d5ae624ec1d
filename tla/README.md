# Dorfbook in TLA+

Dorfbook is a small HTTP server in C++: it simulates a handful of dwarves, serves their
feed and pages, and carries its own allocator, string table, XML parser and gzip writer.
This directory holds TLA+ specifications of the parts whose correctness depends on order:
threads, bytes that arrive in pieces, lists that are relinked under a lock that is given
up in between, rings that wrap, chains that move and are collected while they are walked,
a tree that is linked as its tags come by, and the codes of a compressed stream.

Line numbers are those of `src/*.cpp` in the repository; `PROJECT.json` maps every
definition to the lines it stands for.

## The system

The whole server is one translation unit, `src/build.cpp`. `main()` sets up the world and
three kinds of threads.

```
            accept, timeouts, os_thread_do
 main() ------------------------------------> thread_do_response   (one per connection)
   |                                             |  reads with Socket_Buffer <- recv()
   |                                             |  World_Instance.lock : update_to_now, render_*
   +-> thread_background_world_update (10 s) ----+  Server_Stats.lock   : render_stats
   +-> thread_background_stat_update (1 s) ------+  active_thread_count : atomic
                                                 |  /test/<name> -> test_call -> debug snapshots
                                                 |     -> crc32, gzip_compress -> search_next_matches
                                                 |     -> parse_xml -> Push_Allocator, utf8_encode ...
                                                 |  /allocations -> debug_alloc_get_serial
                                                 |  faces -> svg_find_by_id (loaded by main(): parse_xml)
```

| component | state | operations | hard behaviour | correct when |
|---|---|---|---|---|
| world simulation (`dorf.cpp`) | dwarves' needs, activity, location, life; ring of 128 posts | `world_tick`, `dwarf_do_activity`, `world_post` | two needs compete; ring wraps within a tick; death in the middle of a tick | needs stay in range, none starves the other, the feed tells a life in order and to its end |
| server threads (`main.cpp`) | `World_Instance`, `Server_Stats`, `active_thread_count`, sockets | accept loop, `thread_do_response`, `update_to_now`, two background loops, `handle_kill` | three kinds of threads on two mutexes, failing set-up, the clock | a page is one instant and not stale; a second is simulated once; no socket forgotten; everybody is answered |
| socket buffer (`main.cpp`) | `Socket_Buffer`, the request being read | `buffer_fill_read`, `_peek`, `_read`, `_accept`, `_read_line`, `_read_amount` | any segmentation, pipelined requests, time-outs, limits | requests are cut out of the byte stream in order, nothing lost or doubled; a whole body arrives whole |
| debugging allocator (`debug_alloc.cpp`) | list of live blocks, ring of log entries, serial numbers | `debug_allocate`, `debug_free`, `debug_reallocate`, snapshots, lookup by serial | `realloc()` runs with the lock given up, the log wraps | list = heap, log = window on the newest serials, leak counts exact |
| test dispatch (`test_call.cpp`) | two snapshots, the test's blocks | `test_call`, one function per test | other threads allocate during a test | a test is charged with its own leaks |
| deflate (`gzip/deflate.cpp`) | bit pointer, the token position | `deflate_compress_fixed_block` and the bit writers | code tables joined by position, spliced matches | what an inflater reads back is the input |
| match search (`gzip/compress_search.cpp`) | hash chains in one shared storage | `search_next_matches`, chain growth, garbage collection | storage moves and is collected under a pointer | a match is a match, the longest whose end is in the chains, and no further than the window; the loop ends |
| string table (`string_table.cpp`) | open-addressed table of interned strings | `intern`, `find`, growth | probing, rehash | one id for one string, for ever |
| push allocator, lists (`memory.cpp`) | pages, stream in progress | push, stream, finish, free | a stream moves to another page while it grows | no overlap, contents survive |
| XML, scanner, SVG (`xml.cpp`, `scanner.cpp`, `svg.cpp`) | nodes with parent and sibling links | `parse_xml`, printing, lookup of ids | linking in any nesting order, failure half-way | the tree is the document's |
| UTF-8, CRC32 (`utf.cpp`, `gzip/`) | none | encode, decode, checksum | boundaries between lengths | round trip, reference value |
| page rendering, printer, assets, platform layer | buffers, files, system calls | formatting and thin wrappers | none of their own | |

The hazards, each at its line, are listed in `PROJECT.json` under `hazards` with the
properties that cover them, or the reason why none does.

## Modules

**`World`** is `world_tick`. One action is one iteration of its loop over the dwarves,
`slot` being the loop variable: `TickDwarf` is a live dwarf's iteration (needs, walking,
choice of activity, the posts, the chance to die, in the code's order), `PassOver` a dead
one's. The xorshift series becomes a choice (`announce`, `dies`); names, genders and seeds
are gone.

**`Server`** is what the threads share. `pc` says where each thread is; a thread that
needs a lock has a state before it (`wantWorld`, `wantStats`) and states inside
(`updating`, `advancing`, `rendering`; `scanning`, `drawing`). `update_to_now` is split
where another thread could notice: reading the clock (part of `LockWorld`), `TickWorld`,
`Advance`. A page is rendered in two halves, so that a torn one can be seen. `Accept`,
`Spawn` and `SetupFails` are the accept loop; `SetupFails` covers both ways main() can end
up with a socket and no thread. A round of the statistics sampler is one step, `Sample`, because it
holds its lock throughout. Reading a request is one step with any outcome here,
`ReadRequest` or `HangUp`; `SocketBuffer` looks inside it, as `World` looks inside
`TickWorld`. A client may send request after request for ever. A graph is kept from when it is drawn
to when it is sent.

**`WorldService`** is the promise `Server` implements: the world ages a tick a second and
never runs ahead of the clock; a page shows one instant, no older than its request. The
refinement mapping takes `ticks` for the age of the world and a page for the tick it
shows, or for -1, which no `WorldService` page is, if its two halves differ.

**`SocketBuffer`** is one connection's reading. An action is one iteration of the loops of
`buffer_read_line` (`ScanLine`), `buffer_accept` (`AcceptLineEnd`) and
`buffer_read_amount` (`ReadBody`), each with the `buffer_peek` that may call `recv()`,
which may return any number of the bytes under way, none at the end, or an error. Bytes
are seven letters, one per way the code can treat a byte. `GarbledRead` is what follows a
failed read inside a body: `size` is then -1, which `buffer_peek` takes for unread bytes,
and the outcome is one the build can have: the line is refused or the process dies. A test is
called with `content_length` bytes whatever was read (`AnswerTest`): behind those that
arrived it sees what the fresh `in_buffer` holds, any bytes of `Fresh`.

**`RequestStream`** is what `SocketBuffer` implements: lines are cut off the unread bytes,
a body begins with what follows its head, and the connection may be closed at any time. A body may be
cut short; then exactly the bytes it begins with are gone from the stream and the rest of it is of `Fresh`.
The refinement mapping puts together what has been taken, what is buffered and what is
still on the wire.

**`DebugAlloc`** is the allocator, with `test_call`'s snapshots and the `/allocations`
page as its users. A critical section is a step; a reallocation is three (`TakeOut`,
`Move`, `PutBack`), since the lock is free between them. `fate` is a history variable: what really
became of each serial.

**`DeflateCodes`** writes tokens with the code's tables and reads them with an inflater
written from the format (it is not in the repository: the tests use Python's). `TestCall` runs
the writer inside the gzip test and the inflater on its answer.

**`StringTable`** is the hash table behind `Interned_String`s, one action per call. Strings
are model values, a data pointer is the number of the copy it points at, and the hash is
any function, chosen in `Init`. Moving the entries is part of the `intern()` that finds
the table crowded. Its state after a remainder by zero is `trapped`.

**`Interner`** is what `StringTable` implements: a map from strings to pointers that only
grows. The refinement mapping reads it off the copies.

**`CompressSearch`** is `search_next_matches` with the loop of `deflate_compress_fixed_block`
that calls it. One action is one iteration of a loop: of the positions (`SkipTail`,
`StartChain`, `ExtendChain`, and `Emit` at its end), of a chain's move to a larger block (`GrowChain`,
`Reallocate`), of the garbage collection (`Mark`, then `MoveChain` for each chain that is kept),
of the probes (`Try`) and of `sync_iterators` (`Sync`). `chain_data` is an array of cells with the
cells behind it, so that a walk that runs off its block is seen reading what is there; it is stopped
where the modelled memory ends (`Cell`).
Fresh memory holds any value of `Fresh`; the hash is any function, chosen in `Init`. The
output is kept as what an inflater has made of it so far (`decoded`); the bits are the business
of `DeflateCodes`. `GiveUp` (line 344) is there but never happens: `CallsAdvance`.

**`PushAllocator`** has no state of its own: it is the operators on pages and streams that
`XmlParser` uses for texts and attributes. A pointer is a page and a position, so a slice that
was not moved along with its stream reads other bytes.

**`XmlParser`** is the loop of `parse_xml`. One action is one piece of markup, chosen as it is
read: an opening, empty or closing tag, a text, a tag that is neither closed nor empty
(`BrokenTag`), or something the scanner cannot read (`Refuse`). A node's address is its place in `nodes`. What
the tree should be is read off the list of markup by counting opening and closing
tags, without pointers.

**`SvgIds`** walks such a tree, sorts the ids by the addresses of their interned copies, in
whatever order those lie, and looks them up by bisection. The empty id is in the list, at the null
pointer, but `intern()` keeps no copy of it, so looking it up finds nothing.

**`Utf8`** and **`Crc32`** are functions; a `uint32_t` of the checksum is a set of bits, and its
reference is the remainder of a division of polynomials.

**`TestCall`** puts these together with `DeflateCodes`: each test function of `test_call.cpp`, with the blocks it
leaves on the heap on each return path, and `main()`'s loading of the faces. How the
snapshots find those blocks is the part of `DebugAlloc`.

**`WorldProofs`**, **`ServerProofs`**, **`SocketBufferProofs`**, **`DebugAllocProofs`**,
**`StringTableProofs`**, **`CompressSearchProofs`** and **`TestCallProofs`** hold the theorems about the module
they are named for, the last also those about the modules `TestCall` is put together from. **`ProofBasics`** has
the facts on natural numbers they share.

The modules `MC*` instantiate the others for TLC; `World.tla` and one of the server's runs need no
such module. The operators marked *Fault* stand beside the
definition they distort; they are not used by any specification and are only there to show that the
properties notice.

## Runs

| run | question | instance and why it is enough |
|---|---|---|
| `world_life` | Do needs stay bounded, is either need ever starved, does the feed end with a death? | Two dwarves, so that one can die before, after or during the other's turn; all initial needs below 4 and a limit of 4 in place of 50, which keeps every way the thresholds can be crossed; two slots, so the feed wraps within one tick. Types, needs and the feed are proved for all constants. |
| `socket_buffer` | Does every segmentation give the stream's requests? | Streams of up to two requests with tails of four bytes, every byte kind, two values of fresh memory, one that no client sends; a buffer of two bytes and lines below three, so that every boundary falls inside and between segments; `recv()` fails anywhere. Everything but `ConnectionEnds` is proved for any streams and sizes. |
| `socket_body` | Does a body sent whole arrive whole? | A violation: see the findings. |
| `server_pages` | Are pages one instant and never stale, is every second ticked once, is every socket accounted for, do graphs show the newest samples in order? | Two response threads and the updater: the smallest number where a third can interfere with a wait for the lock; two seconds. Three slots and four samples: the ring wraps and a sample can fall between the two passes over it. `Word` is 16, no multiple of three, like 2^32 and 100. Connections are interchangeable (symmetry; no liveness is checked here). Clients' requests are not bounded. All of it (pages with a clock never set back) is proved for any number of threads, seconds and samples. |
| `server_live` | Is everybody answered, and every connection closed whose client does not send requests for ever, even if the clock is set back? | Two connections, all routes, any number of requests, one second; no samples, since a sample is one step that never keeps its lock; no symmetry. |
| `debug_alloc` | Is the list the heap and the log a window with true entries; are leaks exact? | Two threads and three blocks: a block that is first, inside and last in the list; a log of two and five serials, so that entries are overwritten during a reallocation and a walk. Addresses are interchangeable. All five properties are proved for any number of threads, blocks and entries. |
| `string_table` | Do data pointers stand for strings whatever the hashes; does every probe end? | Four strings, every function into eight hashes, a first table of two slots: it grows twice with strings in it, and probes go round its end. Strings are interchangeable because all hash functions are tried. All three properties are proved for any strings, hashes and first size. |
| `deflate_far` | Are references as far back as they get read back as written? | A violation: see the findings. |
| `compress` | Does the output stand for the text, are the matches the longest whose end is in the chains, are walks over chains the history they stand for, does every loop end? | Every text of eleven letters from two, and texts of 36 that repeat a word of up to seven. Two chains, all tuples in one or mixed by a hash; a window of 6, so that texts are several times as long; references of at most 5, so that matches are spliced; two matches in a batch and three steps for `sync_iterators`, so that both limits are met; 21 cells, the fewest `SearchAssumption` allows, so that the storage is collected, in the long texts several times. Fresh cells hold the smallest and the largest value. `OutputIsText` and `OverrunsOnlyAtLimit` are proved for any texts, hashes and sizes from `CallsAdvance`, and the rest but `Terminates` is proved up to the first collection, `CallsAdvance` included. |
| `compress_gc` | Can chains still be walked after a collection? | A violation: see the findings. |
| `tests` | Is the tree the document's, are ids found, are checksum, codepoints and compressed bits right, is what is printed freed? | Every document of up to seven tags, attributes and texts: three levels, siblings after a closed element, an id twice, an element with two attributes; pages as small as the first text, so that streams move while they grow and while another is open. Messages of two bytes with the corner values, two codepoints at every limit, and three bytes of every class. All lengths with the shortest and the longest distance, all distances up to 16384 with one length, and the corner bytes; one token and the end of the block. All of it but `XmlArrives`, `IdsAreFound`, `CrcIsRemainder` and `RoundTrips` is proved for all documents, codepoints and streams. |
| `xml_leak` | Does the XML test leak nothing? | A violation: see the findings. |

Deadlock is not checked where the system may really stop: a closed connection, a killed
process, a bound reached. `world_life` checks it.

Every property of a passing run has a mutant, a *Fault* operator in place of the
definition, under which TLC finds the property violated.

### Bounds

`MaxClock`, `MaxSamples`, `MaxSerial`, `MaxTokens` and `MaxCollections` end runs of a program
that goes on for ever; they are guards on the action that would go on and occur nowhere
else. `MaxMarkup` bounds a document, `TextLength` and `LongLength` a text, `Beyond` the cells behind
`chain_data` a walk may reach. `TailLength` bounds a client's bytes. `ContentBelow`, `NeedLimit`, `InitialNeeds`,
`PostSlots`, `LineSize`, `DataSize`, `HeadLimit`, `BodyLimit`, `SnapshotCount`, `LogSize`,
`ChainCount`, `DataCount`, `MaxDist`, `MaxSync`, `MaxMatches`, `MaxReference` and `Word` are constants of the program, made small; each is declared with its real value.

### Fairness

`World.FairSpec`: weak fairness of the loop. The updater ticks for ever.

`Server.FairSpec`: weak fairness of main(), of the updater and of each response thread
while it is not waiting for a lock, because threads are scheduled and every wait for the network ends
by the 15-second timeouts `os_socket_set_timeout` sets. Strong fairness for a response thread that waits for a
mutex: `pthread_mutex` promises no order, but nobody re-locks at once. The updater
sleeps ten seconds between rounds, the sampler one, and a response thread goes to the
network, so that the lock is found free again and again. The updater itself is only given
weak fairness for its wait: no property needs more. No fairness for clients, time,
the sampler or the signal: liveness is stated as "or the process was killed". Nor is a client assumed
to stop sending: the loop of `thread_do_response` ends only when a read fails, and so `ConnectionsClosed` is about
the connections that do not read requests for ever.

`CompressSearch.FairSpec`: weak fairness of the whole: one thread runs it and nothing in it
blocks.

`SocketBuffer.FairSpec`: weak fairness, since `recv()` returns within its timeout. Its streams are finite, and
a process that has died counts as an ended connection.

## What is proved

TLAPS checks every statement of the modules named `*Proofs` and of `ProofBasics`. A theorem holds for every value of the
constants that satisfies the assumptions declared with them; where it needs more, it says so.

Most of these components keep data that is walked by a loop, and their invariants say something of
all of it, so the proofs need induction and functions defined by recursion. The provers cannot
instantiate a theorem that takes an operator. `ProofBasics` therefore states induction for sets
(`SetInduction`: a set of naturals with 0 in it and closed under successor is `Nat`) and recursion for
step functions given as values (`RecursionExists`); a proof defines the set of the numbers for which
its claim holds. The recursive functions of the models (`Nth` of the list, `Moved` of the rehash,
`Sum` of a walk's distances, the decoder's `from` and `point`) are shown to be defined that way before anything is said of them.

*World*, for any numbers of dwarves, locations and slots, and any thresholds with
`NeedsAssumption` (the program's 50 and 5 are such):

- `TypeCorrect`: `TypeOK` always holds; in particular the feed's index stays in the ring.
- `NeedsInvariant`, `NeedsAreBounded`: hunger and sleep stay between 0 and half of
  `3 * NeedLimit + 12 - ContentBelow`, 78 in the program. The bound is not inductive: an
  idle dwarf with both needs high would break it. `NeedsInv` says why there is none. While
  a dwarf eats, twice its sleep plus its hunger never grows (three off one, one on each, every
  tick), so when it stops, sleep is at most `MostIdle`, and then it goes to bed
  before anything else. The walk to the table costs one tick, hence the slack `Recovering`
  allows before the dwarf is there.
- `DeathsAreLast` (`DeathIsLastPost`): with the types it is inductive. A post makes every
  other slot one older and takes the place of the oldest (`AgesAfterPost`), so the order of what is left
  in the ring never changes; the dead are passed over, and the death is the last post of its iteration.

*Server*, for any number of connections, seconds and samples:

- `ServerTypes`, `NoSocketForgotten` (`SocketsAccounted`), `ServerExclusive`
  (`WorldExclusive`): an open socket is being set up, has a thread or failed its setup; the holder of
  the lock is the only thread that updates or renders the world. `SetupInv` strengthens the first:
  a connection not yet handed over has no thread.
- `EverySecondOnce` (`TickAccounting`): ticks are ahead of `last_updated` by exactly the
  one tick being booked. It follows from exclusion alone, so it needs nothing of the clock.
- `StatsInvariant` (`StatsInv`), from which come `ServerTypeCorrect` (`TypeOK`) and `GraphShowsHistory`
  (`SeriesIsHistory`). `CountInv`: `active_thread_count` is the number of threads between
  their increment and their decrement, so it cannot fall below zero. `RingInv`: going back from the
  index one finds the newest samples; `render_stats` subtracts in unsigned words and takes the remainder, which is
  the same slot only while the sum does not wrap, hence `2 * SnapshotCount <= Word + 1`, of which the
  program (100 and 2^32) has plenty. `ScaleInv`: no sample exceeds the scale while a graph is drawn, since
  `StatsExclusive` keeps the sampler out between the two passes.
- `ServerInvariant` (`ServerInv` = `WorldExclusive` /\ `SetupInv` /\ `PageInv`) and
  `ServerImplementsService`, under `ClockStepsBack = FALSE`. `PageInv` carries what was
  known when the request was read to the moment the page is complete:
  `asked <= now <= lastUpdated`, and a half-rendered page shows the present tick. Steps
  map one to one: `TickWorld` to `Tick`, `ReadRequest` to `Ask`, `RenderAndUnlock` to
  `Show`, the clock to `Elapse`, and all others to stutters.

The clock assumption is needed: `update_to_now` compares `last_updated` with `time(NULL)`,
and if that has been set back the world is ahead of it until it catches up.

*SocketBuffer*, for any set of streams and any sizes of buffer, line, head and body:

- `SocketInvariant` (`SocketInv`). The buffer is what one `recv()` returned, or -1 and nothing
  (`BufferInv`). What a head has received and what it may still receive are its limit at most
  (`HeadInv`): asking is charged, not getting, so a head gets less than its limit but never more. The line
  being read has neither end nor refused byte in it, and while `buffer_accept` waits for the
  `'\n'` the `'\r'` is next in the buffer (`LineInv`). `FailedInv` says where a failed
  `recv()` can have gone unnoticed: before the first byte of a request line, after a body.
- `SocketTypes` (`TypeOK`) and `FailureIsHiddenByBodies` (`FailedBufferNotReused`) follow.
- `SocketImplementsStream` (`RefinesRequestStream`). What is still to be taken is line, buffer and
  wire in one; `PeekTold` says that a peek moves bytes from the wire to the buffer and loses none.
  A step of `ScanLine` is a stutter; `AcceptLineEnd` takes a line when it has both bytes of its end, `ReadBody`
  takes a body, and whatever gives up is `Close`. Of a body that was cut short the bytes read are the `n` the
  stream gives up, and those behind them are fresh in both.
- `OnlyHopelessLinesRefused` (`NoViableLineRefused`), an action property: the bytes seen when a
  line is refused have a bad byte, no `'\n'` after the `'\r'`, or no end within `LineSize`, wherever
  the segments ended.

*DebugAlloc*, for any number of threads, any finite set of addresses and any length of the log:

- `AllocInvariant` (`AllocInv`). `Chained`: the live blocks that are not being moved are linked from
  `first` on, `prev` and `next` agree, serials fall, and no live block's serial lies between two
  neighbours. That last part makes the list a walk over *all* of them: the walk is bounded by the number of
  blocks because serials differ (`BlocksNumbered`), and it ends only at the smallest. `MotionInv`: a block in
  the middle of a reallocation is out of the list and belongs to one thread, and once `realloc()`
  has returned, its header says who moved it and which serial it had. `LogInv`: a slot's age gives its
  serial (`InOrder`), so a lookup by serial finds one slot or none; each entry tells its
  block's fate, and `nextSerial` and `prevSerial` of a reallocation agree. `TestInv`: the tester's live
  blocks are those it found and those it holds.
- `AllocTypes` (`TypeOK`), `ListIsAlwaysHeap` (`ListIsHeap`), `LogAlwaysTells` (`LogTellsFate`),
  `LeakIsAlwaysExact` (`LeakIsExact`) and the action property `WalkIsAlwaysComplete`
  (`WalkIsComplete`) follow.

*StringTable*, for any finite set of strings, any hash function and any first size above 1:

- `TableInvariant` (`TableInv`). `NeverFull` and the types are not inductive. The table is `Kept`:
  each entry is reached from its hash over taken slots (`Reachable`), no copy is in two slots, an entry has
  its string's hash, and every copy is in the table. Both `intern()` and the rehash put an entry into the first
  free slot from its home, and that keeps all entries reachable. As
  `count` is at most three quarters of the size, probing meets a free slot before it has gone round
  (`FreeSlot`), and a string not met before that slot is not in the table (`FoundOrFree`).
- `TableTypes` (`TypeOK`), `TableIsNeverFull` (`NeverFull`) and `TableImplementsInterner`
  (`RefinesInterner`): growth is a stutter of the map from strings to pointers, a new string extends
  it, a lookup answers by it.

*CompressSearch*, for any texts, hash function, sizes and contents of fresh memory that satisfy
`SearchAssumption`:

- `SearchInvariant` (`SearchInv`), under the hypothesis `CallsAdvance`. Deflate's half is short: a match that is reported repeats the text's bytes
  (`MatchesInv`), copying from `offset` back therefore goes on with the text even where the copy overlaps
  itself (`CopyGoesOn`), and the pieces of a spliced match end where the match ends (`OutputInv`). The
  search's half has to show that a candidate is a position of the text before the one at hand. Chains need
  not be right for that, as each candidate is compared byte by byte: distances are not negative, so a walk never
  comes to a later position, and one that leaves the window is stopped. But within the first `MaxDist`
  positions the window reaches in front of the text, and a wrong distance would lead there. So at the text's
  beginning the storage has to be exact (`YoungInv`): each chain's cells tell its positions and end with
  a terminator (`Told`), blocks do not overlap (`Apart`), and nothing has been collected. The last is an
  amortized bound: a chain has inserted, since it last moved, at least half as many positions as it
  has cells, and a move of `n` cells to a block of `2n` is paid for by `n / 2` of them, each of which pays once
  (`paid`). The storage in use is at most four cells for each, and with fewer than `MaxDist` positions that
  leaves room for one more: `DataCount + 3 >= 4 * MaxDist` (200000 against 128000 in the program).
- `OutputStandsForText` (`OutputIsText`) follows.
- `OutputStandsUntilCollection` and `ShortTextsAreWritten` say the same without the hypothesis, of everything
  written before the first collection and of texts no longer than `MaxDist`, for which there is none.

- `CallsAdvanceUntilCollection` and `ShortTextsAdvance` (`CallsAdvance`): up to the first collection, and with texts
  no longer than `MaxDist` always, each call returns with a later position. A call that is still where it
  began has found nothing and has text left (`AheadInv`), so neither a full batch nor the end of the text can
  end it there; and before a collection no move gives up, because one without room collects first.
- `ChainsAreHistoryUntilCollection` (`ChainsAreHistory`), by `HistoryInv`. `YoungInv` cannot be carried past the first
  window: positions further back drop out of a block when it moves, the last cell kept leads out of the window
  and nothing ends the chain behind it. So a chain's cells from its first to its last *kept* one tell, one by one and newest
  first, all its positions the window still reaches (`Leads`); the last kept cell leads out of the window, which
  stays true as the window moves on; blocks, with their room, do not overlap (`Clear`). A walk that keeps to
  the window ends at that last cell at the latest (`KeptIsHistory`), and a move copies just the cells up to it.
- `OverrunsUntilCollection` and `OverrunsAtLimit` (`OverrunsOnlyAtLimit`): the walk of a probe is some way down its chain's
  kept cells (`OnWalk`), and so is that of `sync_iterators`, whose positions leave the window only by
  the one that is exactly `MaxDist` back. That a search that goes on has a chain to go on with (`LastInv`) does not
  depend on the storage, so under `CallsAdvance` it holds after collections too.
- `TypedUntilCollection` (`TypeOK`): with `LimitsInv`, the head never passes `DataCount` since a move
  without room would have collected.
- `MatchesAreLongest` (`LongestMatch`), by `LongestInv`. Call a position a *rival* of a best match if it is in reach and goes on for
  one byte longer. The search looks only at candidates of its own chain for which the tuple that ends a longer match
  is at the right distance in a second one. A rival is on both chains, at that distance: so it is never
  passed over while the two walks are brought into step (`RivalStays`, `StepsBack`), and once they are,
  the bytes found equal decide. The next position takes over the match less one byte and the chain that ended
  it, which may not be the right one there. So that nothing has been passed over is claimed only
  while the right chain is followed (`Before`, `RightEnd`): once a candidate in step with its end has enough
  equal bytes, the chain is the right one (`SyncedRight`), and without such a candidate nothing is reported.
  The attempt to prove the property without the words on a match's end failed for a good reason; see below.

In `SearchInvariant`, `OutputStandsForText` and `OverrunsAtLimit` `CallsAdvance` is a hypothesis because of `GiveUp`: a call that gives up leaves chains whose newest position is
ahead of where the next call starts, so that a string could be matched with itself. The run `compress`
shows that it never happens there. `SearchAssumption` asks for `TupleSize <= 4` since a splice goes on while
more than three bytes are left (deflate.cpp:250) and a reference must be as long as a tuple.

*TestCall*, for any tags, texts, lists of attributes and lengths of the document, and any input of the
tests that satisfies `TestAssumption` and `XmlAssumption` (codepoints are naturals, a stream consists of
bytes; a text or a value is a sequence of pieces, none of them empty, and a text has at least one):

- `TreeIsDocumentAlways` (`TreeIsDocument`). The property gives each pointer of each node by what the document says:
  its parent is the element that encloses it, `children` and `next` lead to the first and the next
  element with the same parent, `prev` back. It says so only of documents whose tags are complete and close
  what is open, and only of nodes, so it is not inductive. `TreeInv` adds the parser's `Cursor`:
  `parent` is the innermost element that is open where the parser stands, `prev` the last
  of its children so far. What keeps it is arithmetic on markup: the depth never falls below that of an open element
  before its end tag, so a closing tag leads back to the parent of what it closes, and
  one more piece of markup changes neither the places nor the enclosing elements of those before it.
- `CodepointsComeBackAlways` (`CodepointsComeBack`). For one codepoint (`DecodesEncoded`) the digits in base 64 that were put
  into two, three or four bytes are gathered again, whatever follows them; a sequence
  then follows from its end backwards: where each codepoint's bytes begin (`PieceIs`), the decoder returns
  what is left of the sequence.
- `OneForEachBeginningAlways` (`OneForEachBeginning`): a character takes one byte that can begin one
  and others that cannot (`DecodedIs`, `BeginningsAre`), and the decoder goes on right behind it.
- `TestTypes` (`TypeOK`), by way of `PlacesInv`: a push finds room on the newest page or moves to a new one that
  is large enough for what the stream has and gets (`PushIs`), so that no page is overfull, also
  while the values' streams run inside that of the attributes (`ReadAttributesIs`). `children` and `next`
  point to nodes that were put later than the one that points, so the walk over them, from the last
  node back, is well-founded (`WalkExists`, `WalkIs`), and what it finds are nodes with ids that were interned.
- `PrintedXmlIsFreedAlways` (`PrintedXmlIsFreed`): the list that `push_allocator_free` follows has every page
  (`AllIsFreed`), so that nothing is left of a tree that was printed, and the leak reported is 0.

The invariants named `...Inv` are the strengthenings of the proofs; what the runs check is what
follows from them.

Only model-checked:

- liveness (`NeedsAreMet`, `RequestsAnswered`, `ConnectionEnds`, `Terminates` and the like), which is out of the prover's reach, as
  `ENABLED` is;
- `DeflateCodes`, whose claim is about every entry of the code's tables and is a finite check;
- of `CompressSearch`, `CallsAdvance` and the ranges in `TypeOK` after a collection: a chain may then run
  on into cells that are not its own (see the findings), so what bounds the head is not known;
- of `TestCall`, `XmlArrives`, `IdsAreFound` and `CrcIsRemainder`: the first two compare what the printer and the
  lookup make of a tree, by recursion over it and by bisection, with what the document says, given by
  `SelectSeq` and `FlattenSeq`; `CrcIsRemainder` compares two ways to divide polynomials. Each would be an
  induction over what a recursive definition computes.

## Findings

- `socket_body`: `buffer_fill_read` takes the number of bytes it *asks* for off
  `limit_left` (main.cpp:409), not the number it gets. A test's body that comes in small
  segments exhausts the limit, is cut short, and is answered all the same, since the
  result of `buffer_read_amount` is ignored (main.cpp:695-696). The answer has as many bytes as the
  head announced (main.cpp:698-700): those that were not read are what `M_ALLOC` left in `in_buffer`. In the run four
  bytes sent one by one come back as three of them and a fourth the client never sent. The tests expect the body back unchanged
  (test/test_tests.py:4).
- `deflate_far`: the last entry of `distance_buckets` is `{ 16385, 18 }` where the format has
  code 28 (deflate.cpp:144). Matches are found up to 31999 bytes back; those beyond 16384
  are read back as others. The round-trip tests (test/test_gzip.py:38) use shorter data.
- `compress_gc`: the collection writes a chain's terminator at the end of where the chain *was*
  (compress_search.cpp:203), against the comment above it. Walks then run on into what lies there.
  The output stays right, which `compress` checks: every candidate is compared byte by byte, so
  only the quality of the matches suffers.

- `xml_leak`: `test_xml` returns early when the document is refused (test_call.cpp:59) and when it has no
  element (line 65), and frees neither its copy of the input nor the tree. test.py:33 asks of every test that it
  "does not leak memory"; the documents of test/test_xml.py never take these paths.

Noted while modelling, and visible in the model:

- A collection's list of live chains (compress_search.cpp:152) is never freed either; `TestGzip` has it left over
  when there has been a collection, which takes a longer text than test/test_gzip.py compresses.
- After a collection inside a reallocation, `begin` (compress_search.cpp:324) points to where the
  chain was; the copy in line 352 may take other distances. Harmless for the same reason.
- A block keeps distances while they are less than `SEARCH_MAX_DIST` back, but `sync_iterators` goes on from
  a position exactly that far back and reads one cell more (`OverrunsOnlyAtLimit`).
- "This tuple must appear in every longer match" (compress_search.cpp:22-34) does not hold of a search
  that goes on from the last position's match, since it takes the tuple that ended that one (lines 400-404).
  A longer match that overlaps the position may have its end tuple at positions nothing has been put into a chain for
  yet, and is skipped. Only the output's size suffers; `Longest` says which matches are compared.
- `last_match_pos` (compress_search.cpp:231) is never set; a match that would use it is never written.
- `leak_amount` (main.cpp:698) is left uninitialised for an unknown test.
- Codepoints from 0x20000 on are left out without a word (utf.cpp:83).
- A text of an element replaces the one before it (xml.cpp:288), so that of several the last is printed, where
  `py_content` (test/test_xml.py:54-56) would expect the first. No document of the test has two texts in an element, and
  `XmlArrives` is about such documents (`OneTextEach`). `print_xml` prints none.
- An SVG element with an empty id can never be found: `intern_if_not_new` does not find empty strings
  (string_table.cpp:111), so `svg_find_by_id` (svg.cpp:71) returns null before it searches.
- If the faces cannot be parsed, `main()` goes on, and without any element it follows a null root.

## What is not modelled

- Formatting of pages, the printer, assets, icons, response headers and what
  `os_socket_send` returns, which the code ignores: output only.
- The platform layer, except as `main.cpp` sees it. `platform_windows.cpp` likewise.
- A failing `malloc()` or `realloc()`, which the code does not handle; stack traces.
- Inputs: a Content-Length is 0 or one number of at most `TEST_BUFFER_SIZE`; the serial numbers looked up
  are those the `/allocations` page walks through.
- The random series' arithmetic: every outcome is allowed.
- `src/pre/`, which runs when the program is built, but for the contents of the CRC and UTF-8 tables.
- How markup is spelt: names, quotes, entities, comments and white space, with the scanner's functions that
  read them; a piece of text is what it is decoded to. `print_xml`, which only formats.
- The header and footer of gzip, and a destination that is too small, which
  `deflate_compress_fixed_block` does not look at. `deflate_no_compress`, which nobody calls.
- Numbers of 2^32 and more in the input of `test_utf8_encode`, which `accept_int` reads and a cast cuts off.

## Plan

Done, in this order: `World`, `Server` with `WorldService`, `SocketBuffer` with
`RequestStream`, `DebugAlloc`, `DeflateCodes`, `StringTable` with `Interner`; `CompressSearch`;
`PushAllocator`, `XmlParser`, `SvgIds`, `Utf8` and `Crc32` under `TestCall`; the proofs of
`World`, `Server`, `DebugAlloc`, `StringTable`, `SocketBuffer`, of `CompressSearch`'s output, chains
and matches, of the parser's tree and storage, of what the XML test frees and of UTF-8.

Next theorems: `XmlArrives`, with
what a `PushAllocator` stream holds after a push and the children in the document restated without `SelectSeq`.

Left to model: `render_allocation`'s lookup of a single serial from the URL, with serials that have not been
given out.
