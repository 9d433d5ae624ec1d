----------------------------- MODULE DebugAlloc -----------------------------
(***************************************************************************)
(* The debugging allocator of src/debug_alloc.cpp: every block carries a   *)
(* header in a doubly linked list of live blocks, and every allocation has *)
(* a copy of its header in a ring of log entries, found by serial number.  *)
(* Threads allocate, free and reallocate; debug_reallocate gives up the    *)
(* lock while it calls realloc().  test_call() (src/test_call.cpp) counts  *)
(* what a test leaks by comparing two snapshots of the list, and           *)
(* render_allocations() (src/main.cpp) walks the log from the newest entry *)
(* down, taking the lock once per entry.                                   *)
(*                                                                         *)
(* A critical section is one step.  Types, sizes, source locations and     *)
(* stack traces are left out; MaxSerial bounds a run.  A block is freed or *)
(* reallocated at most once (the code asserts it), and a test leaves alone *)
(* what was there before it, as the test functions do.                     *)
(***************************************************************************)
EXTENDS Integers, FiniteSets

CONSTANTS
    Threads,
    Tester,         \* the thread that runs test_call()
    Addresses,      \* where malloc() may put a block
    Root,           \* &g_debug_memory.root
    Null,           \* a null pointer
    LogSize,        \* g_debug_memory.log_size                (100000)
    MaxSerial       \* bound on the serial numbers of a run

ASSUME ThreadsAssumption == Tester \in Threads
ASSUME AddressesAssumption ==
    /\ IsFiniteSet(Addresses)
    /\ Root \notin Addresses /\ Null \notin Addresses /\ Root # Null
ASSUME LogAssumption == LogSize \in Nat \ {0} /\ MaxSerial \in Nat

VARIABLES
    heap,           \* the header at each address, Free where there is no block
    first,          \* g_debug_memory.root.next
    serial,         \* g_debug_memory.serial
    log, logIndex,  \* g_debug_memory.log and .log_index
    moving,         \* per thread: the realloc under way, if any
    test,           \* test_call: its first snapshot and what the test holds
    page,           \* render_allocations: the serial it lists next
    fate            \* history: what became of each serial

vars == <<heap, first, serial, log, logIndex, moving, test, page, fate>>

-----------------------------------------------------------------------------
Free == [state |-> "free", serial |-> 0, thread |-> Null, prevSerial |-> 0,
         prev |-> Null, next |-> Null]
NoEntry == [state |-> "none", serial |-> 0, thread |-> Null, prevSerial |-> 0, nextSerial |-> 0]

Header(s, t, before) ==
    [state |-> "allocated", serial |-> s, thread |-> t, prevSerial |-> before,
     prev |-> Null, next |-> Null]

\* What the log keeps of a header.  Only log entries ever get a next_serial.
Entry(h) == [state |-> h.state, serial |-> h.serial, thread |-> h.thread,
             prevSerial |-> h.prevSerial, nextSerial |-> 0]

Still == [from |-> Null, at |-> Null, serial |-> 0]
NoTest == [running |-> FALSE, before |-> {}, held |-> {}]
NoWalk == [walking |-> FALSE, next |-> 0]

-----------------------------------------------------------------------------
(* The list of live blocks.                                                *)

\* Fault: the old first block's prev is not set.
LinkHalf(h, a, header) ==
    [x \in Addresses |-> IF x = a THEN [header EXCEPT !.prev = Root, !.next = first] ELSE h[x]]

\* The heap with a block's header put in front of the list.
Linked(h, a, header) ==
    [x \in Addresses |->
        CASE x = a -> [header EXCEPT !.prev = Root, !.next = first]
          [] x # a /\ x = first -> [h[x] EXCEPT !.prev = a]
          [] OTHER -> h[x]]

\* The heap and the list's first block without the one at a, whose own
\* pointers stay as they are.
UnlinkedHeap(a) ==
    [x \in Addresses |->
        CASE x # a /\ x = heap[a].prev -> [heap[x] EXCEPT !.next = heap[a].next]
          [] x # a /\ x = heap[a].next -> [heap[x] EXCEPT !.prev = heap[a].prev]
          [] OTHER -> heap[x]]

UnlinkedFirst(a) == IF heap[a].prev = Root THEN heap[a].next ELSE first

\* The n-th block of the list, the newest first, as a traversal finds it.
Nth[n \in 0 .. Cardinality(Addresses)] ==
    IF n = 0 THEN first
    ELSE IF Nth[n - 1] = Null THEN Null ELSE heap[Nth[n - 1]].next

Listed == { Nth[n] : n \in 0 .. Cardinality(Addresses) } \ {Null}

-----------------------------------------------------------------------------
(* The log.                                                                *)

\* Fault: an index below zero is not wrapped around.
LogIndexNoWrap(s, newest, index) == index - (newest - s)

\* Where the log keeps serial s, given the newest serial and its index.
LogIndexOf(s, newest, index) ==
    LET i == index - (newest - s)
    IN  IF i < 0 THEN i + LogSize ELSE i

\* unsafe_debug_alloc_get_serial: the indices of s's entry, one or none.
Lookup(s, newest, index, entries) ==
    { i \in {LogIndexOf(s, newest, index)} : s # 0 /\ i >= 0 /\ entries[i].serial = s }

InLog(s) == Lookup(s, serial, logIndex, log)

\* The log with another entry for s, as long as it has one.
Rewritten(s, entry) ==
    [i \in DOMAIN log |-> IF i \in InLog(s) THEN entry ELSE log[i]]

\* Fault: the ring does not wrap around.
NextIndexNoWrap == logIndex + 1

NextIndex == (logIndex + 1) % LogSize

\* Numbering and logging a new header, and telling its predecessor, if any.
Enter(a, header) ==
    LET new == Entry(header)
        index == NextIndex
        entries == [log EXCEPT ![index] = new]
    IN  /\ serial' = new.serial
        /\ logIndex' = index
        /\ heap' = Linked(heap, a, header)
        /\ first' = a
        /\ log' = [i \in DOMAIN entries |->
                    IF i \in Lookup(new.prevSerial, new.serial, index, entries)
                    THEN [entries[i] EXCEPT !.nextSerial = new.serial]
                    ELSE entries[i]]

-----------------------------------------------------------------------------
(* The allocator's operations.                                             *)

InMotion == {moving[t].at : t \in Threads}

\* What the program makes a thread free or reallocate: a live block that is
\* not being reallocated.  While a test runs it keeps to its own blocks and
\* nobody else touches its thread's.
MayTouch(t, a) ==
    /\ moving[t] = Still
    /\ heap[a].state = "allocated"
    /\ a \notin InMotion
    /\ test.running => IF t = Tester THEN a \in test.held ELSE heap[a].thread # Tester

\* debug_allocate
Allocate(t, a) ==
    /\ moving[t] = Still
    /\ serial < MaxSerial
    /\ heap[a] = Free
    /\ Enter(a, Header(serial + 1, t, 0))
    /\ fate' = [fate EXCEPT ![serial + 1] = "live"]
    /\ test' = IF t = Tester /\ test.running THEN [test EXCEPT !.held = @ \cup {a}] ELSE test
    /\ UNCHANGED <<moving, page>>

\* Fault: the entry is copied before the header is marked as freed.
FreedEntryEarly(a) == Entry(heap[a])

FreedEntry(a) == Entry([heap[a] EXCEPT !.state = "freed"])

\* debug_free
Release(t, a) ==
    /\ MayTouch(t, a)
    /\ heap' = [UnlinkedHeap(a) EXCEPT ![a] = Free]
    /\ first' = UnlinkedFirst(a)
    /\ log' = Rewritten(heap[a].serial, FreedEntry(a))
    /\ fate' = [fate EXCEPT ![heap[a].serial] = "freed"]
    /\ test' = [test EXCEPT !.held = @ \ {a}]
    /\ UNCHANGED <<serial, logIndex, moving, page>>

\* debug_reallocate, up to the first unlock: the block leaves the list.
TakeOut(t, a) ==
    /\ MayTouch(t, a)
    /\ heap' = UnlinkedHeap(a)
    /\ first' = UnlinkedFirst(a)
    /\ log' = Rewritten(heap[a].serial, Entry(heap[a]))
    /\ moving' = [moving EXCEPT ![t] = [from |-> a, at |-> a, serial |-> heap[a].serial]]
    /\ UNCHANGED <<serial, logIndex, test, page, fate>>

\* realloc() moves the block, or not, and the header is filled in again.
Move(t, b) ==
    LET a == moving[t].from
    IN  /\ a # Null
        /\ b = a \/ heap[b] = Free
        /\ heap' = [heap EXCEPT ![a] = Free,
                                ![b] = [heap[a] EXCEPT !.thread = t, !.prevSerial = heap[a].serial]]
        /\ moving' = [moving EXCEPT ![t].from = Null, ![t].at = b]
        /\ test' = IF a \in test.held THEN [test EXCEPT !.held = (@ \ {a}) \cup {b}] ELSE test
        /\ UNCHANGED <<first, serial, log, logIndex, page, fate>>

\* The second critical section: a new serial, back in the list and in the log.
PutBack(t) ==
    LET a == moving[t].at
    IN  /\ moving[t].from = Null /\ a # Null
        /\ serial < MaxSerial
        /\ Enter(a, [heap[a] EXCEPT !.serial = serial + 1])
        /\ moving' = [moving EXCEPT ![t] = Still]
        /\ fate' = [fate EXCEPT ![moving[t].serial] = "moved", ![serial + 1] = "live"]
        /\ UNCHANGED <<test, page>>

-----------------------------------------------------------------------------
(* Their users.                                                            *)

\* Fault: the snapshot takes every thread's blocks.
SnapshotOfAll == Listed

\* debug_thread_memory_snapshot
Snapshot == { a \in Listed : heap[a].thread = Tester }

BeginTest ==
    /\ ~test.running
    /\ moving[Tester] = Still
    /\ test' = [running |-> TRUE, before |-> Snapshot, held |-> {}]
    /\ UNCHANGED <<heap, first, serial, log, logIndex, moving, page, fate>>

\* debug_snapshot_new_allocations compares pointers.
Leaked == Snapshot \ test.before

EndTest ==
    /\ test.running
    /\ moving[Tester] = Still
    /\ test' = NoTest
    /\ UNCHANGED <<heap, first, serial, log, logIndex, moving, page, fate>>

\* render_allocations reads the newest serial without the lock.
BeginWalk ==
    /\ ~page.walking
    /\ page' = [walking |-> TRUE, next |-> serial]
    /\ UNCHANGED <<heap, first, serial, log, logIndex, moving, test, fate>>

\* One debug_alloc_get_serial: the page gets another line or is complete.
Walk ==
    /\ page.walking
    /\ page' = IF InLog(page.next) = {}
               THEN NoWalk
               ELSE [page EXCEPT !.next = @ - 1]
    /\ UNCHANGED <<heap, first, serial, log, logIndex, moving, test, fate>>

Init ==
    /\ heap = [a \in Addresses |-> Free]
    /\ first = Null
    /\ serial = 0
    /\ log = [i \in 0 .. LogSize - 1 |-> NoEntry]
    /\ logIndex = 0
    /\ moving = [t \in Threads |-> Still]
    /\ test = NoTest
    /\ page = NoWalk
    /\ fate = [s \in 1 .. MaxSerial |-> "none"]

Next ==
    \/ \E t \in Threads :
        \/ \E a \in Addresses : Allocate(t, a) \/ Release(t, a) \/ TakeOut(t, a) \/ Move(t, a)
        \/ PutBack(t)
    \/ BeginTest \/ EndTest
    \/ BeginWalk \/ Walk

Spec == Init /\ [][Next]_vars

-----------------------------------------------------------------------------
(* Properties                                                              *)

\* Every variable keeps to its range, the log's index included.
TypeOK ==
    /\ DOMAIN heap = Addresses
    /\ \A a \in Addresses :
        /\ heap[a].state \in {"free", "allocated"}
        /\ heap[a].serial \in 0 .. serial
        /\ heap[a].prev \in Addresses \cup {Root, Null}
        /\ heap[a].next \in Addresses \cup {Null}
    /\ first \in Addresses \cup {Null}
    /\ serial \in 0 .. MaxSerial
    /\ logIndex \in 0 .. LogSize - 1
    /\ DOMAIN log = 0 .. LogSize - 1
    /\ test.held \subseteq Addresses

\* The list holds the live blocks and no others, the newest first, and can be
\* walked both ways: unlinking a block for realloc() never strands another.
ListIsHeap ==
    /\ Listed = { a \in Addresses : heap[a].state = "allocated" /\ a \notin InMotion }
    /\ \A a \in Listed :
        /\ IF a = first THEN heap[a].prev = Root
           ELSE heap[a].prev \in Listed /\ heap[heap[a].prev].next = a
        /\ heap[a].next # Null => heap[heap[a].next].serial < heap[a].serial

\* The log finds exactly the last LogSize serials.
LogIsWindow ==
    \A s \in 1 .. serial : InLog(s) # {} <=> s > serial - LogSize

\* The log is a window on the newest serials.  Whatever threads did in between,
\* the entry of a serial says whether it is live, freed or reallocated, and the
\* two ends of a reallocation agree.
LogTellsFate ==
    /\ LogIsWindow
    /\ \A s \in 1 .. serial : \A i \in InLog(s) :
            /\ log[i].state = "freed" <=> fate[s] = "freed"
            /\ log[i].nextSerial # 0 <=> fate[s] = "moved"
            /\ \A j \in InLog(log[i].nextSerial) : log[j].prevSerial = s

\* A test is charged with what it allocated and still holds, and with nothing
\* that other threads or earlier requests did.
LeakIsExact == test.running /\ moving[Tester] = Still => Leaked = test.held

\* The page of allocations ends where the log does: nothing the log still has
\* when the page is complete was left out below its first line.
WalkIsComplete ==
    [][ page.walking /\ ~page'.walking =>
            page.next = 0 \/ page.next <= serial - LogSize ]_vars
=============================================================================
