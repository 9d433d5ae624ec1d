-------------------------- MODULE DebugAllocProofs --------------------------
(***************************************************************************)
(* Proofs about DebugAlloc.tla, for any number of threads, addresses and   *)
(* log entries: the list, the log and a test's leaks.                      *)
(*                                                                         *)
(* The invariant has four parts.  The list is a chain of the live blocks   *)
(* by falling serial; a block that is being reallocated belongs to one     *)
(* thread; the log's slots hold the newest serials in order, each with the *)
(* fate of its block; and a test's thread has exactly the blocks the test  *)
(* found and those it holds.                                               *)
(***************************************************************************)
EXTENDS DebugAlloc, ProofBasics, FiniteSetTheorems

-----------------------------------------------------------------------------
(* The inductive invariant.                                                *)

Serials == 1 .. serial
Live == { a \in Addresses : heap[a].state = "allocated" /\ a \notin InMotion }

Headers == [state : {"free", "allocated"}, serial : Nat, thread : Threads \cup {Null},
            prevSerial : Nat, prev : Addresses \cup {Root, Null}, next : Addresses \cup {Null}]
Entries == [state : {"none", "allocated", "freed"}, serial : Nat, thread : Threads \cup {Null},
            prevSerial : Nat, nextSerial : Nat]
Fates == {"none", "live", "freed", "moved"}

Types ==
    /\ heap \in [Addresses -> Headers]
    /\ first \in Addresses \cup {Null}
    /\ serial \in 0 .. MaxSerial
    /\ log \in [0 .. LogSize - 1 -> Entries]
    /\ logIndex \in 0 .. LogSize - 1
    /\ moving \in [Threads -> [from : Addresses \cup {Null}, at : Addresses \cup {Null}, serial : Nat]]
    /\ test \in [running : BOOLEAN, before : SUBSET Addresses, held : SUBSET Addresses]
    /\ page \in [walking : BOOLEAN, next : 0 .. serial]
    /\ fate \in [1 .. MaxSerial -> Fates]

\* Every block has a serial of its own.
BlocksNumbered ==
    /\ \A a \in Addresses : heap[a].serial \in 0 .. serial
    /\ \A a \in Addresses : heap[a].state = "allocated" => heap[a].serial # 0
    /\ \A a, b \in Addresses :
        heap[a].state = "allocated" /\ heap[b].state = "allocated" /\ heap[a].serial = heap[b].serial
            => a = b

\* The blocks in L are linked from f on, in the order of their serials and
\* without a gap.
Chained(h, f, L) ==
    /\ f \in L \cup {Null}
    /\ \A a \in L :
        /\ f # Null /\ h[a].serial <= h[f].serial
        /\ h[a].next \in L \cup {Null}
        /\ h[a].next # Null => h[h[a].next].prev = a /\ h[h[a].next].serial < h[a].serial
        /\ h[a].prev \in L \cup {Root}
        /\ h[a].prev = Root <=> a = f
        /\ h[a].prev # Root => h[h[a].prev].next = a
        /\ \A b \in L : h[b].serial < h[a].serial =>
                            h[a].next # Null /\ h[b].serial <= h[h[a].next].serial

\* A reallocation owns a block that is out of the list; once realloc() has
\* returned, the block's header says who moved it and what it was before.
MotionInv ==
    \A t \in Threads :
        /\ moving[t].at = Null => moving[t] = Still
        /\ moving[t].at # Null =>
            /\ moving[t].from \in {Null, moving[t].at}
            /\ heap[moving[t].at].state = "allocated"
            /\ heap[moving[t].at].serial = moving[t].serial
            /\ moving[t].from = Null => /\ heap[moving[t].at].thread = t
                                        /\ heap[moving[t].at].prevSerial = moving[t].serial
            /\ \A u \in Threads : moving[u].at = moving[t].at => u = t

\* How many entries ago slot i of the log was written, and so the serial it has.
SlotAge(i, index) == IF i <= index THEN index - i ELSE (index - i) + LogSize
SerialAt(i, newest, index) ==
    IF SlotAge(i, index) < newest THEN newest - SlotAge(i, index) ELSE 0

InOrder(entries, newest, index) ==
    \A i \in 0 .. LogSize - 1 : entries[i].serial = SerialAt(i, newest, index)

\* What the log's slots say of the blocks, live, freed and moved.
LogInv ==
    /\ InOrder(log, serial, logIndex)
    /\ \A i \in 0 .. LogSize - 1 : log[i].serial # 0 =>
        /\ log[i].state = "freed" <=> fate[log[i].serial] = "freed"
        /\ log[i].nextSerial # 0 <=> fate[log[i].serial] = "moved"
        /\ log[i].nextSerial <= serial
        /\ \A j \in 0 .. LogSize - 1 :
            log[i].nextSerial # 0 /\ log[j].serial = log[i].nextSerial
                => log[j].prevSerial = log[i].serial
        /\ \A a \in Live : heap[a].serial = log[i].serial => heap[a].prevSerial = log[i].prevSerial
    /\ \A a \in Addresses : heap[a].state = "allocated" => fate[heap[a].serial] = "live"

\* While a test runs, the blocks of its thread are those it found and those it
\* holds, but for the one it is reallocating.
TestInv ==
    test.running =>
        /\ test.before \cap test.held = {}
        /\ { a \in Live : heap[a].thread = Tester }
             = (test.before \cup test.held) \ {moving[Tester].at}
        /\ moving[Tester].at # Null => moving[Tester].at \in test.held

AllocInv ==
    /\ Types
    /\ BlocksNumbered
    /\ Chained(heap, first, Live)
    /\ MotionInv
    /\ LogInv
    /\ TestInv

-----------------------------------------------------------------------------
(* The list.                                                               *)

\* Linking a block that is out of the list and has the newest serial.
LEMMA LinkedChain ==
    ASSUME Types, NEW L \in SUBSET Addresses, Chained(heap, first, L),
           NEW a \in Addresses \ L, NEW header \in Headers,
           \A b \in L : heap[b].serial < header.serial,
           \A b \in L : heap[b].serial \in Nat
    PROVE  /\ Chained(Linked(heap, a, header), a, L \cup {a})
           /\ Linked(heap, a, header) \in [Addresses -> Headers]
           /\ \A x \in Addresses :
                LET old == IF x = a THEN header ELSE heap[x]
                IN  /\ Linked(heap, a, header)[x].state = old.state
                    /\ Linked(heap, a, header)[x].serial = old.serial
                    /\ Linked(heap, a, header)[x].thread = old.thread
                    /\ Linked(heap, a, header)[x].prevSerial = old.prevSerial
<1> DEFINE h == Linked(heap, a, header)
           new == [header EXCEPT !.prev = Root]
<1>1. h[a] = [new EXCEPT !.next = first]
    BY DEF Linked
<1>2. \A x \in Addresses \ {a} : h[x] = IF x = first THEN [heap[x] EXCEPT !.prev = a] ELSE heap[x]
    BY DEF Linked
<1>3. heap \in [Addresses -> Headers] /\ first \in Addresses \cup {Null}
    BY DEF Types
<1>4. /\ new \in Headers /\ new.prev = Root /\ new.serial = header.serial
      /\ new.state = header.state /\ new.thread = header.thread /\ new.prevSerial = header.prevSerial
    BY AddressesAssumption DEF Headers
<1> HIDE DEF h, new
<1>5. /\ h[a] \in Headers /\ h[a].serial = header.serial /\ h[a].prev = Root /\ h[a].next = first
      /\ h[a].state = header.state /\ h[a].thread = header.thread /\ h[a].prevSerial = header.prevSerial
    BY <1>1, <1>3, <1>4 DEF Headers
<1>6. ASSUME NEW x \in Addresses \ {a}
      PROVE  /\ h[x] \in Headers
             /\ h[x].serial = heap[x].serial /\ h[x].next = heap[x].next
             /\ h[x].prev = IF x = first THEN a ELSE heap[x].prev
             /\ h[x].state = heap[x].state /\ h[x].thread = heap[x].thread
             /\ h[x].prevSerial = heap[x].prevSerial
    <2>1. heap[x] \in Headers /\ h[x] = IF x = first THEN [heap[x] EXCEPT !.prev = a] ELSE heap[x]
        BY <1>2, <1>3
    <2>2. QED
        BY <2>1 DEF Headers
<1>7. h \in [Addresses -> Headers]
    BY <1>5, <1>6 DEF h, Linked
<1>8. Chained(h, a, L \cup {a})
    BY <1>3, <1>5, <1>6, AddressesAssumption DEF Chained, Headers
<1>9. QED
    BY <1>5, <1>6, <1>7, <1>8 DEF h

\* Unlinking a block of the list.
LEMMA UnlinkedChain ==
    ASSUME Types, BlocksNumbered, NEW L \in SUBSET Addresses, Chained(heap, first, L),
           \A b \in L : heap[b].state = "allocated",
           NEW a \in L
    PROVE  /\ Chained(UnlinkedHeap(a), UnlinkedFirst(a), L \ {a})
           /\ UnlinkedHeap(a) \in [Addresses -> Headers]
           /\ \A x \in Addresses :
                /\ UnlinkedHeap(a)[x].state = heap[x].state
                /\ UnlinkedHeap(a)[x].serial = heap[x].serial
                /\ UnlinkedHeap(a)[x].thread = heap[x].thread
                /\ UnlinkedHeap(a)[x].prevSerial = heap[x].prevSerial
           /\ UnlinkedHeap(a)[a] = heap[a]
<1> DEFINE h == UnlinkedHeap(a)
           f == UnlinkedFirst(a)
           p == heap[a].prev
           n == heap[a].next
<1>0. p # n \/ p \notin Addresses
    <2> SUFFICES ASSUME p = n, p \in Addresses PROVE FALSE
        OBVIOUS
    <2>1. p # Root /\ n # Null
        BY AddressesAssumption
    <2>2. p \in L /\ heap[p].next = a /\ heap[p].serial < heap[a].serial
        BY <2>1 DEF Chained
    <2>3. heap[a].serial < heap[p].serial
        BY <2>2, AddressesAssumption DEF Chained
    <2>4. heap[a].serial \in Int /\ heap[p].serial \in Int
        BY DEF BlocksNumbered
    <2>5. QED
        BY <2>2, <2>3, <2>4
<1>1. \A x \in Addresses :
        h[x] = IF x # a /\ x = p THEN [heap[x] EXCEPT !.next = n]
               ELSE IF x # a /\ x = n THEN [heap[x] EXCEPT !.prev = p]
               ELSE heap[x]
    BY <1>0 DEF UnlinkedHeap
<1>2. /\ heap \in [Addresses -> Headers]
      /\ p \in Addresses \cup {Root, Null} /\ n \in Addresses \cup {Null}
    BY DEF Types, Headers
<1>3. f = IF p = Root THEN n ELSE first
    BY DEF UnlinkedFirst
<1>4. h[a] = heap[a]
    BY <1>1
<1> HIDE DEF h, f, p, n
<1>5. ASSUME NEW x \in Addresses
      PROVE  /\ h[x] \in Headers
             /\ h[x].state = heap[x].state
             /\ h[x].serial = heap[x].serial
             /\ h[x].thread = heap[x].thread
             /\ h[x].prevSerial = heap[x].prevSerial
             /\ x # a => /\ h[x].next = IF x = p THEN n ELSE heap[x].next
                         /\ h[x].prev = IF x = n THEN p ELSE heap[x].prev
    <2>1. /\ heap[x] \in Headers
          /\ p \in Addresses \cup {Root, Null} /\ n \in Addresses \cup {Null}
        BY <1>2
    <2>2. h[x] = IF x # a /\ x = p THEN [heap[x] EXCEPT !.next = n]
                 ELSE IF x # a /\ x = n THEN [heap[x] EXCEPT !.prev = p]
                 ELSE heap[x]
        BY <1>1
    <2>3. x # a => ~(x = p /\ x = n)
        BY <1>0
    <2>4. QED
        BY <2>1, <2>2, <2>3 DEF Headers
<1>6. h \in [Addresses -> Headers]
    BY <1>5 DEF h, UnlinkedHeap
<1>8. Chained(h, f, L \ {a})
    <2> USE AddressesAssumption, <1>0, <1>2, <1>3, <1>5 DEF p, n
    <2>0. \A x, y \in L : /\ heap[x].serial \in Int
                          /\ heap[x].serial = heap[y].serial => x = y
        BY DEF BlocksNumbered
    <2>1. f \in (L \ {a}) \cup {Null}
        BY <2>0 DEF Chained
    <2>2. ASSUME NEW b \in L \ {a}
          PROVE  /\ f # Null /\ h[b].serial <= h[f].serial
                 /\ h[b].next \in (L \ {a}) \cup {Null}
                 /\ h[b].next # Null => h[h[b].next].prev = b /\ h[h[b].next].serial < h[b].serial
        BY <2>0 DEF Chained
    <2>3. ASSUME NEW b \in L \ {a}
          PROVE  /\ h[b].prev \in (L \ {a}) \cup {Root}
                 /\ h[b].prev = Root <=> b = f
                 /\ h[b].prev # Root => h[h[b].prev].next = b
        BY <2>0 DEF Chained
    <2>4. ASSUME NEW b \in L \ {a}, NEW c \in L \ {a}, h[c].serial < h[b].serial
          PROVE  h[b].next # Null /\ h[c].serial <= h[h[b].next].serial
        BY <2>0, <2>4 DEF Chained
    <2>5. QED
        BY <2>1, <2>2, <2>3, <2>4 DEF Chained
<1>9. QED
    BY <1>4, <1>5, <1>6, <1>8 DEF h, f

\* A list only depends on the headers of its own blocks.
LEMMA ChainFrame ==
    ASSUME NEW h, NEW g, NEW f, NEW L \in SUBSET Addresses, Chained(h, f, L),
           \A x \in L : g[x].serial = h[x].serial /\ g[x].prev = h[x].prev /\ g[x].next = h[x].next
    PROVE  Chained(g, f, L)
BY DEF Chained

-----------------------------------------------------------------------------
(* The log.                                                                *)

\* A serial is looked up where the ring holds it, if it still does.
LEMMA LookupSlots ==
    ASSUME NEW newest \in Nat, NEW index \in 0 .. LogSize - 1, NEW entries,
           InOrder(entries, newest, index), NEW s \in 0 .. newest
    PROVE  Lookup(s, newest, index, entries)
             = { i \in 0 .. LogSize - 1 : s # 0 /\ entries[i].serial = s }
<1> DEFINE at == LogIndexOf(s, newest, index)
           wanted == { i \in 0 .. LogSize - 1 : s # 0 /\ entries[i].serial = s }
<1> USE LogAssumption
<1>1. at \in Int /\ at <= LogSize - 1
    BY DEF LogIndexOf
<1>2. ASSUME NEW i \in 0 .. LogSize - 1, s # 0, entries[i].serial = s
      PROVE  i = at
    BY <1>2 DEF InOrder, SerialAt, SlotAge, LogIndexOf
<1> HIDE DEF at
<1>3. Lookup(s, newest, index, entries) = { i \in {at} : s # 0 /\ i >= 0 /\ entries[i].serial = s }
    BY DEF Lookup, at
<1>4. QED
    BY <1>1, <1>2, <1>3

\* The log finds exactly the last LogSize serials.
LEMMA OrderIsWindow ==
    ASSUME Types, InOrder(log, serial, logIndex)
    PROVE  LogIsWindow
<1> SUFFICES ASSUME NEW s \in 1 .. serial
             PROVE  InLog(s) # {} <=> s > serial - LogSize
    BY DEF LogIsWindow
<1> USE LogAssumption
<1>1. serial \in Nat /\ logIndex \in 0 .. LogSize - 1
    BY DEF Types
<1>2. InLog(s) = { i \in 0 .. LogSize - 1 : log[i].serial = s }
    BY <1>1, LookupSlots DEF InLog
<1>3. ASSUME s > serial - LogSize PROVE InLog(s) # {}
    <2> DEFINE i == LogIndexOf(s, serial, logIndex)
    <2>1. i \in 0 .. LogSize - 1 /\ SlotAge(i, logIndex) = serial - s
        BY <1>1, <1>3 DEF LogIndexOf, SlotAge
    <2> HIDE DEF i
    <2>2. log[i].serial = s
        BY <1>1, <2>1 DEF InOrder, SerialAt
    <2>3. QED
        BY <1>2, <2>1, <2>2
<1>4. ASSUME NEW i \in 0 .. LogSize - 1, log[i].serial = s PROVE s > serial - LogSize
    BY <1>1, <1>4 DEF InOrder, SerialAt, SlotAge
<1>5. QED
    BY <1>2, <1>3, <1>4

LEMMA RewrittenSlots ==
    ASSUME Types, InOrder(log, serial, logIndex), NEW s \in 1 .. serial, NEW entry
    PROVE  Rewritten(s, entry) = [i \in 0 .. LogSize - 1 |-> IF log[i].serial = s THEN entry ELSE log[i]]
<1>0. serial \in Nat /\ logIndex \in 0 .. LogSize - 1 /\ s \in 0 .. serial /\ s # 0
    BY DEF Types
<1>1. InLog(s) = { i \in 0 .. LogSize - 1 : log[i].serial = s }
    BY <1>0, LookupSlots DEF InLog
<1>2. QED
    BY <1>1 DEF Rewritten, Types

LEMMA NextIndexWraps ==
    ASSUME Types
    PROVE  NextIndex = IF logIndex = LogSize - 1 THEN 0 ELSE logIndex + 1
<1>1. LogSize \in Nat \ {0} /\ logIndex \in 0 .. LogSize - 1
    BY LogAssumption DEF Types
<1>2. QED
    BY <1>1 DEF NextIndex

\* Numbering a block pushes the oldest entry out of the log.
LEMMA NextInOrder ==
    ASSUME Types, InOrder(log, serial, logIndex), NEW entries,
           \A i \in 0 .. LogSize - 1 :
                entries[i].serial = IF i = NextIndex THEN serial + 1 ELSE log[i].serial
    PROVE  InOrder(entries, serial + 1, NextIndex) /\ NextIndex \in 0 .. LogSize - 1
<1>1. /\ LogSize \in Nat \ {0} /\ logIndex \in 0 .. LogSize - 1 /\ serial \in Nat
      /\ NextIndex = IF logIndex = LogSize - 1 THEN 0 ELSE logIndex + 1
    BY LogAssumption, NextIndexWraps DEF Types
<1>2. QED
    BY <1>1 DEF InOrder, SerialAt, SlotAge

\* What Enter leaves in the log's slots.
LEMMA EnterLog ==
    ASSUME Types, InOrder(log, serial, logIndex),
           NEW a, NEW header \in Headers,
           header.state = "allocated", header.serial = serial + 1,
           header.prevSerial \in 0 .. serial,
           Enter(a, header)
    PROVE  /\ serial' = serial + 1
           /\ logIndex' \in 0 .. LogSize - 1
           /\ log' \in [0 .. LogSize - 1 -> Entries]
           /\ InOrder(log', serial', logIndex')
           /\ \A i \in 0 .. LogSize - 1 :
                /\ log'[i].serial = IF i = logIndex' THEN serial + 1 ELSE log[i].serial
                /\ log'[i].state = IF i = logIndex' THEN header.state ELSE log[i].state
                /\ log'[i].prevSerial = IF i = logIndex' THEN header.prevSerial ELSE log[i].prevSerial
                /\ log'[i].nextSerial =
                        IF header.prevSerial # 0 /\ log'[i].serial = header.prevSerial THEN serial + 1
                        ELSE IF i = logIndex' THEN 0 ELSE log[i].nextSerial
<1> DEFINE new == Entry(header)
           index == NextIndex
           entries == [log EXCEPT ![index] = new]
           predecessor == Lookup(new.prevSerial, new.serial, index, entries)
<1>1. /\ new \in Entries /\ new.serial = serial + 1 /\ new.prevSerial = header.prevSerial
      /\ new.state = header.state /\ new.nextSerial = 0
    BY DEF Entry, Headers, Entries
<1>2. log \in [0 .. LogSize - 1 -> Entries] /\ serial \in Nat
    BY DEF Types
<1>3. /\ serial' = new.serial /\ logIndex' = index
      /\ log' = [i \in DOMAIN entries |->
                    IF i \in predecessor THEN [entries[i] EXCEPT !.nextSerial = new.serial] ELSE entries[i]]
    BY DEF Enter
<1> HIDE DEF new
<1>4. \A i \in 0 .. LogSize - 1 : entries[i] = IF i = index THEN new ELSE log[i]
    BY <1>2
<1>5. \A i \in 0 .. LogSize - 1 :
        entries[i].serial = IF i = NextIndex THEN serial + 1 ELSE log[i].serial
    BY <1>1, <1>4
<1>6. DOMAIN entries = 0 .. LogSize - 1
    BY <1>2
<1> HIDE DEF entries
<1>7. InOrder(entries, serial + 1, index) /\ index \in 0 .. LogSize - 1
    BY <1>5, NextInOrder
<1> HIDE DEF index
<1>8. predecessor = { i \in 0 .. LogSize - 1 : new.prevSerial # 0 /\ entries[i].serial = new.prevSerial }
    BY <1>1, <1>2, <1>7, LookupSlots
<1> HIDE DEF predecessor
<1>9. ASSUME NEW i \in 0 .. LogSize - 1
      PROVE  /\ log'[i] \in Entries
             /\ log'[i].serial = IF i = index THEN serial + 1 ELSE log[i].serial
             /\ log'[i].state = IF i = index THEN header.state ELSE log[i].state
             /\ log'[i].prevSerial = IF i = index THEN header.prevSerial ELSE log[i].prevSerial
             /\ log'[i].nextSerial =
                    IF header.prevSerial # 0 /\ log'[i].serial = header.prevSerial THEN serial + 1
                    ELSE IF i = index THEN 0 ELSE log[i].nextSerial
    <2>1. log[i] \in Entries /\ serial + 1 \in Nat /\ new \in Entries
        BY <1>1, <1>2
    <2>2. log'[i] = IF new.prevSerial # 0 /\ entries[i].serial = new.prevSerial
                    THEN [entries[i] EXCEPT !.nextSerial = serial + 1] ELSE entries[i]
        BY <1>1, <1>3, <1>6, <1>8
    <2>3. entries[i] = IF i = index THEN new ELSE log[i]
        BY <1>4
    <2>4. QED
        BY <1>1, <2>1, <2>2, <2>3 DEF Entries
<1>10. InOrder(log', serial + 1, index)
    BY <1>5, <1>7, <1>9 DEF InOrder, index
<1>11. log' \in [0 .. LogSize - 1 -> Entries]
    BY <1>3, <1>6, <1>9
<1>12. serial' = serial + 1 /\ logIndex' = index
    BY <1>1, <1>3
<1>13. QED
    BY <1>7, <1>9, <1>10, <1>11, <1>12

-----------------------------------------------------------------------------
(* The steps.                                                              *)

LEMMA LiveBelow ==
    ASSUME Types, BlocksNumbered
    PROVE  /\ \A b \in Live : heap[b].serial < serial + 1 /\ heap[b].serial \in Nat
           /\ serial \in Nat
BY DEF Types, BlocksNumbered, Live

\* A block that is put in front of the list under the next serial; its
\* prevSerial is the serial it had before, if it has been moved.
LEMMA EnterInv ==
    ASSUME AllocInv, serial < MaxSerial,
           NEW a \in Addresses \ Live, NEW header \in Headers,
           header.state = "allocated", header.serial = serial + 1,
           header.prevSerial \in 0 .. serial,
           Enter(a, header), Live' = Live \cup {a},
           header.prevSerial # 0 => fate[header.prevSerial] = "live",
           \A b \in Addresses \ {a} :
                heap[b].state = "allocated" => heap[b].serial # header.prevSerial,
           fate' \in [1 .. MaxSerial -> Fates],
           \A s \in 1 .. MaxSerial :
                fate'[s] = IF s = serial + 1 THEN "live"
                           ELSE IF s = header.prevSerial THEN "moved" ELSE fate[s]
    PROVE  /\ heap' \in [Addresses -> Headers]
           /\ \A x \in Addresses :
                LET was == IF x = a THEN header ELSE heap[x]
                IN  /\ heap'[x].state = was.state
                    /\ heap'[x].serial = was.serial
                    /\ heap'[x].thread = was.thread
                    /\ heap'[x].prevSerial = was.prevSerial
           /\ first' \in Addresses \cup {Null}
           /\ serial' = serial + 1 /\ serial' \in 0 .. MaxSerial
           /\ log' \in [0 .. LogSize - 1 -> Entries] /\ logIndex' \in 0 .. LogSize - 1
           /\ BlocksNumbered'
           /\ Chained(heap', first', Live')
           /\ LogInv'
<1> DEFINE old == header.prevSerial
<1>0. /\ old \in 0 .. serial
      /\ old # 0 => fate[old] = "live"
      /\ \A b \in Addresses \ {a} : heap[b].state = "allocated" => heap[b].serial # old
      /\ \A s \in 1 .. MaxSerial :
            fate'[s] = IF s = serial + 1 THEN "live" ELSE IF s = old THEN "moved" ELSE fate[s]
    OBVIOUS
<1>1. /\ Types /\ BlocksNumbered /\ Chained(heap, first, Live) /\ LogInv
      /\ InOrder(log, serial, logIndex)
    BY DEF AllocInv, LogInv
<1>2. heap' = Linked(heap, a, header) /\ first' = a
    BY DEF Enter
<1>3. /\ \A b \in Live : heap[b].serial < header.serial /\ heap[b].serial \in Nat
      /\ Live \in SUBSET Addresses
    BY <1>1, LiveBelow DEF Live
<1>4. /\ Chained(heap', first', Live')
      /\ heap' \in [Addresses -> Headers]
      /\ \A x \in Addresses :
            LET was == IF x = a THEN header ELSE heap[x]
            IN  /\ heap'[x].state = was.state
                /\ heap'[x].serial = was.serial
                /\ heap'[x].thread = was.thread
                /\ heap'[x].prevSerial = was.prevSerial
    <2> DEFINE h == Linked(heap, a, header)
    <2>1. /\ Chained(h, a, Live \cup {a})
          /\ h \in [Addresses -> Headers]
          /\ \A x \in Addresses :
                LET was == IF x = a THEN header ELSE heap[x]
                IN  /\ h[x].state = was.state
                    /\ h[x].serial = was.serial
                    /\ h[x].thread = was.thread
                    /\ h[x].prevSerial = was.prevSerial
        BY <1>1, <1>3, LinkedChain
    <2> HIDE DEF h
    <2>2. heap' = h /\ first' = a
        BY <1>2 DEF h
    <2>3. QED
        BY <2>1, <2>2, Zenon
<1>5. /\ serial' = serial + 1
      /\ logIndex' \in 0 .. LogSize - 1
      /\ log' \in [0 .. LogSize - 1 -> Entries]
      /\ InOrder(log', serial', logIndex')
      /\ \A i \in 0 .. LogSize - 1 :
            /\ log'[i].serial = IF i = logIndex' THEN serial + 1 ELSE log[i].serial
            /\ log'[i].state = IF i = logIndex' THEN "allocated" ELSE log[i].state
            /\ log'[i].prevSerial = IF i = logIndex' THEN old ELSE log[i].prevSerial
            /\ log'[i].nextSerial =
                    IF old # 0 /\ log'[i].serial = old THEN serial + 1
                    ELSE IF i = logIndex' THEN 0 ELSE log[i].nextSerial
    BY <1>1, EnterLog
<1> HIDE DEF old
<1>6. serial \in Nat /\ MaxSerial \in Nat /\ serial' \in 0 .. MaxSerial
    BY <1>1, <1>5, LogAssumption DEF Types
<1>7. BlocksNumbered'
    <2>1. \A x \in Addresses :
            /\ heap[x].serial \in 0 .. serial
            /\ heap'[x].state = IF x = a THEN "allocated" ELSE heap[x].state
            /\ heap'[x].serial = IF x = a THEN serial + 1 ELSE heap[x].serial
        BY <1>1, <1>4 DEF BlocksNumbered
    <2>2. QED
        BY <1>1, <1>5, <1>6, <2>1 DEF BlocksNumbered
<1>8. \A i \in 0 .. LogSize - 1 : log[i].serial \in 0 .. serial
    <2>1. logIndex \in 0 .. LogSize - 1 /\ LogSize \in Nat
        BY <1>1, LogAssumption DEF Types
    <2>2. QED
        BY <1>1, <1>6, <2>1 DEF InOrder, SerialAt, SlotAge
<1>9. \A b \in Addresses : heap'[b].state = "allocated" => fate'[heap'[b].serial] = "live"
    BY <1>1, <1>4, <1>6 DEF LogInv, BlocksNumbered
<1>10. ASSUME NEW i \in 0 .. LogSize - 1, log'[i].serial # 0
       PROVE  /\ log'[i].state = "freed" <=> fate'[log'[i].serial] = "freed"
              /\ log'[i].nextSerial # 0 <=> fate'[log'[i].serial] = "moved"
              /\ log'[i].nextSerial <= serial'
    <2>1. log[i].nextSerial \in Nat
        BY <1>1 DEF Types, Entries
    <2>2. CASE i = logIndex'
        BY <1>0, <1>5, <1>6, <2>2
    <2>3. CASE i # logIndex'
        BY <1>0, <1>1, <1>5, <1>6, <1>8, <1>10, <2>1, <2>3 DEF LogInv
    <2>4. QED
        BY <2>2, <2>3
<1>11. ASSUME NEW i \in 0 .. LogSize - 1, NEW j \in 0 .. LogSize - 1, log'[i].serial # 0,
              log'[i].nextSerial # 0, log'[j].serial = log'[i].nextSerial
       PROVE  log'[j].prevSerial = log'[i].serial
    <2>1. CASE old # 0 /\ log'[i].serial = old
        <3>1. log'[j].serial = serial + 1
            BY <1>5, <1>11, <2>1
        <3>2. j = logIndex'
            BY <1>5, <1>6, <1>8, <3>1
        <3>3. QED
            BY <1>5, <2>1, <3>2
    <2>2. CASE ~(old # 0 /\ log'[i].serial = old)
        <3>1. i # logIndex' /\ log[i].serial # 0 /\ log[i].nextSerial = log'[i].nextSerial
            BY <1>5, <1>11, <2>2
        <3>2. j # logIndex'
            BY <1>1, <1>5, <1>6, <1>11, <3>1 DEF LogInv, Types, Entries
        <3>3. QED
            BY <1>1, <1>5, <1>11, <3>1, <3>2 DEF LogInv
    <2>3. QED
        BY <2>1, <2>2
<1>12. ASSUME NEW i \in 0 .. LogSize - 1, log'[i].serial # 0,
              NEW b \in Live', heap'[b].serial = log'[i].serial
       PROVE  heap'[b].prevSerial = log'[i].prevSerial
    <2>1. b \in Live \cup {a}
        OBVIOUS
    <2>2. CASE b = a
        <3>1. i = logIndex'
            BY <1>4, <1>5, <1>6, <1>8, <1>12, <2>2
        <3>2. QED
            BY <1>4, <1>5, <2>2, <3>1 DEF old
    <2>3. CASE b # a
        <3>1. b \in Live /\ heap'[b].serial = heap[b].serial /\ heap'[b].prevSerial = heap[b].prevSerial
            BY <1>3, <1>4, <2>1, <2>3
        <3>2. heap[b].serial # serial + 1
            BY <1>3, <1>6, <3>1
        <3>3. i # logIndex' /\ log[i].serial = heap[b].serial
            BY <1>5, <1>12, <3>1, <3>2
        <3>4. QED
            BY <1>1, <1>5, <1>12, <3>1, <3>3 DEF LogInv
    <2>4. QED
        BY <2>1, <2>2, <2>3
<1>13. LogInv'
    BY <1>5, <1>9, <1>10, <1>11, <1>12 DEF LogInv
<1>14. QED
    BY <1>2, <1>4, <1>5, <1>6, <1>7, <1>13

LEMMA AllocateStep ==
    ASSUME AllocInv, NEW t \in Threads, NEW a \in Addresses, Allocate(t, a)
    PROVE  AllocInv'
<1> DEFINE header == Header(serial + 1, t, 0)
<1>1. /\ Types /\ BlocksNumbered /\ MotionInv /\ LogInv /\ TestInv
      /\ MaxSerial \in Nat /\ serial \in 0 .. MaxSerial /\ serial < MaxSerial
    BY LogAssumption DEF AllocInv, Types, Allocate
<1>2. heap[a] = Free /\ Enter(a, header) /\ moving' = moving /\ page' = page
    BY DEF Allocate
<1>3. heap[a].state = "free"
    BY <1>2 DEF Free
<1>4. a \in Addresses \ Live /\ a \notin InMotion
    BY <1>1, <1>3, AddressesAssumption DEF Live, InMotion, MotionInv
<1>5. /\ header \in Headers
      /\ header.state = "allocated" /\ header.serial = serial + 1 /\ header.prevSerial = 0
      /\ header.thread = t
    BY <1>1 DEF Header, Headers
<1>6. /\ fate' \in [1 .. MaxSerial -> Fates]
      /\ \A s \in 1 .. MaxSerial :
            fate'[s] = IF s = serial + 1 THEN "live"
                       ELSE IF s = header.prevSerial THEN "moved" ELSE fate[s]
    BY <1>1, <1>5 DEF Allocate, Types, Fates
<1>7. \A x \in Addresses \ {a} : heap[x].state = "allocated" => heap[x].serial # header.prevSerial
    BY <1>1, <1>5 DEF BlocksNumbered
<1> HIDE DEF header
<1>8. Live' = Live \cup {a}
    <2>1. heap' = Linked(heap, a, header) /\ InMotion' = InMotion
        BY <1>2 DEF Enter, InMotion
    <2>2. \A x \in Addresses : heap'[x].state = IF x = a THEN "allocated" ELSE heap[x].state
        <3>1. heap \in [Addresses -> Headers]
            BY <1>1 DEF Types
        <3>2. QED
            BY <1>5, <2>1, <3>1 DEF Linked, Headers
    <2>3. QED
        BY <1>4, <2>1, <2>2 DEF Live
<1>9. /\ heap' \in [Addresses -> Headers]
      /\ \A x \in Addresses :
            LET was == IF x = a THEN header ELSE heap[x]
            IN  /\ heap'[x].state = was.state
                /\ heap'[x].serial = was.serial
                /\ heap'[x].thread = was.thread
                /\ heap'[x].prevSerial = was.prevSerial
      /\ first' \in Addresses \cup {Null}
      /\ serial' = serial + 1 /\ serial' \in 0 .. MaxSerial
      /\ log' \in [0 .. LogSize - 1 -> Entries] /\ logIndex' \in 0 .. LogSize - 1
      /\ BlocksNumbered'
      /\ Chained(heap', first', Live')
      /\ LogInv'
    <2>1. serial < MaxSerial /\ header.prevSerial \in 0 .. serial /\ header.prevSerial = 0
        BY <1>1, <1>5
    <2>2. QED
        BY <1>2, <1>4, <1>5, <1>6, <1>7, <1>8, <2>1, EnterInv, Zenon
<1>10. MotionInv'
    <2>1. \A u \in Threads : moving[u].at # a
        BY <1>4 DEF InMotion
    <2>2. \A u \in Threads : moving[u].at \in Addresses \cup {Null}
        BY <1>1 DEF Types
    <2>3. QED
        BY <1>1, <1>2, <1>9, <2>1, <2>2 DEF MotionInv
<1>11. Types'
    <2>1. test' \in [running : BOOLEAN, before : SUBSET Addresses, held : SUBSET Addresses]
        BY <1>1 DEF Types, Allocate
    <2>2. page' \in [walking : BOOLEAN, next : 0 .. serial']
        BY <1>1, <1>2, <1>9 DEF Types
    <2>3. moving' \in [Threads -> [from : Addresses \cup {Null}, at : Addresses \cup {Null}, serial : Nat]]
        BY <1>1, <1>2 DEF Types
    <2>4. QED
        BY <1>6, <1>9, <2>1, <2>2, <2>3 DEF Types
<1>12. TestInv'
    <2>1. test' = IF t = Tester /\ test.running THEN [test EXCEPT !.held = @ \cup {a}] ELSE test
        BY DEF Allocate
    <2>2. test \in [running : BOOLEAN, before : SUBSET Addresses, held : SUBSET Addresses]
        BY <1>1 DEF Types
    <2>3. /\ test'.running = test.running /\ test'.before = test.before
          /\ test.running => test'.held = IF t = Tester THEN test.held \cup {a} ELSE test.held
        BY <2>1, <2>2
    <2>4. SUFFICES ASSUME test.running PROVE TestInv'
        BY <2>3 DEF TestInv
    <2>5. a \notin test.before /\ a \notin test.held /\ a # moving[Tester].at
        <3>1. a # moving[Tester].at
            BY <1>4, ThreadsAssumption DEF InMotion
        <3>2. QED
            BY <1>1, <1>4, <2>4, <3>1 DEF TestInv
    <2>6. {x \in Live' : heap'[x].thread = Tester}
            = {x \in Live : heap[x].thread = Tester} \cup (IF t = Tester THEN {a} ELSE {})
        BY <1>4, <1>5, <1>8, <1>9 DEF Live
    <2>7. QED
        BY <1>1, <1>2, <2>3, <2>4, <2>5, <2>6 DEF TestInv
<1>13. QED
    BY <1>9, <1>10, <1>11, <1>12 DEF AllocInv

\* Rewriting the entry of a live block changes its state at most.
LEMMA RewriteLog ==
    ASSUME AllocInv, NEW a \in Live, NEW entry \in Entries,
           entry.serial = heap[a].serial, entry.prevSerial = heap[a].prevSerial,
           entry.nextSerial = 0,
           log' = Rewritten(heap[a].serial, entry), UNCHANGED <<serial, logIndex>>
    PROVE  /\ log' \in [0 .. LogSize - 1 -> Entries]
           /\ InOrder(log', serial', logIndex')
           /\ \A i \in 0 .. LogSize - 1 :
                /\ log'[i].serial = log[i].serial
                /\ log'[i].prevSerial = log[i].prevSerial
                /\ log'[i].nextSerial = log[i].nextSerial
                /\ log'[i].state = IF log[i].serial = heap[a].serial THEN entry.state ELSE log[i].state
<1> DEFINE s == heap[a].serial
<1>1. /\ Types /\ LogInv /\ InOrder(log, serial, logIndex)
      /\ a \in Addresses /\ heap[a].state = "allocated"
      /\ s \in 1 .. serial /\ serial \in Nat
    BY DEF AllocInv, LogInv, Live, BlocksNumbered, Types
<1>2. log' = [i \in 0 .. LogSize - 1 |-> IF log[i].serial = s THEN entry ELSE log[i]]
    BY <1>1, RewrittenSlots
<1>3. log \in [0 .. LogSize - 1 -> Entries]
    BY <1>1 DEF Types
<1>4. ASSUME NEW i \in 0 .. LogSize - 1, log[i].serial = s
      PROVE  log[i].prevSerial = entry.prevSerial /\ log[i].nextSerial = 0
    <2>1. fate[s] = "live"
        BY <1>1 DEF LogInv
    <2>2. QED
        BY <1>1, <1>4, <2>1 DEF LogInv
<1>5. \A i \in 0 .. LogSize - 1 :
        /\ log'[i] \in Entries
        /\ log'[i].serial = log[i].serial
        /\ log'[i].prevSerial = log[i].prevSerial
        /\ log'[i].nextSerial = log[i].nextSerial
        /\ log'[i].state = IF log[i].serial = s THEN entry.state ELSE log[i].state
    BY <1>2, <1>3, <1>4
<1>6. log' \in [0 .. LogSize - 1 -> Entries]
    BY <1>2, <1>3
<1>7. InOrder(log', serial', logIndex')
    BY <1>1, <1>5 DEF InOrder
<1>8. QED
    BY <1>5, <1>6, <1>7

LEMMA TouchedIsLive ==
    ASSUME NEW t \in Threads, NEW a \in Addresses, MayTouch(t, a)
    PROVE  /\ a \in Live
           /\ moving[t] = Still
           /\ test.running => IF t = Tester THEN a \in test.held ELSE heap[a].thread # Tester
BY DEF MayTouch, Live

LEMMA ReleaseStep ==
    ASSUME AllocInv, NEW t \in Threads, NEW a \in Addresses, Release(t, a)
    PROVE  AllocInv'
<1> DEFINE h == UnlinkedHeap(a)
           s == heap[a].serial
<1>1. /\ Types /\ BlocksNumbered /\ Chained(heap, first, Live) /\ MotionInv /\ LogInv /\ TestInv
      /\ Live \in SUBSET Addresses /\ \A b \in Live : heap[b].state = "allocated"
    BY DEF AllocInv, Live
<1>2. /\ a \in Live
      /\ moving[t] = Still
      /\ test.running => IF t = Tester THEN a \in test.held ELSE heap[a].thread # Tester
    BY TouchedIsLive DEF Release
<1>3. /\ heap' = [h EXCEPT ![a] = Free]
      /\ first' = UnlinkedFirst(a)
      /\ log' = Rewritten(s, FreedEntry(a))
      /\ fate' = [fate EXCEPT ![s] = "freed"]
      /\ test' = [test EXCEPT !.held = @ \ {a}]
      /\ UNCHANGED <<serial, logIndex, moving, page>>
    BY DEF Release
<1>4. /\ Chained(h, UnlinkedFirst(a), Live \ {a})
      /\ h \in [Addresses -> Headers]
      /\ \A x \in Addresses :
            /\ h[x].state = heap[x].state
            /\ h[x].serial = heap[x].serial
            /\ h[x].thread = heap[x].thread
            /\ h[x].prevSerial = heap[x].prevSerial
    BY <1>1, <1>2, UnlinkedChain
<1> HIDE DEF h
<1>5. /\ heap' \in [Addresses -> Headers]
      /\ heap'[a] = Free
      /\ \A x \in Addresses \ {a} :
            /\ heap'[x] = h[x]
            /\ heap'[x].state = heap[x].state
            /\ heap'[x].serial = heap[x].serial
            /\ heap'[x].thread = heap[x].thread
            /\ heap'[x].prevSerial = heap[x].prevSerial
    <2>1. Free \in Headers
        BY DEF Free, Headers
    <2>2. QED
        BY <1>3, <1>4, <2>1
<1>6. heap'[a].state = "free" /\ heap'[a].serial = 0
    BY <1>5 DEF Free
<1>7. Live' = Live \ {a}
    <2>1. InMotion' = InMotion
        BY <1>3 DEF InMotion
    <2>2. QED
        BY <1>5, <1>6, <2>1 DEF Live
<1>8. Chained(heap', first', Live')
    <2>1. \A x \in Live \ {a} : /\ heap'[x].serial = h[x].serial /\ heap'[x].prev = h[x].prev
                                /\ heap'[x].next = h[x].next
        BY <1>1, <1>5
    <2>2. Live \ {a} \in SUBSET Addresses
        BY <1>1
    <2>3. Chained(heap', UnlinkedFirst(a), Live \ {a})
        BY <1>4, <2>1, <2>2, ChainFrame
    <2>4. QED
        BY <1>3, <1>7, <2>3
<1>9. BlocksNumbered'
    <2>1. serial \in Nat /\ serial' = serial
        BY <1>1, <1>3 DEF Types
    <2>2. \A x \in Addresses :
            /\ heap'[x].state = IF x = a THEN "free" ELSE heap[x].state
            /\ heap'[x].serial = IF x = a THEN 0 ELSE heap[x].serial
        BY <1>5, <1>6
    <2>3. QED
        BY <1>1, <2>1, <2>2 DEF BlocksNumbered
<1>10. /\ log' \in [0 .. LogSize - 1 -> Entries]
       /\ InOrder(log', serial', logIndex')
       /\ \A i \in 0 .. LogSize - 1 :
            /\ log'[i].serial = log[i].serial
            /\ log'[i].prevSerial = log[i].prevSerial
            /\ log'[i].nextSerial = log[i].nextSerial
            /\ log'[i].state = IF log[i].serial = s THEN "freed" ELSE log[i].state
    <2>1. /\ FreedEntry(a) \in Entries
          /\ FreedEntry(a).serial = s /\ FreedEntry(a).prevSerial = heap[a].prevSerial
          /\ FreedEntry(a).nextSerial = 0 /\ FreedEntry(a).state = "freed"
        <3>1. heap[a] \in Headers
            BY <1>1 DEF Types
        <3>2. QED
            BY <3>1 DEF FreedEntry, Entry, Headers, Entries
    <2>2. QED
        BY <1>2, <1>3, <2>1, RewriteLog
<1>11. fate \in [1 .. MaxSerial -> Fates] /\ s \in 1 .. serial /\ serial \in 0 .. MaxSerial
    BY <1>1, <1>2 DEF Types, BlocksNumbered
<1>12. \A r \in 1 .. MaxSerial : fate'[r] = IF r = s THEN "freed" ELSE fate[r]
    BY <1>3, <1>11
<1>13. fate[s] = "live"
    BY <1>1, <1>2 DEF LogInv
<1>14. LogInv'
    <2>1. MaxSerial \in Nat /\ \A i \in 0 .. LogSize - 1 : log[i].serial \in 0 .. serial
        <3>1. /\ logIndex \in 0 .. LogSize - 1 /\ LogSize \in Nat /\ serial \in Nat
              /\ InOrder(log, serial, logIndex) /\ MaxSerial \in Nat
            BY <1>1, LogAssumption DEF Types, LogInv
        <3>2. QED
            BY <3>1 DEF InOrder, SerialAt, SlotAge
    <2>2. ASSUME NEW i \in 0 .. LogSize - 1, log'[i].serial # 0
          PROVE  /\ log'[i].state = "freed" <=> fate'[log'[i].serial] = "freed"
                 /\ log'[i].nextSerial # 0 <=> fate'[log'[i].serial] = "moved"
                 /\ log'[i].nextSerial <= serial'
        BY <1>1, <1>3, <1>10, <1>11, <1>12, <1>13, <2>1, <2>2 DEF LogInv
    <2>3. ASSUME NEW b \in Addresses, heap'[b].state = "allocated"
          PROVE  fate'[heap'[b].serial] = "live"
        <3>1. b # a /\ heap[b].state = "allocated" /\ heap'[b].serial = heap[b].serial
            BY <1>5, <1>6, <2>3
        <3>2. heap[b].serial # s /\ heap[b].serial \in 1 .. MaxSerial
            BY <1>1, <1>2, <1>11, <2>1, <3>1 DEF BlocksNumbered
        <3>3. QED
            BY <1>1, <1>12, <3>1, <3>2 DEF LogInv
    <2>4. \A i, j \in 0 .. LogSize - 1 :
            log'[i].serial # 0 /\ log'[i].nextSerial # 0 /\ log'[j].serial = log'[i].nextSerial
                => log'[j].prevSerial = log'[i].serial
        BY <1>1, <1>10 DEF LogInv
    <2>5. \A i \in 0 .. LogSize - 1 : \A b \in Live' :
            log'[i].serial # 0 /\ heap'[b].serial = log'[i].serial
                => heap'[b].prevSerial = log'[i].prevSerial
        BY <1>1, <1>5, <1>7, <1>10 DEF LogInv
    <2>6. QED
        BY <1>10, <2>2, <2>3, <2>4, <2>5 DEF LogInv
<1>15. MotionInv'
    <2>1. \A u \in Threads : moving[u].at # a
        BY <1>2 DEF Live, InMotion
    <2>2. \A u \in Threads : moving[u].at \in Addresses \cup {Null}
        BY <1>1 DEF Types
    <2>3. QED
        BY <1>1, <1>3, <1>5, <2>1, <2>2 DEF MotionInv
<1>16. Types'
    <2>1. first' \in Addresses \cup {Null}
        BY <1>1, <1>3 DEF UnlinkedFirst, Types, Headers
    <2>2. test' \in [running : BOOLEAN, before : SUBSET Addresses, held : SUBSET Addresses]
        BY <1>1, <1>3 DEF Types
    <2>3. fate' \in [1 .. MaxSerial -> Fates]
        BY <1>3, <1>11 DEF Fates
    <2>4. QED
        BY <1>1, <1>3, <1>5, <1>10, <2>1, <2>2, <2>3 DEF Types
<1>17. TestInv'
    <2>1. test \in [running : BOOLEAN, before : SUBSET Addresses, held : SUBSET Addresses]
        BY <1>1 DEF Types
    <2>2. /\ test'.running = test.running /\ test'.before = test.before
          /\ test'.held = test.held \ {a}
        BY <1>3, <2>1
    <2>3. SUFFICES ASSUME test.running PROVE TestInv'
        BY <2>2 DEF TestInv
    <2>4. a # moving[Tester].at
        BY <1>2, ThreadsAssumption DEF Live, InMotion
    <2>5. {x \in Live' : heap'[x].thread = Tester} = {x \in Live : heap[x].thread = Tester} \ {a}
        BY <1>1, <1>5, <1>7
    <2>6. a \notin test.before
        BY <1>1, <1>2, <2>3, <2>4 DEF TestInv
    <2>7. QED
        BY <1>1, <1>3, <2>2, <2>3, <2>4, <2>5, <2>6 DEF TestInv
<1>18. QED
    BY <1>8, <1>9, <1>14, <1>15, <1>16, <1>17 DEF AllocInv

LEMMA TakeOutStep ==
    ASSUME AllocInv, NEW t \in Threads, NEW a \in Addresses, TakeOut(t, a)
    PROVE  AllocInv'
<1> DEFINE s == heap[a].serial
           motion == [from |-> a, at |-> a, serial |-> s]
<1>1. /\ Types /\ BlocksNumbered /\ Chained(heap, first, Live) /\ MotionInv /\ LogInv /\ TestInv
      /\ Live \in SUBSET Addresses /\ \A b \in Live : heap[b].state = "allocated"
    BY DEF AllocInv, Live
<1>2. /\ a \in Live
      /\ moving[t] = Still
      /\ test.running => IF t = Tester THEN a \in test.held ELSE heap[a].thread # Tester
    BY TouchedIsLive DEF TakeOut
<1>3. /\ heap' = UnlinkedHeap(a)
      /\ first' = UnlinkedFirst(a)
      /\ log' = Rewritten(s, Entry(heap[a]))
      /\ moving' = [moving EXCEPT ![t] = motion]
      /\ UNCHANGED <<serial, logIndex, test, page, fate>>
    BY DEF TakeOut
<1>4. /\ Chained(heap', first', Live \ {a})
      /\ heap' \in [Addresses -> Headers]
      /\ \A x \in Addresses :
            /\ heap'[x].state = heap[x].state
            /\ heap'[x].serial = heap[x].serial
            /\ heap'[x].thread = heap[x].thread
            /\ heap'[x].prevSerial = heap[x].prevSerial
    BY <1>1, <1>2, <1>3, UnlinkedChain
<1>5. /\ moving \in [Threads -> [from : Addresses \cup {Null}, at : Addresses \cup {Null}, serial : Nat]]
      /\ motion \in [from : Addresses \cup {Null}, at : Addresses \cup {Null}, serial : Nat]
      /\ motion.from = a /\ motion.at = a /\ motion.serial = s
      /\ moving[t].at = Null
    BY <1>1, <1>2 DEF Types, BlocksNumbered, Still
<1> HIDE DEF motion
<1>6. /\ moving' \in [Threads -> [from : Addresses \cup {Null}, at : Addresses \cup {Null}, serial : Nat]]
      /\ \A u \in Threads : moving'[u] = IF u = t THEN motion ELSE moving[u]
    BY <1>3, <1>5
<1>7. a # Null /\ \A u \in Threads : moving[u].at # a
    BY <1>2, AddressesAssumption DEF Live, InMotion
<1>8. Live' = Live \ {a}
    <2>1. \A x \in Addresses : x \in InMotion' <=> x = a \/ x \in InMotion
        BY <1>5, <1>6, AddressesAssumption DEF InMotion
    <2>2. QED
        BY <1>4, <2>1 DEF Live
<1>9. BlocksNumbered'
    <2>1. serial' = serial
        BY <1>3
    <2>2. QED
        BY <1>1, <1>4, <2>1 DEF BlocksNumbered
<1>10. /\ log' \in [0 .. LogSize - 1 -> Entries]
       /\ InOrder(log', serial', logIndex')
       /\ \A i \in 0 .. LogSize - 1 :
            /\ log'[i].serial = log[i].serial
            /\ log'[i].prevSerial = log[i].prevSerial
            /\ log'[i].nextSerial = log[i].nextSerial
            /\ log'[i].state = IF log[i].serial = s THEN "allocated" ELSE log[i].state
    <2>1. /\ Entry(heap[a]) \in Entries
          /\ Entry(heap[a]).serial = s /\ Entry(heap[a]).prevSerial = heap[a].prevSerial
          /\ Entry(heap[a]).nextSerial = 0 /\ Entry(heap[a]).state = "allocated"
        <3>1. heap[a] \in Headers /\ heap[a].state = "allocated"
            BY <1>1, <1>2 DEF Types
        <3>2. QED
            BY <3>1 DEF Entry, Headers, Entries
    <2>2. QED
        BY <1>2, <1>3, <2>1, RewriteLog
<1>11. LogInv'
    <2>1. fate[s] = "live" /\ fate' = fate /\ serial' = serial
        BY <1>1, <1>2, <1>3 DEF LogInv
    <2>2. ASSUME NEW i \in 0 .. LogSize - 1, log'[i].serial # 0
          PROVE  /\ log'[i].state = "freed" <=> fate'[log'[i].serial] = "freed"
                 /\ log'[i].nextSerial # 0 <=> fate'[log'[i].serial] = "moved"
                 /\ log'[i].nextSerial <= serial'
        BY <1>1, <1>10, <2>1, <2>2 DEF LogInv
    <2>3. \A b \in Addresses : heap'[b].state = "allocated" => fate'[heap'[b].serial] = "live"
        BY <1>1, <1>4, <2>1 DEF LogInv
    <2>4. \A i, j \in 0 .. LogSize - 1 :
            log'[i].serial # 0 /\ log'[i].nextSerial # 0 /\ log'[j].serial = log'[i].nextSerial
                => log'[j].prevSerial = log'[i].serial
        BY <1>1, <1>10 DEF LogInv
    <2>5. \A i \in 0 .. LogSize - 1 : \A b \in Live' :
            log'[i].serial # 0 /\ heap'[b].serial = log'[i].serial
                => heap'[b].prevSerial = log'[i].prevSerial
        BY <1>1, <1>4, <1>8, <1>10 DEF LogInv
    <2>6. QED
        BY <1>10, <2>2, <2>3, <2>4, <2>5 DEF LogInv
<1>12. MotionInv'
    <2>1. \A u \in Threads : moving[u].at \in Addresses \cup {Null}
        BY <1>5
    <2>2. heap[a].state = "allocated"
        BY <1>1, <1>2
    <2>3. QED
        BY <1>1, <1>4, <1>5, <1>6, <1>7, <2>1, <2>2 DEF MotionInv
<1>13. Types'
    <2>1. first' \in Addresses \cup {Null}
        BY <1>1, <1>3 DEF UnlinkedFirst, Types, Headers
    <2>2. QED
        BY <1>1, <1>3, <1>4, <1>6, <1>10, <2>1 DEF Types
<1>14. TestInv'
    <2>1. SUFFICES ASSUME test.running PROVE TestInv'
        BY <1>3 DEF TestInv
    <2>2. {x \in Live' : heap'[x].thread = Tester} = {x \in Live : heap[x].thread = Tester} \ {a}
        BY <1>1, <1>4, <1>8
    <2>3. moving'[Tester].at = IF t = Tester THEN a ELSE moving[Tester].at
        BY <1>5, <1>6, ThreadsAssumption
    <2>4. t = Tester => a \in test.held /\ moving[Tester].at = Null
        BY <1>2, <1>5, <2>1
    <2>5. test.before \subseteq Addresses /\ test.held \subseteq Addresses
        BY <1>1 DEF Types
    <2>6. t # Tester => a \notin {x \in Live : heap[x].thread = Tester}
        BY <1>2, <2>1
    <2>7. test' = test
        BY <1>3
    <2>8. QED
        BY <1>1, <1>7, <2>1, <2>2, <2>3, <2>4, <2>5, <2>6, <2>7, AddressesAssumption DEF TestInv
<1>15. QED
    BY <1>4, <1>8, <1>9, <1>11, <1>12, <1>13, <1>14 DEF AllocInv

LEMMA MoveStep ==
    ASSUME AllocInv, NEW t \in Threads, NEW b \in Addresses, Move(t, b)
    PROVE  AllocInv'
<1> DEFINE a == moving[t].from
           s == heap[a].serial
           header == [heap[a] EXCEPT !.thread = t, !.prevSerial = heap[a].serial]
           motions == [from : Addresses \cup {Null}, at : Addresses \cup {Null}, serial : Nat]
<1>1. /\ Types /\ BlocksNumbered /\ Chained(heap, first, Live) /\ MotionInv /\ LogInv /\ TestInv
      /\ Live \in SUBSET Addresses /\ \A x \in Live : heap[x].state = "allocated"
    BY DEF AllocInv, Live
<1>2. /\ a # Null
      /\ b = a \/ heap[b] = Free
      /\ heap' = [heap EXCEPT ![a] = Free, ![b] = header]
      /\ moving' = [moving EXCEPT ![t].from = Null, ![t].at = b]
      /\ test' = IF a \in test.held THEN [test EXCEPT !.held = (@ \ {a}) \cup {b}] ELSE test
      /\ UNCHANGED <<first, serial, log, logIndex, page, fate>>
    BY DEF Move
<1>3. /\ moving \in [Threads -> motions] /\ heap \in [Addresses -> Headers]
      /\ a \in Addresses
      /\ moving[t].at = a /\ heap[a].state = "allocated" /\ moving[t].serial = s
      /\ \A u \in Threads : moving[u].at = a => u = t
    <2>1. moving \in [Threads -> motions] /\ heap \in [Addresses -> Headers]
        BY <1>1 DEF Types
    <2>2. a \in Addresses
        BY <1>2, <2>1
    <2>3. moving[t].at = a
        BY <1>1, <1>2, <2>1 DEF MotionInv, Still
    <2>4. QED
        BY <1>1, <1>2, <2>1, <2>2, <2>3 DEF MotionInv
<1>4. b = a \/ heap[b].state = "free"
    BY <1>2 DEF Free
<1> HIDE DEF a
<1>5. /\ header \in Headers
      /\ header.state = "allocated" /\ header.serial = s /\ header.thread = t /\ header.prevSerial = s
    <2>1. heap[a] \in Headers /\ heap[a].serial \in Nat
        BY <1>3 DEF Headers
    <2>2. QED
        BY <1>3, <2>1 DEF Headers
<1> HIDE DEF header
<1>6. Free \in Headers /\ Free.state = "free" /\ Free.serial = 0
    BY DEF Free, Headers
<1>7. /\ heap' \in [Addresses -> Headers]
      /\ \A x \in Addresses : heap'[x] = IF x = b THEN header ELSE IF x = a THEN Free ELSE heap[x]
    BY <1>2, <1>3, <1>5, <1>6
<1>8. /\ moving' \in [Threads -> motions]
      /\ \A u \in Threads : u # t => moving'[u] = moving[u]
      /\ moving'[t].from = Null /\ moving'[t].at = b /\ moving'[t].serial = s
    BY <1>2, <1>3
<1> HIDE DEF motions
<1>9. /\ \A u \in Threads : moving[u].at # Null =>
            moving[u].at \in Addresses /\ heap[moving[u].at].state = "allocated"
      /\ \A u \in Threads : moving[u].at = b => u = t
      /\ b # Null
    <2>1. \A u \in Threads : moving[u].at \in Addresses \cup {Null}
        BY <1>3 DEF motions
    <2>2. \A u \in Threads : moving[u].at # Null =>
            moving[u].at \in Addresses /\ heap[moving[u].at].state = "allocated"
        BY <1>1, <2>1 DEF MotionInv
    <2>3. QED
        BY <1>3, <1>4, <2>2, AddressesAssumption
<1>10. a \notin Live /\ b \notin Live
    BY <1>3, <1>4 DEF Live, InMotion
<1>11. \A x \in Addresses \ {a, b} : x \in InMotion' <=> x \in InMotion
    BY <1>3, <1>8 DEF InMotion
<1>12. b \in InMotion'
    BY <1>8 DEF InMotion
<1>13. Live' = Live
    BY <1>6, <1>7, <1>10, <1>11, <1>12 DEF Live
<1>14. \A x \in Live : heap'[x] = heap[x]
    BY <1>1, <1>7, <1>10
<1>15. Chained(heap', first', Live')
    BY <1>1, <1>2, <1>13, <1>14, ChainFrame, Zenon
<1>16. s # 0 /\ s \in 0 .. serial /\ \A x \in Addresses \ {a} : heap[x].state = "allocated" => heap[x].serial # s
    BY <1>1, <1>3 DEF BlocksNumbered
<1>17. BlocksNumbered'
    <2>1. serial' = serial /\ serial \in Nat
        BY <1>1, <1>2 DEF Types
    <2>2. \A x \in Addresses :
            /\ heap'[x].state = IF x = b THEN "allocated" ELSE IF x = a THEN "free" ELSE heap[x].state
            /\ heap'[x].serial = IF x = b THEN s ELSE IF x = a THEN 0 ELSE heap[x].serial
        BY <1>5, <1>6, <1>7
    <2>3. QED
        BY <1>1, <1>16, <2>1, <2>2 DEF BlocksNumbered
<1>18. LogInv'
    <2>1. \A x \in Addresses : heap'[x].state = "allocated" => fate'[heap'[x].serial] = "live"
        BY <1>1, <1>2, <1>3, <1>5, <1>6, <1>7 DEF LogInv
    <2>2. \A i \in 0 .. LogSize - 1 : \A x \in Live' :
            log'[i].serial # 0 /\ heap'[x].serial = log'[i].serial
                => heap'[x].prevSerial = log'[i].prevSerial
        <3>1. log' = log
            BY <1>2
        <3>2. QED
            BY <1>1, <1>13, <1>14, <3>1 DEF LogInv
    <2>3. \A i \in 0 .. LogSize - 1 : log'[i].serial # 0 =>
            /\ log'[i].state = "freed" <=> fate'[log'[i].serial] = "freed"
            /\ log'[i].nextSerial # 0 <=> fate'[log'[i].serial] = "moved"
            /\ log'[i].nextSerial <= serial'
            /\ \A j \in 0 .. LogSize - 1 :
                log'[i].nextSerial # 0 /\ log'[j].serial = log'[i].nextSerial
                    => log'[j].prevSerial = log'[i].serial
        BY <1>1, <1>2 DEF LogInv
    <2>4. InOrder(log', serial', logIndex')
        BY <1>1, <1>2 DEF LogInv
    <2>5. QED
        BY <2>1, <2>2, <2>3, <2>4 DEF LogInv
<1>19. MotionInv'
    <2> SUFFICES ASSUME NEW u \in Threads
                 PROVE  /\ moving'[u].at = Null => moving'[u] = Still
                        /\ moving'[u].at # Null =>
                            /\ moving'[u].from \in {Null, moving'[u].at}
                            /\ heap'[moving'[u].at].state = "allocated"
                            /\ heap'[moving'[u].at].serial = moving'[u].serial
                            /\ moving'[u].from = Null => /\ heap'[moving'[u].at].thread = u
                                                        /\ heap'[moving'[u].at].prevSerial = moving'[u].serial
                            /\ \A w \in Threads : moving'[w].at = moving'[u].at => w = u
        BY DEF MotionInv
    <2>1. CASE u = t
        BY <1>5, <1>7, <1>8, <1>9, <2>1
    <2>2. CASE u # t
        <3>1. moving'[u] = moving[u] /\ moving[u].at # a /\ moving[u].at # b
            BY <1>3, <1>8, <1>9, <2>2
        <3>2. moving[u].at # Null => heap'[moving[u].at] = heap[moving[u].at]
            BY <1>7, <1>9, <3>1
        <3>3. \A w \in Threads : moving'[w].at = moving[u].at => w # t /\ moving'[w] = moving[w]
            BY <1>8, <3>1
        <3>4. QED
            BY <1>1, <3>1, <3>2, <3>3 DEF MotionInv
    <2>3. QED
        BY <2>1, <2>2
<1>20. test \in [running : BOOLEAN, before : SUBSET Addresses, held : SUBSET Addresses]
    BY <1>1 DEF Types
<1>21. Types'
    <2>1. test' \in [running : BOOLEAN, before : SUBSET Addresses, held : SUBSET Addresses]
        BY <1>2, <1>20
    <2>2. QED
        BY <1>1, <1>2, <1>7, <1>8, <2>1 DEF Types, motions
<1>22. TestInv'
    <2>1. /\ test'.running = test.running /\ test'.before = test.before
          /\ test'.held = IF a \in test.held THEN (test.held \ {a}) \cup {b} ELSE test.held
        BY <1>2, <1>20
    <2>2. SUFFICES ASSUME test.running PROVE TestInv'
        BY <2>1 DEF TestInv
    <2>3. {x \in Live' : heap'[x].thread = Tester} = {x \in Live : heap[x].thread = Tester}
        BY <1>13, <1>14
    <2>4. CASE t = Tester
        <3>1. a \in test.held /\ moving[Tester].at = a /\ moving'[Tester].at = b
            BY <1>1, <1>2, <1>3, <1>8, <2>2, <2>4 DEF TestInv
        <3>2. b # a => b \notin test.before /\ b \notin test.held
            BY <1>1, <1>10, <2>2, <3>1 DEF TestInv
        <3>3. QED
            BY <1>1, <2>1, <2>2, <2>3, <3>1, <3>2 DEF TestInv
    <2>5. CASE t # Tester
        <3>1. moving'[Tester].at = moving[Tester].at /\ moving[Tester].at # a
            BY <1>3, <1>8, <2>5, ThreadsAssumption
        <3>2. a \notin test.held
            BY <1>1, <1>10, <2>2, <3>1 DEF TestInv
        <3>3. QED
            BY <1>1, <2>1, <2>2, <2>3, <3>1, <3>2 DEF TestInv
    <2>6. QED
        BY <2>4, <2>5
<1>23. QED
    BY <1>15, <1>17, <1>18, <1>19, <1>21, <1>22 DEF AllocInv

LEMMA PutBackStep ==
    ASSUME AllocInv, NEW t \in Threads, PutBack(t)
    PROVE  AllocInv'
<1> DEFINE a == moving[t].at
           s == moving[t].serial
           header == [heap[a] EXCEPT !.serial = serial + 1]
           motions == [from : Addresses \cup {Null}, at : Addresses \cup {Null}, serial : Nat]
<1>1. /\ Types /\ BlocksNumbered /\ Chained(heap, first, Live) /\ MotionInv /\ LogInv /\ TestInv
      /\ MaxSerial \in Nat /\ serial \in 0 .. MaxSerial
      /\ moving \in [Threads -> motions] /\ heap \in [Addresses -> Headers]
      /\ fate \in [1 .. MaxSerial -> Fates]
    BY LogAssumption DEF AllocInv, Types
<1>2. /\ moving[t].from = Null /\ a # Null
      /\ serial < MaxSerial
      /\ Enter(a, header)
      /\ moving' = [moving EXCEPT ![t] = Still]
      /\ fate' = [fate EXCEPT ![s] = "moved", ![serial + 1] = "live"]
      /\ UNCHANGED <<test, page>>
    BY DEF PutBack
<1>3. /\ a \in Addresses /\ a \in InMotion
      /\ heap[a].state = "allocated" /\ heap[a].serial = s
      /\ heap[a].thread = t /\ heap[a].prevSerial = s
      /\ \A u \in Threads : moving[u].at = a => u = t
    BY <1>1, <1>2 DEF MotionInv, InMotion
<1>4. a \in Addresses \ Live
    BY <1>3 DEF Live
<1>5. /\ header \in Headers
      /\ header.state = "allocated" /\ header.serial = serial + 1
      /\ header.thread = t /\ header.prevSerial = s
    <2>1. heap[a] \in Headers /\ serial + 1 \in Nat
        BY <1>1, <1>3
    <2>2. QED
        BY <1>3, <2>1 DEF Headers
<1> HIDE DEF header
<1>6. /\ s \in 1 .. serial /\ fate[s] = "live"
      /\ \A x \in Addresses \ {a} : heap[x].state = "allocated" => heap[x].serial # s
    <2>1. s \in 0 .. serial /\ s # 0
        BY <1>1, <1>3 DEF BlocksNumbered
    <2>2. QED
        BY <1>1, <1>3, <2>1 DEF BlocksNumbered, LogInv
<1>7. /\ fate' \in [1 .. MaxSerial -> Fates]
      /\ \A r \in 1 .. MaxSerial :
            fate'[r] = IF r = serial + 1 THEN "live"
                       ELSE IF r = header.prevSerial THEN "moved" ELSE fate[r]
    BY <1>1, <1>2, <1>5, <1>6 DEF Fates
<1>8. /\ moving' \in [Threads -> motions]
      /\ \A u \in Threads : moving'[u] = IF u = t THEN Still ELSE moving[u]
    <2>1. Still \in motions
        BY DEF Still
    <2>2. QED
        BY <1>1, <1>2, <2>1
<1>9. Still.at = Null /\ Still.from = Null
    BY DEF Still
<1> HIDE DEF motions, a, s
<1>10. Live' = Live \cup {a}
    <2>1. heap' = Linked(heap, a, header)
        BY <1>2 DEF Enter
    <2>2. \A x \in Addresses : heap'[x].state = heap[x].state
        BY <1>1, <1>3, <1>5, <2>1 DEF Linked, Headers
    <2>3. \A x \in Addresses : x \in InMotion' <=> x \in InMotion /\ x # a
        BY <1>3, <1>8, <1>9, AddressesAssumption DEF InMotion, a
    <2>4. QED
        BY <1>3, <2>2, <2>3 DEF Live
<1>11. /\ heap' \in [Addresses -> Headers]
       /\ \A x \in Addresses :
            LET was == IF x = a THEN header ELSE heap[x]
            IN  /\ heap'[x].state = was.state
                /\ heap'[x].serial = was.serial
                /\ heap'[x].thread = was.thread
                /\ heap'[x].prevSerial = was.prevSerial
       /\ first' \in Addresses \cup {Null}
       /\ serial' = serial + 1 /\ serial' \in 0 .. MaxSerial
       /\ log' \in [0 .. LogSize - 1 -> Entries] /\ logIndex' \in 0 .. LogSize - 1
       /\ BlocksNumbered'
       /\ Chained(heap', first', Live')
       /\ LogInv'
    <2>1. /\ header.prevSerial \in 0 .. serial
          /\ header.prevSerial # 0 => fate[header.prevSerial] = "live"
          /\ \A x \in Addresses \ {a} : heap[x].state = "allocated" => heap[x].serial # header.prevSerial
        BY <1>1, <1>5, <1>6
    <2>2. QED
        BY <1>2, <1>4, <1>5, <1>7, <1>10, <2>1, EnterInv, Zenon
<1>12. MotionInv'
    <2>1. ASSUME NEW u \in Threads, u # t
          PROVE  moving[u].at # a /\ moving[u].at \in Addresses \cup {Null}
        BY <1>1, <1>3, <2>1 DEF motions
    <2>2. QED
        BY <1>1, <1>8, <1>9, <1>11, <2>1 DEF MotionInv
<1>13. Types'
    <2>1. page' \in [walking : BOOLEAN, next : 0 .. serial']
        BY <1>1, <1>2, <1>11 DEF Types
    <2>2. test' \in [running : BOOLEAN, before : SUBSET Addresses, held : SUBSET Addresses]
        BY <1>1, <1>2 DEF Types
    <2>3. QED
        BY <1>7, <1>8, <1>11, <2>1, <2>2 DEF Types, motions
<1>14. TestInv'
    <2>1. SUFFICES ASSUME test.running PROVE TestInv'
        BY <1>2 DEF TestInv
    <2>2. {x \in Live' : heap'[x].thread = Tester}
            = {x \in Live : heap[x].thread = Tester} \cup (IF t = Tester THEN {a} ELSE {})
        BY <1>4, <1>5, <1>10, <1>11 DEF Live
    <2>3. CASE t = Tester
        <3>1. moving'[Tester].at = Null /\ moving[Tester].at = a
            BY <1>8, <1>9, <2>3, ThreadsAssumption DEF a
        <3>2. a \in test.held /\ Null \notin test.before \cup test.held
            BY <1>1, <1>2, <2>1, <3>1, AddressesAssumption DEF TestInv, Types, a
        <3>3. QED
            BY <1>1, <1>2, <2>1, <2>2, <2>3, <3>1, <3>2 DEF TestInv
    <2>4. CASE t # Tester
        <3>1. moving'[Tester] = moving[Tester]
            BY <1>8, <2>4, ThreadsAssumption
        <3>2. QED
            BY <1>1, <1>2, <2>1, <2>2, <2>4, <3>1 DEF TestInv
    <2>5. QED
        BY <2>3, <2>4
<1>15. QED
    BY <1>11, <1>12, <1>13, <1>14 DEF AllocInv

-----------------------------------------------------------------------------
(* A traversal of the list.                                                *)

\* Nth is what its equations say.
LEMMA NthDefined ==
    ASSUME Types
    PROVE  /\ Cardinality(Addresses) \in Nat
           /\ Nth[0] = first
           /\ \A n \in 0 .. Cardinality(Addresses) - 1 :
                Nth[n + 1] = IF Nth[n] = Null THEN Null ELSE heap[Nth[n]].next
<1> DEFINE N == Cardinality(Addresses)
           S == Addresses \cup {Null}
           after(x) == IF x = Null THEN Null ELSE heap[x].next
           step == [p \in Nat \X S |-> after(p[2])]
           eq(g) == g = [n \in 0 .. N |-> IF n = 0 THEN first ELSE after(g[n - 1])]
<1>1. N \in Nat
    BY FS_CardinalityType, AddressesAssumption
<1>2. first \in S /\ \A x \in S : after(x) \in S
    BY DEF Types, Headers
<1> HIDE DEF S, N, after
<1>3. step \in [Nat \X S -> S] /\ \A n \in Nat, x \in S : step[<<n, x>>] = after(x)
    BY <1>2
<1> HIDE DEF step
<1>4. PICK g : Unfolds(g, S, first, step, N)
    BY <1>1, <1>2, <1>3, RecursionExists, Zenon
<1>5. eq(g)
    <2>0. g \in [0 .. N -> S] /\ g[0] = first /\ \A i \in 0 .. N - 1 : g[i + 1] = step[<<i, g[i]>>]
        BY <1>4 DEF Unfolds
    <2>1. ASSUME NEW n \in 0 .. N PROVE g[n] = IF n = 0 THEN first ELSE after(g[n - 1])
        <3>1. CASE n = 0
            BY <2>0, <3>1
        <3>2. CASE n # 0
            <4>1. n - 1 \in 0 .. N - 1 /\ n - 1 \in Nat /\ n - 1 \in 0 .. N /\ (n - 1) + 1 = n
                BY <1>1, <3>2
            <4>2. g[n] = step[<<n - 1, g[n - 1]>>]
                BY <2>0, <4>1
            <4>3. QED
                <5>1. g[n - 1] \in S
                    BY <2>0, <4>1
                <5>2. step[<<n - 1, g[n - 1]>>] = after(g[n - 1])
                    BY <1>3, <4>1, <5>1, Zenon
                <5>3. QED
                    BY <3>2, <4>2, <5>2
        <3>3. QED
            BY <3>1, <3>2
    <2>2. QED
        BY <2>0, <2>1
<1>6. Nth = CHOOSE f : eq(f)
    BY DEF Nth, N, after
<1> HIDE DEF eq
<1>7. eq(Nth)
    BY <1>5, <1>6
<1>8. Nth = [n \in 0 .. N |-> IF n = 0 THEN first ELSE after(Nth[n - 1])]
    BY <1>7 DEF eq
<1>9. Nth[0] = first /\ \A n \in 0 .. N - 1 : Nth[n + 1] = after(Nth[n])
    <2>1. 0 \in 0 .. N /\ \A n \in 0 .. N - 1 : n + 1 \in 0 .. N /\ n + 1 # 0 /\ (n + 1) - 1 = n
        BY <1>1
    <2>2. Nth[0] = first
        BY <1>8, <2>1
    <2>3. ASSUME NEW n \in 0 .. N - 1 PROVE Nth[n + 1] = after(Nth[n])
        <3>1. Nth[n + 1] = IF n + 1 = 0 THEN first ELSE after(Nth[(n + 1) - 1])
            BY <1>8, <2>1
        <3>2. QED
            BY <2>1, <3>1
    <2>4. QED
        BY <2>2, <2>3
<1>10. QED
    BY <1>1, <1>9 DEF N, after

\* Following the next pointers finds the live blocks and nothing else, and no
\* more steps are needed than there are addresses.
LEMMA ListedIsLive ==
    ASSUME Types, BlocksNumbered, Chained(heap, first, Live)
    PROVE  Listed = Live
<1> DEFINE N == Cardinality(Addresses)
           Above(a) == { b \in Live : heap[b].serial > heap[a].serial }
           Ends == { n \in Nat : n <= N => Nth[n] \in Live \cup {Null} }
           Found == { n \in Nat : \A a \in Live : Cardinality(Above(a)) = n => Nth[n] = a }
<1>1. /\ N \in Nat /\ Nth[0] = first
      /\ \A n \in 0 .. N - 1 : Nth[n + 1] = IF Nth[n] = Null THEN Null ELSE heap[Nth[n]].next
    BY NthDefined
<1>2. /\ Live \subseteq Addresses /\ Null \notin Live /\ Root \notin Live
      /\ \A a \in Live : heap[a].serial \in Int
      /\ \A a, b \in Live : heap[a].serial = heap[b].serial => a = b
    BY AddressesAssumption DEF Live, BlocksNumbered
<1>3. ASSUME NEW a \in Live
      PROVE  IsFiniteSet(Above(a)) /\ Cardinality(Above(a)) \in 0 .. N
    <2>1. IsFiniteSet(Addresses) /\ Above(a) \in SUBSET Addresses
        BY <1>2, AddressesAssumption
    <2> HIDE DEF Above
    <2>2. IsFiniteSet(Above(a)) /\ Cardinality(Above(a)) <= N
        BY <2>1, FS_Subset
    <2>3. Cardinality(Above(a)) \in Nat
        BY <2>2, FS_CardinalityType
    <2>4. QED
        BY <1>1, <2>2, <2>3
<1> HIDE DEF N
<1>4. Ends = Nat
    <2>1. 0 \in Ends
        BY <1>1 DEF Chained
    <2>2. ASSUME NEW n \in Ends PROVE n + 1 \in Ends
        <3>1. SUFFICES ASSUME n + 1 <= N PROVE Nth[n + 1] \in Live \cup {Null}
            OBVIOUS
        <3>2. n \in Nat /\ n \in 0 .. N - 1 /\ Nth[n] \in Live \cup {Null}
            BY <1>1, <3>1
        <3>3. QED
            BY <1>1, <3>2 DEF Chained
    <2> HIDE DEF Ends
    <2>3. Ends \in SUBSET Nat
        BY DEF Ends
    <2>4. QED
        BY <2>1, <2>2, <2>3, SetInduction
<1>5. Found = Nat
    <2>1. 0 \in Found
        <3>1. ASSUME NEW a \in Live, Cardinality(Above(a)) = 0 PROVE first = a
            <4> HIDE DEF Above
            <4>1. Above(a) = {}
                BY <1>3, <3>1, FS_EmptySet
            <4>2. first \in Live /\ heap[a].serial <= heap[first].serial
                BY DEF Chained
            <4>3. ~(heap[first].serial > heap[a].serial)
                BY <4>1, <4>2 DEF Above
            <4>4. QED
                BY <1>2, <4>2, <4>3
        <3>2. QED
            BY <1>1, <3>1
    <2>2. ASSUME NEW n \in Found PROVE n + 1 \in Found
        <3>1. SUFFICES ASSUME NEW a \in Live, Cardinality(Above(a)) = n + 1
                       PROVE  Nth[n + 1] = a
            OBVIOUS
        <3> DEFINE p == heap[a].prev
        <3>2. a # first
            <4>1. ASSUME a = first PROVE Above(a) = {}
                BY <1>2, <4>1 DEF Chained
            <4> HIDE DEF Above
            <4>2. QED
                BY <3>1, <4>1, FS_EmptySet
        <3>3. p \in Live /\ heap[p].next = a
            BY <3>2 DEF Chained
        <3>4. heap[a].serial < heap[p].serial
            BY <1>2, <3>3 DEF Chained
        <3> HIDE DEF p
        <3>5. ASSUME NEW b \in Live, heap[b].serial > heap[a].serial
              PROVE  heap[b].serial >= heap[p].serial
            BY <1>2, <3>3, <3>5 DEF Chained
        <3>6. Above(a) = Above(p) \cup {p} /\ p \notin Above(p)
            BY <1>2, <3>3, <3>4, <3>5
        <3>7. IsFiniteSet(Above(p)) /\ Cardinality(Above(p)) \in 0 .. N
            BY <1>3, <3>3
        <3>8. n \in Nat /\ n + 1 \in 0 .. N
            BY <1>3, <3>1
        <3> HIDE DEF Above
        <3>9. Cardinality(Above(p)) + 1 = n + 1
            BY <3>1, <3>6, <3>7, FS_AddElement
        <3>10. Nth[n] = p
            BY <1>1, <3>3, <3>7, <3>8, <3>9
        <3>11. QED
            BY <1>1, <1>2, <3>3, <3>8, <3>10
    <2> HIDE DEF Found
    <2>3. Found \in SUBSET Nat
        BY DEF Found
    <2>4. QED
        BY <2>1, <2>2, <2>3, SetInduction
<1>6. Listed = { Nth[n] : n \in 0 .. N } \ {Null}
    BY DEF Listed, N
<1>7. Listed \subseteq Live
    BY <1>1, <1>4, <1>6
<1>8. ASSUME NEW a \in Live PROVE a \in Listed
    <2>1. Cardinality(Above(a)) \in 0 .. N
        BY <1>3
    <2> DEFINE n == Cardinality(Above(a))
    <2>2. Nth[n] = a
        BY <1>5, <2>1
    <2> HIDE DEF n, Above
    <2>3. QED
        BY <1>2, <1>6, <2>1, <2>2 DEF n
<1>9. QED
    BY <1>7, <1>8

\* The steps of test_call and of the page leave the allocator alone.
LEMMA ReaderStep ==
    ASSUME AllocInv, BeginTest \/ EndTest \/ BeginWalk \/ Walk \/ UNCHANGED vars
    PROVE  AllocInv'
<1> USE DEF AllocInv
<1>1. /\ UNCHANGED <<heap, first, serial, log, logIndex, moving, fate>>
      /\ Live' = Live
    BY DEF BeginTest, EndTest, BeginWalk, Walk, vars, Live, InMotion
<1>2. /\ Chained(heap', first', Live') /\ BlocksNumbered' /\ MotionInv' /\ LogInv'
    BY <1>1 DEF BlocksNumbered, MotionInv, LogInv
<1>3. page' \in [walking : BOOLEAN, next : 0 .. serial']
    <2>1. page \in [walking : BOOLEAN, next : 0 .. serial] /\ serial \in Nat /\ serial' = serial
        BY <1>1 DEF Types
    <2>2. CASE BeginWalk
        BY <2>1, <2>2 DEF BeginWalk
    <2>3. CASE Walk
        <3>1. CASE InLog(page.next) = {}
            BY <2>1, <2>3, <3>1 DEF Walk, NoWalk
        <3>2. CASE InLog(page.next) # {}
            <4>1. page.next # 0 /\ page.next - 1 \in 0 .. serial
                BY <2>1, <3>2 DEF InLog, Lookup
            <4>2. QED
                BY <2>1, <2>3, <3>2, <4>1 DEF Walk
        <3>3. QED
            BY <3>1, <3>2
    <2>4. CASE UNCHANGED page
        BY <2>1, <2>4
    <2>5. QED
        BY <2>2, <2>3, <2>4 DEF BeginTest, EndTest, vars
<1>4. Snapshot = { a \in Live : heap[a].thread = Tester }
    BY ListedIsLive DEF Snapshot
<1>5. /\ test' \in [running : BOOLEAN, before : SUBSET Addresses, held : SUBSET Addresses]
      /\ TestInv'
    <2>1. CASE BeginTest
        <3>1. test' = [running |-> TRUE, before |-> Snapshot, held |-> {}] /\ moving[Tester].at = Null
            BY <2>1 DEF BeginTest, Still
        <3>2. Snapshot \subseteq Addresses /\ Null \notin Snapshot
            BY <1>4, AddressesAssumption DEF Live
        <3>3. QED
            BY <1>1, <1>4, <3>1, <3>2 DEF TestInv
    <2>2. CASE EndTest
        BY <2>2 DEF EndTest, NoTest, TestInv
    <2>3. CASE UNCHANGED test
        BY <1>1, <2>3 DEF Types, TestInv
    <2>4. QED
        BY <2>1, <2>2, <2>3 DEF BeginWalk, Walk, vars
<1>6. Types'
    BY <1>1, <1>3, <1>5 DEF Types
<1>7. QED
    BY <1>2, <1>5, <1>6

-----------------------------------------------------------------------------
(* The theorems.                                                           *)

LEMMA AllocInit == Init => AllocInv
<1> SUFFICES ASSUME Init PROVE AllocInv
    OBVIOUS
<1> USE LogAssumption DEF Init
<1>1. Types
    <2>1. Free \in Headers /\ NoEntry \in Entries
        BY DEF Free, NoEntry, Headers, Entries
    <2>2. /\ Still \in [from : Addresses \cup {Null}, at : Addresses \cup {Null}, serial : Nat]
          /\ NoTest \in [running : BOOLEAN, before : SUBSET Addresses, held : SUBSET Addresses]
          /\ NoWalk \in [walking : BOOLEAN, next : 0 .. 0]
        BY DEF Still, NoTest, NoWalk
    <2>3. QED
        BY <2>1, <2>2 DEF Types, Fates
<1>2. \A a \in Addresses : heap[a].state = "free" /\ heap[a].serial = 0
    BY DEF Free
<1>3. Live = {}
    BY <1>2 DEF Live
<1>4. BlocksNumbered
    BY <1>2 DEF BlocksNumbered
<1>5. Chained(heap, first, Live)
    BY <1>3 DEF Chained
<1>6. MotionInv
    BY DEF MotionInv, Still
<1>7. LogInv
    <2>1. \A i \in 0 .. LogSize - 1 : log[i].serial = 0
        BY DEF NoEntry
    <2>2. InOrder(log, serial, logIndex)
        BY <2>1 DEF InOrder, SerialAt, SlotAge
    <2>3. QED
        BY <1>2, <2>1, <2>2 DEF LogInv
<1>8. TestInv
    BY DEF TestInv, NoTest
<1>9. QED
    BY <1>1, <1>4, <1>5, <1>6, <1>7, <1>8 DEF AllocInv

LEMMA AllocStep == AllocInv /\ [Next]_vars => AllocInv'
<1> SUFFICES ASSUME AllocInv, [Next]_vars PROVE AllocInv'
    OBVIOUS
<1>1. ASSUME NEW t \in Threads, NEW a \in Addresses, Allocate(t, a) PROVE AllocInv'
    BY <1>1, AllocateStep
<1>2. ASSUME NEW t \in Threads, NEW a \in Addresses, Release(t, a) PROVE AllocInv'
    BY <1>2, ReleaseStep
<1>3. ASSUME NEW t \in Threads, NEW a \in Addresses, TakeOut(t, a) PROVE AllocInv'
    BY <1>3, TakeOutStep
<1>4. ASSUME NEW t \in Threads, NEW a \in Addresses, Move(t, a) PROVE AllocInv'
    BY <1>4, MoveStep
<1>5. ASSUME NEW t \in Threads, PutBack(t) PROVE AllocInv'
    BY <1>5, PutBackStep
<1>6. CASE BeginTest \/ EndTest \/ BeginWalk \/ Walk \/ UNCHANGED vars
    BY <1>6, ReaderStep
<1>7. QED
    BY <1>1, <1>2, <1>3, <1>4, <1>5, <1>6 DEF Next

\* The inductive invariant of the allocator, its users included.
THEOREM AllocInvariant == Spec => []AllocInv
BY AllocInit, AllocStep, PTL DEF Spec

\* Every variable keeps to its range, the log's index included.
THEOREM AllocTypes == Spec => []TypeOK
<1>1. AllocInv => TypeOK
    BY LogAssumption DEF AllocInv, Types, BlocksNumbered, TypeOK, Headers
<1>2. QED
    BY <1>1, AllocInvariant, PTL

\* Whoever frees or reallocates what, the list is the live blocks, the newest
\* first, and can be walked both ways, even while realloc() has the lock open.
THEOREM ListIsAlwaysHeap == Spec => []ListIsHeap
<1>1. AllocInv => ListIsHeap
    <2> SUFFICES ASSUME AllocInv PROVE ListIsHeap
        OBVIOUS
    <2>1. Chained(heap, first, Live) /\ Listed = Live
        BY ListedIsLive DEF AllocInv
    <2>2. Null \notin Live /\ Root \notin Live
        BY AddressesAssumption DEF Live
    <2>3. QED
        BY <2>1, <2>2 DEF ListIsHeap, Chained, Live
<1>2. QED
    BY <1>1, AllocInvariant, PTL

\* The log finds the last LogSize serials and tells what became of each: live,
\* freed, or reallocated under a serial that points back.
THEOREM LogAlwaysTells == Spec => []LogTellsFate
<1>1. AllocInv => LogTellsFate
    <2> SUFFICES ASSUME AllocInv PROVE LogTellsFate
        OBVIOUS
    <2>1. /\ LogInv /\ InOrder(log, serial, logIndex) /\ serial \in Nat
          /\ logIndex \in 0 .. LogSize - 1 /\ log \in [0 .. LogSize - 1 -> Entries]
        BY DEF AllocInv, LogInv, Types
    <2>2. LogIsWindow
        BY <2>1, OrderIsWindow DEF AllocInv
    <2>3. \A s \in 0 .. serial : InLog(s) = { i \in 0 .. LogSize - 1 : s # 0 /\ log[i].serial = s }
        <3> SUFFICES ASSUME NEW s \in 0 .. serial
                     PROVE  InLog(s) = { i \in 0 .. LogSize - 1 : s # 0 /\ log[i].serial = s }
            OBVIOUS
        <3>1. Lookup(s, serial, logIndex, log) = { i \in 0 .. LogSize - 1 : s # 0 /\ log[i].serial = s }
            <4>1. serial \in Nat /\ logIndex \in 0 .. LogSize - 1 /\ InOrder(log, serial, logIndex)
                BY <2>1
            <4>2. s \in 0 .. serial
                OBVIOUS
            <4>3. QED
                BY <4>1, <4>2, LookupSlots
        <3>2. QED
            BY <3>1 DEF InLog
    <2>4. ASSUME NEW s \in 1 .. serial, NEW i \in InLog(s)
          PROVE  /\ log[i].state = "freed" <=> fate[s] = "freed"
                 /\ log[i].nextSerial # 0 <=> fate[s] = "moved"
                 /\ \A j \in InLog(log[i].nextSerial) : log[j].prevSerial = s
        <3>1. i \in 0 .. LogSize - 1 /\ log[i].serial = s /\ s # 0
            BY <2>1, <2>3, <2>4
        <3>2. log[i].nextSerial \in 0 .. serial
            BY <2>1, <3>1 DEF LogInv, Entries
        <3>3. QED
            BY <2>1, <2>3, <3>1, <3>2 DEF LogInv
    <2>5. QED
        BY <2>2, <2>4 DEF LogTellsFate
<1>2. QED
    BY <1>1, AllocInvariant, PTL

\* A test is charged with the blocks it allocated and did not free, moved or
\* not, whatever the other threads do meanwhile.
THEOREM LeakIsAlwaysExact == Spec => []LeakIsExact
<1>1. AllocInv => LeakIsExact
    <2> SUFFICES ASSUME AllocInv, test.running, moving[Tester] = Still PROVE Leaked = test.held
        BY DEF LeakIsExact
    <2>1. Listed = Live
        BY ListedIsLive DEF AllocInv
    <2>2. moving[Tester].at = Null /\ Null \notin test.held /\ Null \notin test.before
        BY AddressesAssumption DEF Still, AllocInv, Types
    <2>3. QED
        BY <2>1, <2>2 DEF AllocInv, TestInv, Leaked, Snapshot
<1>2. QED
    BY <1>1, AllocInvariant, PTL

\* The page of allocations only ends at the first serial or at one the log has
\* lost, however many blocks are allocated while it is rendered.
THEOREM WalkIsAlwaysComplete == Spec => WalkIsComplete
<1>1. AllocInv /\ [Next]_vars =>
        [page.walking /\ ~page'.walking => page.next = 0 \/ page.next <= serial - LogSize]_vars
    <2> SUFFICES ASSUME AllocInv, Next, page.walking, ~page'.walking
                 PROVE  page.next = 0 \/ page.next <= serial - LogSize
        OBVIOUS
    <2>1. page \in [walking : BOOLEAN, next : 0 .. serial] /\ serial \in Nat
        BY DEF AllocInv, Types
    <2>2. Walk
        BY DEF Next, Allocate, Release, TakeOut, Move, PutBack, BeginTest, EndTest, BeginWalk
    <2>3. InLog(page.next) = {}
        BY <2>1, <2>2 DEF Walk
    <2>4. LogIsWindow
        BY OrderIsWindow DEF AllocInv, LogInv
    <2>5. QED
        BY <2>1, <2>3, <2>4, LogAssumption DEF LogIsWindow
<1>2. QED
    BY <1>1, AllocInvariant, PTL DEF Spec, WalkIsComplete
=============================================================================
