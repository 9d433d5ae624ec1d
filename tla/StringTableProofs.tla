-------------------------- MODULE StringTableProofs --------------------------
(***************************************************************************)
(* Proofs about StringTable.tla, for any strings, hash function and number *)
(* of calls: pointers stand for strings, whatever the table does.          *)
(*                                                                         *)
(* What makes it true is that every entry can be reached from its home:    *)
(* the slots from there to the entry, going round, are all taken.  The     *)
(* empty slot at which a lookup gives up is then past every slot where the *)
(* string could be.  Both intern() and the rehash fill the first free slot *)
(* from an entry's home, which keeps all entries reachable.                *)
(***************************************************************************)
EXTENDS StringTable, ProofBasics, FiniteSetTheorems

-----------------------------------------------------------------------------
(* The inductive invariant.                                                *)

Entries == [hash : 0 .. HashRange - 1, data : 0 .. Len(copies)]

\* Each entry of the slots t, n of them, is found by probing from its hash.
Reachable(t, n) ==
    \A i \in 0 .. n - 1 :
        t[i].data # Null =>
            \E k \in 0 .. n - 1 : /\ (t[i].hash + k) % n = i
                                  /\ \A j \in 0 .. k - 1 : t[(t[i].hash + j) % n].data # Null

\* No copy is in two slots.
Distinct(t, n) ==
    \A i, j \in 0 .. n - 1 : t[i].data # Null /\ t[i].data = t[j].data => i = j

\* An entry has the hash of the string its data pointer points at.
Hashed(t, n) ==
    \A i \in 0 .. n - 1 : t[i].data # Null => t[i].hash = hash[copies[t[i].data]]

\* Every copy is in the table.
Complete(t, n) ==
    \A d \in 1 .. Len(copies) : \E i \in 0 .. n - 1 : t[i].data = d

\* The slots t, n of them, hold each copy once, where probing finds it.
Kept(t, n) ==
    /\ n \in Nat
    /\ t \in [0 .. n - 1 -> Entries]
    /\ Reachable(t, n)
    /\ Distinct(t, n)
    /\ Hashed(t, n)
    /\ Complete(t, n)

CopiesDiffer == \A a, b \in 1 .. Len(copies) : copies[a] = copies[b] => a = b

TableInv ==
    /\ hash \in [Strings -> 0 .. HashRange - 1]
    /\ copies \in Seq(Strings)
    /\ trapped \in BOOLEAN
    /\ CopiesDiffer
    /\ Kept(slots, size)
    /\ count = Len(copies)
    /\ count <= (size * 3) \div 4

Occupied(t, n) == { i \in 0 .. n - 1 : t[i].data # Null }

-----------------------------------------------------------------------------
(* Probing.                                                                *)

\* Probing stops at the first wanted slot, if one is wanted at all.
LEMMA ProbedIsFirst ==
    ASSUME NEW h \in Nat, NEW n \in Nat \ {0}, NEW wanted, NEW i \in 0 .. n - 1, i \in wanted
    PROVE  \E k \in 0 .. n - 1 : /\ Probed(h, n, wanted) = (h + k) % n
                                 /\ (h + k) % n \in wanted
                                 /\ (h + k) % n \in 0 .. n - 1
                                 /\ \A j \in 0 .. k - 1 : (h + j) % n \notin wanted
<1> DEFINE at(k) == (h + k) % n
           K == { k \in 0 .. n - 1 : at(k) \in wanted }
           best(k) == at(k) \in wanted /\ \A j \in 0 .. k - 1 : at(j) \notin wanted
<1>1. K \in SUBSET Nat /\ K # {}
    <2>0. h \in Int
        OBVIOUS
    <2>1. PICK k \in 0 .. n - 1 : (h + k) % n = i
        BY <2>0, AllTheWayRound, Zenon
    <2>2. k \in K
        BY <2>1
    <2>3. K \in SUBSET Nat
        <3>1. 0 .. n - 1 \in SUBSET Nat
            OBVIOUS
        <3>2. QED
            BY <3>1
    <2>4. QED
        BY <2>2, <2>3
<1>2. PICK k \in K : \A m \in K : k <= m
    BY <1>1, LeastNatural
<1>3. k \in 0 .. n - 1 /\ best(k)
    BY <1>2
<1>4. Probed(h, n, wanted) = at(CHOOSE x \in 0 .. n - 1 : best(x))
    BY DEF Probed
<1> HIDE DEF best
<1>5. (CHOOSE x \in 0 .. n - 1 : best(x)) \in 0 .. n - 1 /\ best(CHOOSE x \in 0 .. n - 1 : best(x))
    BY <1>3
<1> DEFINE c == CHOOSE x \in 0 .. n - 1 : best(x)
<1> HIDE DEF c
<1>6. c \in 0 .. n - 1 /\ best(c) /\ Probed(h, n, wanted) = at(c)
    BY <1>4, <1>5 DEF c
<1>7. at(c) \in 0 .. n - 1
    BY <1>6, StaysWithin
<1>8. QED
    BY <1>6, <1>7 DEF best

\* An entry put into the first free slot from its hash is reachable there, and
\* the entries that were reachable still are.
LEMMA AddedIsReachable ==
    ASSUME NEW n \in Nat \ {0}, NEW t, NEW D, t \in [0 .. n - 1 -> [hash : Nat, data : D]],
           Reachable(t, n), NEW e \in [hash : Nat, data : D], e.data # Null,
           NEW k \in 0 .. n - 1,
           (e.hash + k) % n \in 0 .. n - 1,
           \A j \in 0 .. k - 1 : t[(e.hash + j) % n].data # Null
    PROVE  Reachable([t EXCEPT ![(e.hash + k) % n] = e], n)
<1> DEFINE at == (e.hash + k) % n
           u == [t EXCEPT ![at] = e]
<1>1. \A i \in 0 .. n - 1 : u[i] = IF i = at THEN e ELSE t[i]
    OBVIOUS
<1>2. \A h \in Nat, j \in Nat : (h + j) % n \in 0 .. n - 1
    <2> SUFFICES ASSUME NEW h \in Nat, NEW j \in Nat PROVE (h + j) % n \in 0 .. n - 1
        OBVIOUS
    <2>1. h \in Int /\ j \in Int
        OBVIOUS
    <2>2. QED
        BY <2>1, StaysWithin, Zenon
<1> HIDE DEF u
<1>3. ASSUME NEW i \in 0 .. n - 1, t[i].data # Null PROVE u[i].data # Null
    BY <1>1, <1>3
<1>4. ASSUME NEW i \in 0 .. n - 1, u[i].data # Null
      PROVE  \E m \in 0 .. n - 1 : /\ (u[i].hash + m) % n = i
                                   /\ \A j \in 0 .. m - 1 : u[(u[i].hash + j) % n].data # Null
    <2>1. CASE i = at
        <3>1. u[i] = e
            BY <1>1, <2>1
        <3>2. ASSUME NEW j \in 0 .. k - 1 PROVE u[(e.hash + j) % n].data # Null
            <4>1. (e.hash + j) % n \in 0 .. n - 1
                <5>1. e.hash \in Nat /\ j \in Nat
                    OBVIOUS
                <5>2. QED
                    BY <1>2, <5>1, Zenon
            <4>2. QED
                BY <1>3, <4>1
        <3>3. QED
            BY <2>1, <3>1, <3>2
    <2>2. CASE i # at
        <3>1. u[i] = t[i] /\ t[i].hash \in Nat
            BY <1>1, <2>2
        <3>2. PICK m \in 0 .. n - 1 : /\ (t[i].hash + m) % n = i
                                      /\ \A j \in 0 .. m - 1 : t[(t[i].hash + j) % n].data # Null
            BY <1>4, <3>1 DEF Reachable
        <3>3. ASSUME NEW j \in 0 .. m - 1 PROVE u[(t[i].hash + j) % n].data # Null
            <4>1. (t[i].hash + j) % n \in 0 .. n - 1
                <5>1. t[i].hash \in Nat /\ j \in Nat
                    BY <3>1
                <5>2. QED
                    BY <1>2, <5>1, Zenon
            <4>2. QED
                BY <1>3, <3>2, <4>1
        <3>4. QED
            BY <3>1, <3>2, <3>3
    <2>3. QED
        BY <2>1, <2>2
<1>5. QED
    BY <1>4 DEF Reachable, u

-----------------------------------------------------------------------------
(* Counting.                                                               *)

\* There are no more entries than copies, and as many if none is left out.
LEMMA OccupiedCount ==
    ASSUME NEW n \in Nat, NEW t, t \in [0 .. n - 1 -> Entries], Distinct(t, n), Len(copies) \in Nat
    PROVE  /\ IsFiniteSet(Occupied(t, n))
           /\ Cardinality(Occupied(t, n)) \in Nat
           /\ Cardinality(Occupied(t, n)) <= Len(copies)
           /\ Complete(t, n) => Cardinality(Occupied(t, n)) = Len(copies)
<1> DEFINE S == Occupied(t, n)
           D == 1 .. Len(copies)
           f == [i \in S |-> t[i].data]
<1>1. IsFiniteSet(D) /\ Cardinality(D) = Len(copies)
    <2> DEFINE l == Len(copies)
    <2> HIDE DEF l
    <2>1. l \in Nat
        BY DEF l
    <2>2. IsFiniteSet(1 .. l) /\ Cardinality(1 .. l) = IF 1 > l THEN 0 ELSE l - 1 + 1
        <3>1. 1 \in Int /\ l \in Int
            BY <2>1
        <3>2. QED
            BY <3>1, FS_Interval, Zenon
    <2>3. QED
        BY <2>1, <2>2 DEF l
<1>2. \A i \in S : i \in 0 .. n - 1 /\ t[i].data \in D /\ t[i].data # Null
    BY DEF Occupied, Entries, Null
<1>3. f \in Injection(S, D)
    <2>1. f \in [S -> D]
        BY <1>2
    <2>2. \A i, j \in S : f[i] = f[j] => i = j
        BY <1>2 DEF Distinct
    <2> HIDE DEF f, S, D
    <2>3. QED
        BY <2>1, <2>2 DEF Injection, IsInjective
<1>4. Complete(t, n) => f \in Surjection(S, D)
    <2> SUFFICES ASSUME Complete(t, n) PROVE f \in Surjection(S, D)
        OBVIOUS
    <2>1. f \in [S -> D]
        BY <1>2
    <2>2. ASSUME NEW d \in D PROVE \E i \in S : f[i] = d
        <3>1. PICK i \in 0 .. n - 1 : t[i].data = d
            BY DEF Complete
        <3>2. i \in S
            BY <3>1 DEF Occupied, Null
        <3>3. QED
            BY <3>1, <3>2
    <2> HIDE DEF f, S, D
    <2>3. QED
        BY <2>1, <2>2 DEF Surjection
<1> HIDE DEF f, D
<1>5. /\ IsFiniteSet(S)
      /\ Cardinality(S) <= Cardinality(D)
      /\ Cardinality(S) = Cardinality(D) <=> f \in Surjection(S, D)
    BY <1>1, <1>3, FS_Injection
<1>6. Cardinality(S) \in Nat
    BY <1>5, FS_CardinalityType
<1>7. QED
    BY <1>1, <1>4, <1>5, <1>6

LEMMA FreeSlot ==
    ASSUME NEW n \in Nat, NEW t, t \in [0 .. n - 1 -> Entries], Distinct(t, n), Len(copies) \in Nat,
           Len(copies) < n
    PROVE  \E i \in 0 .. n - 1 : t[i].data = Null
<1> SUFFICES ASSUME \A i \in 0 .. n - 1 : t[i].data # Null PROVE FALSE
    OBVIOUS
<1>1. Occupied(t, n) = 0 .. n - 1
    BY DEF Occupied
<1>2. Cardinality(0 .. n - 1) = n
    BY FS_Interval
<1>3. QED
    BY <1>1, <1>2, OccupiedCount

-----------------------------------------------------------------------------
(* string_table_find.                                                      *)

LEMMA FoundOrFree ==
    ASSUME NEW n \in Nat \ {0}, NEW t, Kept(t, n), NEW s \in Strings,
           hash \in [Strings -> 0 .. HashRange - 1], copies \in Seq(Strings),
           Len(copies) < n
    PROVE  \E k \in 0 .. n - 1 :
              /\ Find(t, s) = (hash[s] + k) % n
              /\ Find(t, s) \in 0 .. n - 1
              /\ \A j \in 0 .. k - 1 : t[(hash[s] + j) % n].data # Null
              /\ t[Find(t, s)].data # Null => /\ t[Find(t, s)].data \in 1 .. Len(copies)
                                              /\ copies[t[Find(t, s)].data] = s
              /\ t[Find(t, s)].data = Null => \A d \in 1 .. Len(copies) : copies[d] # s
<1> DEFINE wanted == { i \in DOMAIN t : t[i].data = Null \/ Holds(t[i], s) }
           h == hash[s]
<1>1. /\ t \in [0 .. n - 1 -> Entries] /\ DOMAIN t = 0 .. n - 1
      /\ Reachable(t, n) /\ Distinct(t, n) /\ Hashed(t, n) /\ Complete(t, n)
    BY DEF Kept
<1>2. h \in Nat /\ Len(copies) \in Nat
    BY SizesAssumption
<1>3. Find(t, s) = Probed(h, n, wanted)
    <2>1. Cardinality(0 .. n - 1) = n
        BY FS_Interval
    <2>2. QED
        BY <1>1, <2>1 DEF Find
<1>4. PICK i \in 0 .. n - 1 : t[i].data = Null
    BY <1>1, <1>2, FreeSlot
<1>5. i \in wanted
    BY <1>1, <1>4
<1> HIDE DEF wanted, h
<1>6. PICK k \in 0 .. n - 1 : /\ Probed(h, n, wanted) = (h + k) % n
                              /\ (h + k) % n \in wanted
                              /\ (h + k) % n \in 0 .. n - 1
                              /\ \A j \in 0 .. k - 1 : (h + j) % n \notin wanted
    BY <1>2, <1>5, ProbedIsFirst
<1> DEFINE at == (h + k) % n
<1>7. at \in 0 .. n - 1 /\ at \in wanted /\ Find(t, s) = at
    BY <1>3, <1>6
<1>8. ASSUME NEW j \in 0 .. k - 1
      PROVE  t[(h + j) % n].data # Null /\ ~Holds(t[(h + j) % n], s) /\ (h + j) % n \in 0 .. n - 1
    <2>1. h \in Int /\ j \in Int
        BY <1>2
    <2>2. (h + j) % n \in 0 .. n - 1
        BY <2>1, StaysWithin, Zenon
    <2>3. QED
        BY <1>1, <1>6, <2>2 DEF wanted
<1> HIDE DEF at
<1>9. t[at].data # Null => t[at].data \in 1 .. Len(copies) /\ copies[t[at].data] = s
    BY <1>1, <1>2, <1>7 DEF wanted, Holds, Entries, Null
<1>10. ASSUME t[at].data = Null, NEW d \in 1 .. Len(copies) PROVE copies[d] # s
    <2> SUFFICES ASSUME copies[d] = s PROVE FALSE
        OBVIOUS
    <2>1. PICK x \in 0 .. n - 1 : t[x].data = d
        BY <1>1 DEF Complete
    <2>2. t[x].data # Null
        BY <2>1 DEF Null
    <2>3. t[x].hash = h
        BY <1>1, <2>1, <2>2 DEF Hashed, h
    <2>4. Holds(t[x], s)
        BY <2>1, <2>2, <2>3 DEF Holds, h
    <2>5. PICK m \in 0 .. n - 1 : (h + m) % n = x /\ \A j \in 0 .. m - 1 : t[(h + j) % n].data # Null
        BY <1>1, <2>2, <2>3 DEF Reachable
    <2>6. CASE m < k
        BY <1>8, <2>4, <2>5, <2>6
    <2>7. CASE m = k
        BY <1>10, <2>2, <2>5, <2>7 DEF at
    <2>8. CASE m > k
        BY <1>10, <2>5, <2>8 DEF at
    <2>9. QED
        BY <2>6, <2>7, <2>8
<1>11. QED
    BY <1>6, <1>7, <1>8, <1>9, <1>10 DEF at, h

-----------------------------------------------------------------------------
(* string_table_rehash.                                                    *)

\* The slots before, with one old slot's entry moved to them.
MovedOn(before, old) ==
    IF old.data = Null THEN before
    ELSE [before EXCEPT ![Probed(Home(old.hash), NewSize, {i \in DOMAIN before : before[i].data = Null})] = old]

\* Moved is what its equations say.
LEMMA MovedDefined ==
    ASSUME size \in Nat, NewSize \in Nat, slots \in [0 .. size - 1 -> Entries], HashRange \in Nat \ {0}
    PROVE  /\ Moved[0] = NewSlots
           /\ \A m \in 0 .. size - 1 : Moved[m + 1] = MovedOn(Moved[m], slots[m])
<1> DEFINE S == [0 .. NewSize - 1 -> Entries]
           step == [p \in Nat \X S |-> IF p[1] < size THEN MovedOn(p[2], slots[p[1]]) ELSE p[2]]
           eq(g) == g = [m \in 0 .. size |-> IF m = 0 THEN NewSlots ELSE MovedOn(g[m - 1], slots[m - 1])]
<1>1. NewSlots \in S
    BY DEF NewSlots, Free, Entries, Null
<1>2. \A x \in S, m \in 0 .. size - 1 : MovedOn(x, slots[m]) \in S
    BY DEF MovedOn
<1> HIDE DEF S
<1>3. /\ step \in [Nat \X S -> S]
      /\ \A m \in 0 .. size - 1, x \in S : step[<<m, x>>] = MovedOn(x, slots[m])
    <2>1. ASSUME NEW m \in Nat, NEW x \in S
          PROVE  (IF m < size THEN MovedOn(x, slots[m]) ELSE x) \in S
        BY <1>2
    <2>2. QED
        BY <2>1
<1> HIDE DEF step
<1>4. PICK g : Unfolds(g, S, NewSlots, step, size)
    BY <1>1, <1>3, RecursionExists, Zenon
<1>5. g \in [0 .. size -> S] /\ g[0] = NewSlots /\ \A m \in 0 .. size - 1 : g[m + 1] = step[<<m, g[m]>>]
    BY <1>4 DEF Unfolds
<1>6. eq(g)
    <2>1. ASSUME NEW m \in 0 .. size
          PROVE  g[m] = IF m = 0 THEN NewSlots ELSE MovedOn(g[m - 1], slots[m - 1])
        <3>1. CASE m = 0
            BY <1>5, <3>1
        <3>2. CASE m # 0
            <4>1. m - 1 \in 0 .. size - 1 /\ m - 1 \in 0 .. size /\ (m - 1) + 1 = m
                BY <3>2
            <4>2. g[m] = step[<<m - 1, g[m - 1]>>] /\ g[m - 1] \in S
                BY <1>5, <4>1
            <4>3. step[<<m - 1, g[m - 1]>>] = MovedOn(g[m - 1], slots[m - 1])
                BY <1>3, <4>1, <4>2, Zenon
            <4>4. QED
                BY <3>2, <4>2, <4>3
        <3>3. QED
            BY <3>1, <3>2
    <2>2. QED
        BY <1>5, <2>1
<1>7. Moved = CHOOSE f : eq(f)
    BY DEF Moved, MovedOn
<1> HIDE DEF eq
<1>8. eq(Moved)
    BY <1>6, <1>7
<1>9. Moved = [m \in 0 .. size |-> IF m = 0 THEN NewSlots ELSE MovedOn(Moved[m - 1], slots[m - 1])]
    BY <1>8 DEF eq
<1>10. \A m \in 0 .. size - 1 : m + 1 \in 0 .. size /\ m + 1 # 0 /\ (m + 1) - 1 = m
    OBVIOUS
<1>11. Moved[0] = NewSlots
    BY <1>9
<1>12. ASSUME NEW m \in 0 .. size - 1 PROVE Moved[m + 1] = MovedOn(Moved[m], slots[m])
    BY <1>9, <1>10
<1>13. QED
    BY <1>11, <1>12

\* The slots t, of the new size, hold what was in the first m old slots.
MovedSoFar(t, m) ==
    /\ t \in [0 .. NewSize - 1 -> Entries]
    /\ Reachable(t, NewSize)
    /\ Distinct(t, NewSize)
    /\ \A i \in 0 .. NewSize - 1 : t[i].data # Null => \E x \in 0 .. m - 1 : t[i] = slots[x]
    /\ \A x \in 0 .. m - 1 : slots[x].data # Null => \E i \in 0 .. NewSize - 1 : t[i] = slots[x]

LEMMA MovingKeeps ==
    ASSUME NEW m \in 0 .. size - 1, NEW t, MovedSoFar(t, m), Kept(slots, size),
           NewSize \in Nat \ {0}, Len(copies) \in Nat, Len(copies) < NewSize
    PROVE  MovedSoFar(MovedOn(t, slots[m]), m + 1)
<1> DEFINE old == slots[m]
           free == {i \in DOMAIN t : t[i].data = Null}
<1>1. size \in Nat /\ slots \in [0 .. size - 1 -> Entries] /\ Distinct(slots, size)
    BY DEF Kept
<1>2. old \in Entries /\ m \in 0 .. size - 1 /\ m \in Nat /\ (m + 1) - 1 = m
    BY <1>1
<1>3. t \in [0 .. NewSize - 1 -> Entries] /\ DOMAIN t = 0 .. NewSize - 1 /\ Distinct(t, NewSize)
    BY DEF MovedSoFar
<1>4. CASE old.data = Null
    <2>1. MovedOn(t, old) = t
        BY <1>4 DEF MovedOn
    <2>2. \A x \in 0 .. (m + 1) - 1 : x \in 0 .. m - 1 \/ x = m
        BY <1>2
    <2>3. \A x \in 0 .. m - 1 : x \in 0 .. (m + 1) - 1
        BY <1>2
    <2>4. QED
        BY <1>4, <2>1, <2>2, <2>3 DEF MovedSoFar
<1>5. CASE old.data # Null
    <2>1. PICK i \in 0 .. NewSize - 1 : t[i].data = Null
        BY <1>3, FreeSlot
    <2>2. i \in free
        BY <1>3, <2>1
    <2>3. Home(old.hash) \in 0 .. NewSize - 1 /\ Home(old.hash) \in Nat
        <3>1. old.hash \in Int
            BY <1>2, SizesAssumption DEF Entries
        <3>2. Home(old.hash) \in 0 .. NewSize - 1
            BY <3>1, Remainder, Zenon DEF Home
        <3>3. QED
            BY <3>2
    <2>4. PICK k \in 0 .. NewSize - 1 :
              /\ Probed(Home(old.hash), NewSize, free) = (Home(old.hash) + k) % NewSize
              /\ (Home(old.hash) + k) % NewSize \in free
              /\ (Home(old.hash) + k) % NewSize \in 0 .. NewSize - 1
              /\ \A j \in 0 .. k - 1 : (Home(old.hash) + j) % NewSize \notin free
        <3> HIDE DEF free, old
        <3>1. QED
            BY <2>2, <2>3, ProbedIsFirst
    <2> DEFINE at == (old.hash + k) % NewSize
    <2>5. old.hash \in Nat /\ old \in [hash : Nat, data : 0 .. Len(copies)]
        BY <1>2, SizesAssumption DEF Entries
    <2>6. \A j \in Nat : (Home(old.hash) + j) % NewSize = (old.hash + j) % NewSize
        <3> SUFFICES ASSUME NEW j \in Nat PROVE (Home(old.hash) + j) % NewSize = (old.hash + j) % NewSize
            OBVIOUS
        <3>1. old.hash \in Int /\ j \in Int
            BY <2>5
        <3> HIDE DEF old
        <3>2. QED
            BY <3>1, RemainderOfSum, Zenon DEF Home
    <2>7. at \in 0 .. NewSize - 1 /\ t[at].data = Null /\ Probed(Home(old.hash), NewSize, free) = at
        BY <2>4, <2>6
    <2>8. ASSUME NEW j \in 0 .. k - 1 PROVE t[(old.hash + j) % NewSize].data # Null
        <3>1. (old.hash + j) % NewSize \in 0 .. NewSize - 1
            <4>1. old.hash \in Int /\ j \in Int
                BY <2>5
            <4> HIDE DEF old
            <4>2. QED
                BY <4>1, StaysWithin, Zenon
        <3>2. (old.hash + j) % NewSize \notin free
            BY <2>4, <2>6
        <3>3. QED
            BY <1>3, <3>1, <3>2
    <2> DEFINE u == [t EXCEPT ![at] = old]
    <2>9. MovedOn(t, old) = u
        BY <1>5, <2>7 DEF MovedOn
    <2>10. Reachable(u, NewSize)
        <3>1. t \in [0 .. NewSize - 1 -> [hash : Nat, data : 0 .. Len(copies)]]
            BY <1>3, SizesAssumption DEF Entries
        <3>2. Reachable(t, NewSize)
            BY DEF MovedSoFar
        <3> HIDE DEF old
        <3>3. QED
            BY <1>5, <2>5, <2>7, <2>8, <3>1, <3>2, AddedIsReachable
    <2>11. u \in [0 .. NewSize - 1 -> Entries] /\ \A x \in 0 .. NewSize - 1 : u[x] = IF x = at THEN old ELSE t[x]
        BY <1>2, <1>3
    <2>12. \A x \in 0 .. NewSize - 1 : t[x].data # Null => t[x].data # old.data
        <3> SUFFICES ASSUME NEW x \in 0 .. NewSize - 1, t[x].data # Null, t[x].data = old.data PROVE FALSE
            OBVIOUS
        <3>1. PICK y \in 0 .. m - 1 : t[x] = slots[y]
            BY DEF MovedSoFar
        <3>2. y \in 0 .. size - 1 /\ y # m /\ slots[y].data # Null /\ slots[y].data = slots[m].data
            BY <1>1, <1>2, <3>1
        <3>3. QED
            BY <1>1, <1>2, <3>2 DEF Distinct
    <2> HIDE DEF u, at
    <2>13. Distinct(u, NewSize)
        BY <1>3, <2>11, <2>12 DEF Distinct
    <2>14. \A x \in 0 .. NewSize - 1 : u[x].data # Null => \E y \in 0 .. (m + 1) - 1 : u[x] = slots[y]
        <3> SUFFICES ASSUME NEW x \in 0 .. NewSize - 1, u[x].data # Null
                     PROVE  \E y \in 0 .. (m + 1) - 1 : u[x] = slots[y]
            OBVIOUS
        <3>1. CASE x = at
            <4>1. u[x] = slots[m] /\ m \in 0 .. (m + 1) - 1
                BY <1>2, <2>11, <3>1
            <4>2. QED
                BY <4>1
        <3>2. CASE x # at
            <4>1. u[x] = t[x]
                BY <2>11, <3>2
            <4>2. PICK y \in 0 .. m - 1 : t[x] = slots[y]
                BY <4>1 DEF MovedSoFar
            <4>3. y \in 0 .. (m + 1) - 1
                BY <1>2
            <4>4. QED
                BY <4>1, <4>2, <4>3
        <3>3. QED
            BY <3>1, <3>2
    <2>15. \A y \in 0 .. (m + 1) - 1 : slots[y].data # Null => \E x \in 0 .. NewSize - 1 : u[x] = slots[y]
        <3> SUFFICES ASSUME NEW y \in 0 .. (m + 1) - 1, slots[y].data # Null
                     PROVE  \E x \in 0 .. NewSize - 1 : u[x] = slots[y]
            OBVIOUS
        <3>1. CASE y = m
            BY <2>7, <2>11, <3>1
        <3>2. CASE y # m
            <4>1. y \in 0 .. m - 1
                BY <1>2, <3>2
            <4>2. PICK x \in 0 .. NewSize - 1 : t[x] = slots[y]
                BY <4>1 DEF MovedSoFar
            <4>3. x # at
                BY <2>7, <4>2
            <4>4. QED
                BY <2>11, <4>2, <4>3
        <3>3. QED
            BY <3>1, <3>2
    <2>16. QED
        BY <2>9, <2>10, <2>11, <2>13, <2>14, <2>15 DEF MovedSoFar
<1>6. QED
    BY <1>4, <1>5

\* Sizes and counts: there is always room for one more string.
LEMMA Room ==
    ASSUME size \in Nat, count \in Nat, count <= (size * 3) \div 4
    PROVE  /\ NewSize \in Nat \ {0} /\ size <= NewSize
           /\ Crowded => count < (NewSize * 3) \div 4
           /\ ~Crowded => size # 0 /\ count < (size * 3) \div 4
           /\ \A n \in Nat : count < (n * 3) \div 4 => count < n
           /\ size # 0 => count < size
BY SizesAssumption DEF NewSize, Crowded

\* The rehash keeps every entry, and where probing finds it.
LEMMA RehashKeeps ==
    ASSUME TableInv, Crowded
    PROVE  Kept(Moved[size], NewSize)
<1>1. /\ size \in Nat /\ slots \in [0 .. size - 1 -> Entries] /\ Len(copies) \in Nat
      /\ count = Len(copies) /\ count <= (size * 3) \div 4 /\ HashRange \in Nat \ {0}
    BY SizesAssumption DEF TableInv, Kept
<1>2. NewSize \in Nat \ {0} /\ Len(copies) < NewSize
    BY <1>1, Room
<1>3. /\ Moved[0] = NewSlots
      /\ \A m \in 0 .. size - 1 : Moved[m + 1] = MovedOn(Moved[m], slots[m])
    BY <1>1, <1>2, MovedDefined
<1>4. MovedSoFar(NewSlots, 0)
    BY <1>1, <1>2 DEF MovedSoFar, NewSlots, Free, Null, Reachable, Distinct, Entries
<1> DEFINE T == { m \in Nat : m <= size => MovedSoFar(Moved[m], m) }
<1>5. 0 \in T
    BY <1>3, <1>4
<1>6. ASSUME NEW m \in T PROVE m + 1 \in T
    <2>1. m \in Nat /\ m + 1 \in Nat
        OBVIOUS
    <2>2. ASSUME m + 1 <= size PROVE MovedSoFar(Moved[m + 1], m + 1)
        <3>1. m \in 0 .. size - 1 /\ m <= size
            BY <1>1, <2>1, <2>2
        <3>2. MovedSoFar(Moved[m], m)
            BY <3>1
        <3>3. Kept(slots, size)
            BY DEF TableInv
        <3>4. MovedSoFar(MovedOn(Moved[m], slots[m]), m + 1)
            BY <1>1, <1>2, <3>1, <3>2, <3>3, MovingKeeps
        <3>5. QED
            BY <1>3, <3>1, <3>4
    <2>3. QED
        BY <2>1, <2>2
<1>7. T = Nat
    <2> HIDE DEF T
    <2>1. T \in SUBSET Nat
        BY DEF T
    <2>2. QED
        BY <1>5, <1>6, <2>1, SetInduction
<1>8. MovedSoFar(Moved[size], size)
    BY <1>1, <1>7
<1> DEFINE t == Moved[size]
<1> HIDE DEF t, T
<1>9. MovedSoFar(t, size)
    BY <1>8 DEF t
<1>10. Hashed(slots, size) /\ Complete(slots, size)
    BY DEF TableInv, Kept
<1>11. Hashed(t, NewSize)
    BY <1>9, <1>10 DEF Hashed, MovedSoFar
<1>12. Complete(t, NewSize)
    <2> SUFFICES ASSUME NEW d \in 1 .. Len(copies) PROVE \E i \in 0 .. NewSize - 1 : t[i].data = d
        BY DEF Complete
    <2>1. PICK x \in 0 .. size - 1 : slots[x].data = d
        BY <1>10 DEF Complete
    <2>2. slots[x].data # Null
        BY <2>1 DEF Null
    <2>3. PICK i \in 0 .. NewSize - 1 : t[i] = slots[x]
        BY <1>9, <2>2 DEF MovedSoFar
    <2>4. QED
        BY <2>1, <2>3
<1>13. QED
    BY <1>2, <1>9, <1>11, <1>12 DEF Kept, MovedSoFar, t

\* What intern() probes: a table with the same entries and room for another.
LEMMA GrownKept ==
    ASSUME TableInv
    PROVE  \E n \in Nat \ {0} : /\ DOMAIN Grown = 0 .. n - 1
                                /\ Cardinality(DOMAIN Grown) = n
                                /\ Kept(Grown, n)
                                /\ count < (n * 3) \div 4
                                /\ count < n
                                /\ size # 0 => size <= n
                                /\ Len(copies) \in Nat
<1>1. /\ size \in Nat /\ count \in Nat /\ count <= (size * 3) \div 4 /\ Len(copies) \in Nat
      /\ Kept(slots, size)
    BY DEF TableInv, Kept
<1>2. /\ NewSize \in Nat \ {0} /\ size <= NewSize
      /\ Crowded => count < (NewSize * 3) \div 4
      /\ ~Crowded => size # 0 /\ count < (size * 3) \div 4
      /\ \A n \in Nat : count < (n * 3) \div 4 => count < n
    BY <1>1, Room
<1> DEFINE n == IF Crowded THEN NewSize ELSE size
<1>3. n \in Nat \ {0} /\ count < (n * 3) \div 4 /\ count < n /\ size <= n
    BY <1>1, <1>2
<1>4. Kept(Grown, n)
    BY <1>1, RehashKeeps DEF Grown
<1> HIDE DEF n
<1>5. DOMAIN Grown = 0 .. n - 1
    BY <1>4 DEF Kept
<1>6. Cardinality(0 .. n - 1) = n
    <2>1. 0 \in Int /\ n - 1 \in Int /\ ~(0 > n - 1) /\ (n - 1) - 0 + 1 = n
        BY <1>3
    <2>2. QED
        BY <2>1, FS_Interval
<1>7. QED
    BY <1>1, <1>3, <1>4, <1>5, <1>6

-----------------------------------------------------------------------------
(* The calls.                                                              *)

\* A call that adds no string keeps the invariant, grown table or not.
LEMMA NothingAdded ==
    ASSUME TableInv, NEW t, NEW n \in Nat, Kept(t, n), count <= (n * 3) \div 4,
           slots' = t, size' = n, UNCHANGED <<hash, copies, count>>, trapped' \in BOOLEAN
    PROVE  TableInv'
<1>1. Kept(slots, size)'
    BY DEF Kept, Entries, Reachable, Distinct, Hashed, Complete
<1>2. CopiesDiffer'
    BY DEF TableInv, CopiesDiffer
<1>3. QED
    BY <1>1, <1>2 DEF TableInv

\* A new string gets a pointer of its own, in the slot where it is looked for.
LEMMA StringAdded ==
    ASSUME TableInv, NEW s \in Strings, NEW t, NEW n \in Nat \ {0}, Kept(t, n),
           count < (n * 3) \div 4,
           NEW k \in 0 .. n - 1, NEW at \in 0 .. n - 1, at = (hash[s] + k) % n,
           \A j \in 0 .. k - 1 : t[(hash[s] + j) % n].data # Null,
           t[at].data = Null,
           \A d \in 1 .. Len(copies) : copies[d] # s,
           size' = n,
           slots' = [t EXCEPT ![at] = [hash |-> hash[s], data |-> Len(copies) + 1]],
           copies' = Append(copies, s), count' = count + 1,
           UNCHANGED <<hash, trapped>>
    PROVE  TableInv'
<1> DEFINE l == Len(copies)
           new == [hash |-> hash[s], data |-> l + 1]
           u == [t EXCEPT ![at] = new]
<1>1. /\ hash \in [Strings -> 0 .. HashRange - 1] /\ copies \in Seq(Strings) /\ l \in Nat
      /\ CopiesDiffer /\ count = l /\ trapped \in BOOLEAN
    BY DEF TableInv
<1>2. /\ t \in [0 .. n - 1 -> [hash : 0 .. HashRange - 1, data : 0 .. l]]
      /\ Reachable(t, n) /\ Distinct(t, n) /\ Hashed(t, n) /\ Complete(t, n)
    BY DEF Kept, Entries
<1>3. /\ copies' \in Seq(Strings) /\ Len(copies') = l + 1 /\ copies'[l + 1] = s
      /\ \A d \in 1 .. l : copies'[d] = copies[d]
    BY <1>1
<1>4. CopiesDiffer'
    <2>1. ASSUME NEW a \in 1 .. l + 1, NEW b \in 1 .. l + 1, copies'[a] = copies'[b] PROVE a = b
        <3>1. (a = l + 1 \/ a \in 1 .. l) /\ (b = l + 1 \/ b \in 1 .. l)
            BY <1>1
        <3>2. CASE a \in 1 .. l /\ b \in 1 .. l
            BY <1>1, <1>3, <2>1, <3>2 DEF CopiesDiffer
        <3>3. CASE a = l + 1 /\ b \in 1 .. l
            BY <1>3, <2>1, <3>3
        <3>4. CASE a \in 1 .. l /\ b = l + 1
            BY <1>3, <2>1, <3>4
        <3>5. QED
            BY <3>1, <3>2, <3>3, <3>4
    <2> HIDE DEF l
    <2>2. QED
        BY <1>3, <2>1 DEF CopiesDiffer
<1> HIDE DEF l
<1>5. new \in [hash : 0 .. HashRange - 1, data : 0 .. l + 1] /\ new.data = l + 1 /\ new.hash = hash[s]
      /\ new.data # Null
    BY <1>1 DEF Null
<1>6. new \in [hash : Nat, data : 0 .. l + 1]
    BY <1>5, SizesAssumption
<1> HIDE DEF new
<1>7. u \in [0 .. n - 1 -> [hash : 0 .. HashRange - 1, data : 0 .. l + 1]]
    <2>1. \A i \in 0 .. n - 1 : t[i] \in [hash : 0 .. HashRange - 1, data : 0 .. l + 1]
        <3>1. l \in Nat /\ \A i \in 0 .. n - 1 : t[i] \in [hash : 0 .. HashRange - 1, data : 0 .. l]
            BY <1>1, <1>2
        <3>2. QED
            BY <3>1
    <2>2. t \in [0 .. n - 1 -> [hash : 0 .. HashRange - 1, data : 0 .. l + 1]]
        BY <1>2, <2>1
    <2>3. QED
        BY <1>5, <2>2
<1>8. \A i \in 0 .. n - 1 : u[i] = IF i = at THEN new ELSE t[i]
    BY <1>2
<1>9. Reachable(u, n)
    <2>1. t \in [0 .. n - 1 -> [hash : Nat, data : 0 .. l + 1]]
        <3>1. l \in Nat /\ \A i \in 0 .. n - 1 : t[i] \in [hash : 0 .. HashRange - 1, data : 0 .. l]
            BY <1>1, <1>2
        <3>2. \A i \in 0 .. n - 1 : t[i] \in [hash : Nat, data : 0 .. l + 1]
            BY <3>1, SizesAssumption
        <3>3. QED
            BY <1>2, <3>2
    <2>2. /\ (new.hash + k) % n = at /\ (new.hash + k) % n \in 0 .. n - 1
          /\ \A j \in 0 .. k - 1 : t[(new.hash + j) % n].data # Null
        BY <1>5
    <2>3. Reachable([t EXCEPT ![(new.hash + k) % n] = new], n)
        BY <1>2, <1>5, <1>6, <2>1, <2>2, AddedIsReachable
    <2>4. QED
        BY <2>2, <2>3
<1>10. \A i \in 0 .. n - 1 : t[i].data \in 0 .. l
    BY <1>2
<1> HIDE DEF u
<1>11. Distinct(u, n)
    <2> SUFFICES ASSUME NEW i \in 0 .. n - 1, NEW j \in 0 .. n - 1,
                        u[i].data # Null, u[i].data = u[j].data
                 PROVE  i = j
        BY DEF Distinct
    <2>1. CASE i # at /\ j # at
        BY <1>2, <1>8, <2>1 DEF Distinct
    <2>2. CASE i = at /\ j # at
        <3>1. u[i].data = l + 1 /\ u[j].data \in 0 .. l
            BY <1>5, <1>8, <1>10, <2>2
        <3>2. QED
            BY <1>1, <3>1
    <2>3. CASE i # at /\ j = at
        <3>1. u[j].data = l + 1 /\ u[i].data \in 0 .. l
            BY <1>5, <1>8, <1>10, <2>3
        <3>2. QED
            BY <1>1, <3>1
    <2>4. QED
        BY <2>1, <2>2, <2>3
<1>12. \A i \in 0 .. n - 1 : u[i].data # Null => u[i].hash = hash[copies'[u[i].data]]
    <2> SUFFICES ASSUME NEW i \in 0 .. n - 1, u[i].data # Null
                 PROVE  u[i].hash = hash[copies'[u[i].data]]
        OBVIOUS
    <2>1. CASE i = at
        <3>1. u[i].data = l + 1 /\ u[i].hash = hash[s]
            BY <1>5, <1>8, <2>1
        <3>2. QED
            BY <1>3, <3>1
    <2>2. CASE i # at
        <3>1. u[i] = t[i] /\ t[i].data \in 1 .. l
            BY <1>1, <1>8, <1>10, <2>2 DEF Null
        <3>2. t[i].hash = hash[copies[t[i].data]]
            BY <1>2, <3>1 DEF Hashed
        <3>3. copies'[t[i].data] = copies[t[i].data]
            BY <1>3, <3>1
        <3>4. QED
            BY <3>1, <3>2, <3>3
    <2>3. QED
        BY <2>1, <2>2
<1>13. \A d \in 1 .. l + 1 : \E i \in 0 .. n - 1 : u[i].data = d
    <2> SUFFICES ASSUME NEW d \in 1 .. l + 1 PROVE \E i \in 0 .. n - 1 : u[i].data = d
        OBVIOUS
    <2>1. CASE d = l + 1
        BY <1>5, <1>8, <2>1
    <2>2. CASE d # l + 1
        <3>1. d \in 1 .. l
            BY <1>1, <2>2
        <3>2. PICK i \in 0 .. n - 1 : t[i].data = d
            BY <1>2, <3>1 DEF Complete, l
        <3>3. i # at
            BY <3>1, <3>2 DEF Null
        <3>4. QED
            BY <1>8, <3>2, <3>3
    <2>3. QED
        BY <2>1, <2>2
<1>14. slots' = u /\ size' = n /\ hash' = hash /\ Len(copies') = l + 1
    BY <1>3 DEF u, new, l
<1>15. Kept(slots, size)'
    <2>1. Entries' = [hash : 0 .. HashRange - 1, data : 0 .. l + 1]
        BY <1>14 DEF Entries
    <2>2. Reachable(slots, size)' /\ Distinct(slots, size)'
        <3>1. Reachable(slots, size)' <=> Reachable(slots', size')
            BY DEF Reachable
        <3>2. Distinct(slots, size)' <=> Distinct(slots', size')
            BY DEF Distinct
        <3>3. slots' = u /\ size' = n
            BY <1>14
        <3>4. QED
            BY <1>9, <1>11, <3>1, <3>2, <3>3
    <2>3. Hashed(slots, size)'
        BY <1>12, <1>14 DEF Hashed
    <2>4. Complete(slots, size)'
        BY <1>13, <1>14 DEF Complete
    <2>5. QED
        BY <1>7, <1>14, <2>1, <2>2, <2>3, <2>4 DEF Kept
<1>16. count' = Len(copies)' /\ count' <= (size' * 3) \div 4
    BY <1>1, <1>14
<1>17. QED
    BY <1>1, <1>3, <1>4, <1>14, <1>15, <1>16 DEF TableInv

\* What a call of intern() does with a string that is not empty.
LEMMA InternOutcome ==
    ASSUME TableInv, NEW s \in Strings, Intern(s)
    PROVE  /\ TableInv'
           /\ size' # 0
           /\ asked' = s /\ trapped' = trapped
           /\ \/ /\ answer' \in 1 .. Len(copies) /\ copies[answer'] = s
                 /\ copies' = copies
              \/ /\ \A d \in 1 .. Len(copies) : copies[d] # s
                 /\ answer' = Len(copies) + 1
                 /\ copies' = Append(copies, s)
<1>1. PICK n \in Nat \ {0} : /\ Cardinality(DOMAIN Grown) = n
                             /\ Kept(Grown, n)
                             /\ count < (n * 3) \div 4
                             /\ count < n
    BY GrownKept
<1> DEFINE t == Grown
           at == Find(t, s)
<1>2. /\ hash \in [Strings -> 0 .. HashRange - 1] /\ copies \in Seq(Strings) /\ Len(copies) < n
      /\ count = Len(copies) /\ trapped \in BOOLEAN /\ count \in Nat
    BY <1>1 DEF TableInv
<1>3. PICK k \in 0 .. n - 1 :
              /\ at = (hash[s] + k) % n
              /\ at \in 0 .. n - 1
              /\ \A j \in 0 .. k - 1 : t[(hash[s] + j) % n].data # Null
              /\ t[at].data # Null => t[at].data \in 1 .. Len(copies) /\ copies[t[at].data] = s
              /\ t[at].data = Null => \A d \in 1 .. Len(copies) : copies[d] # s
    BY <1>1, <1>2, FoundOrFree
<1>4. size' = n /\ asked' = s /\ trapped' = trapped /\ hash' = hash
    BY <1>1 DEF Intern, Returns
<1>5. CASE t[at].data # Null
    <2>1. slots' = t /\ copies' = copies /\ count' = count /\ answer' = t[at].data
        BY <1>5 DEF Intern, Returns, CountAfter
    <2>2. count <= (n * 3) \div 4
        BY <1>1, <1>2
    <2> HIDE DEF t, at
    <2>3. Kept(t, n)
        BY <1>1 DEF t
    <2>4. TableInv'
        BY <1>1, <1>2, <1>4, <2>1, <2>2, <2>3, NothingAdded
    <2>5. QED
        BY <1>1, <1>3, <1>4, <1>5, <2>1, <2>4
<1>6. CASE t[at].data = Null
    <2>1. /\ slots' = [t EXCEPT ![at] = [hash |-> hash[s], data |-> Len(copies) + 1]]
          /\ copies' = Append(copies, s) /\ count' = count + 1 /\ answer' = Len(copies) + 1
        BY <1>6 DEF Intern, Returns, CountAfter
    <2> HIDE DEF t, at
    <2>2. Kept(t, n)
        BY <1>1 DEF t
    <2>3. TableInv'
        BY <1>1, <1>3, <1>4, <1>6, <2>1, <2>2, StringAdded
    <2>4. QED
        BY <1>1, <1>3, <1>4, <1>6, <2>1, <2>3
<1>7. QED
    BY <1>5, <1>6

-----------------------------------------------------------------------------
(* The invariant holds throughout.                                         *)

LEMMA TableInit == Init => TableInv
<1> SUFFICES ASSUME Init PROVE TableInv
    OBVIOUS
<1>1. /\ slots = <<>> /\ size = 0 /\ count = 0 /\ copies = <<>> /\ trapped = FALSE
      /\ hash \in [Strings -> 0 .. HashRange - 1]
    BY DEF Init
<1>2. slots \in [0 .. size - 1 -> Entries]
    BY <1>1
<1>3. Kept(slots, size)
    BY <1>1, <1>2 DEF Kept, Reachable, Distinct, Hashed, Complete
<1>4. copies \in Seq(Strings) /\ Len(copies) = 0 /\ CopiesDiffer /\ count <= (size * 3) \div 4
    BY <1>1 DEF CopiesDiffer
<1>5. QED
    BY <1>1, <1>3, <1>4 DEF TableInv

LEMMA TableStep == TableInv /\ [Next]_vars => TableInv'
<1> SUFFICES ASSUME TableInv, [Next]_vars PROVE TableInv'
    OBVIOUS
<1>1. /\ Kept(slots, size) /\ size \in Nat /\ count <= (size * 3) \div 4 /\ trapped \in BOOLEAN
    BY DEF TableInv, Kept
<1>2. CASE InternEmpty
    <2>1. PICK n \in Nat \ {0} : /\ Cardinality(DOMAIN Grown) = n
                                 /\ Kept(Grown, n)
                                 /\ count < (n * 3) \div 4
        BY GrownKept
    <2> DEFINE t == Grown
    <2>2. slots' = t /\ size' = n /\ UNCHANGED <<hash, copies, count, trapped>>
        BY <1>2, <2>1 DEF InternEmpty, Returns
    <2>3. count \in Nat
        BY DEF TableInv
    <2>4. count <= (n * 3) \div 4
        BY <2>1, <2>3
    <2>5. Kept(t, n) /\ trapped' \in BOOLEAN /\ n \in Nat
        BY <1>1, <2>1, <2>2
    <2> HIDE DEF t
    <2>6. QED
        BY <2>2, <2>4, <2>5, NothingAdded
<1>3. CASE \E s \in Strings : Intern(s)
    BY <1>3, InternOutcome
<1>4. CASE \E s \in Strings \cup {Empty} : InternIfNotNew(s)
    <2>1. slots' = slots /\ size' = size /\ UNCHANGED <<hash, copies, count, trapped>>
        BY <1>4 DEF InternIfNotNew, Returns, table
    <2>2. QED
        BY <1>1, <2>1, NothingAdded
<1>5. CASE InternIfNotNewUnsized
    <2>1. slots' = slots /\ size' = size /\ UNCHANGED <<hash, copies, count>> /\ trapped' \in BOOLEAN
        BY <1>5 DEF InternIfNotNewUnsized, table
    <2>2. QED
        BY <1>1, <2>1, NothingAdded
<1>6. CASE UNCHANGED vars
    <2>1. slots' = slots /\ size' = size /\ UNCHANGED <<hash, copies, count, trapped>>
        BY <1>6 DEF vars, table
    <2>2. QED
        BY <1>1, <2>1, NothingAdded
<1>7. QED
    BY <1>2, <1>3, <1>4, <1>5, <1>6 DEF Next

\* Whatever the hash function and the calls, the table holds each string
\* interned once, where probing from its hash comes upon it.
THEOREM TableInvariant == Spec => []TableInv
BY TableInit, TableStep, PTL DEF Spec

\* The variables keep to their ranges and count is the number of entries.
THEOREM TableTypes == Spec => []TypeOK
<1>1. TableInv => TypeOK
    <2> SUFFICES ASSUME TableInv PROVE TypeOK
        OBVIOUS
    <2>1. /\ size \in Nat /\ slots \in [0 .. size - 1 -> Entries] /\ Distinct(slots, size)
          /\ Complete(slots, size) /\ Len(copies) \in Nat /\ count = Len(copies)
        BY DEF TableInv, Kept
    <2>2. count = Cardinality(Occupied(slots, size))
        BY <2>1, OccupiedCount
    <2>3. QED
        BY <2>1, <2>2 DEF TypeOK, TableInv, Entries, Occupied
<1>2. QED
    BY <1>1, TableInvariant, PTL

\* A table with slots has a free one: no probe goes round for ever.
THEOREM TableIsNeverFull == Spec => []NeverFull
<1>1. TableInv => NeverFull
    <2> SUFFICES ASSUME TableInv, size > 0 PROVE \E i \in 0 .. size - 1 : slots[i].data = Null
        BY DEF NeverFull
    <2>1. /\ size \in Nat /\ slots \in [0 .. size - 1 -> Entries] /\ Distinct(slots, size)
          /\ Len(copies) \in Nat /\ count = Len(copies) /\ count <= (size * 3) \div 4
        BY DEF TableInv, Kept
    <2>2. Len(copies) < size
        BY <2>1, Room
    <2>3. QED
        BY <2>1, <2>2, FreeSlot
<1>2. QED
    BY <1>1, TableInvariant, PTL

-----------------------------------------------------------------------------
(* The table implements Interner.                                          *)

idOf == [s \in Interned |-> CHOOSE n \in 1 .. Len(copies) : copies[n] = s]

\* The pointer of an interned string is the number of its copy.
PointersOfCopies ==
    /\ Interned \subseteq Strings
    /\ DOMAIN idOf = Interned
    /\ \A s \in Interned : idOf[s] \in 1 .. Len(copies) /\ copies[idOf[s]] = s
    /\ \A n \in 1 .. Len(copies) : copies[n] \in Interned /\ idOf[copies[n]] = n

LEMMA IdOfCopies == TableInv => PointersOfCopies
<1> SUFFICES ASSUME TableInv PROVE PointersOfCopies
    OBVIOUS
<1>1. CopiesDiffer /\ copies \in Seq(Strings)
    BY DEF TableInv
<1>2. Interned \subseteq Strings
    BY <1>1 DEF Interned
<1>3. \A s \in Interned : idOf[s] \in 1 .. Len(copies) /\ copies[idOf[s]] = s
    BY DEF Interned, idOf
<1>4. ASSUME NEW n \in 1 .. Len(copies) PROVE copies[n] \in Interned /\ idOf[copies[n]] = n
    <2>1. copies[n] \in Interned
        BY DEF Interned
    <2>2. idOf[copies[n]] \in 1 .. Len(copies) /\ copies[idOf[copies[n]]] = copies[n]
        BY <1>3, <2>1
    <2>3. QED
        BY <1>1, <2>1, <2>2 DEF CopiesDiffer
<1>5. QED
    BY <1>2, <1>3, <1>4 DEF idOf, PointersOfCopies

\* Appending a string gives it the next pointer and the others theirs.
LEMMA IdOfAppended ==
    ASSUME TableInv, TableInv', NEW s \in Strings, copies' = Append(copies, s),
           \A d \in 1 .. Len(copies) : copies[d] # s
    PROVE  /\ s \notin DOMAIN idOf
           /\ DOMAIN idOf' = DOMAIN idOf \cup {s}
           /\ \A t \in DOMAIN idOf : idOf'[t] = idOf[t]
           /\ idOf'[s] = Len(copies) + 1
           /\ \A t \in DOMAIN idOf : idOf[t] # Len(copies) + 1
<1>1. /\ copies \in Seq(Strings) /\ Len(copies) \in Nat /\ Len(copies') = Len(copies) + 1
      /\ copies'[Len(copies) + 1] = s
      /\ \A d \in 1 .. Len(copies) : copies'[d] = copies[d]
    BY DEF TableInv
<1>2. /\ DOMAIN idOf = Interned
      /\ \A t \in Interned : idOf[t] \in 1 .. Len(copies) /\ copies[idOf[t]] = t
    BY IdOfCopies DEF PointersOfCopies
<1>3. /\ DOMAIN idOf' = Interned'
      /\ \A n \in 1 .. Len(copies') : copies'[n] \in Interned' /\ idOf'[copies'[n]] = n
    <2>1. \A n \in 1 .. Len(copies)' : copies'[n] \in Interned' /\ idOf'[copies'[n]] = n
        <3>1. PointersOfCopies'
            BY IdOfCopies, PTL
        <3>2. QED
            BY <3>1 DEF PointersOfCopies
    <2>2. DOMAIN idOf' = Interned'
        BY DEF idOf
    <2>3. QED
        BY <2>1, <2>2
<1>4. Interned' = Interned \cup {s}
    <2>1. Interned' = { copies'[n] : n \in 1 .. Len(copies') }
        BY DEF Interned
    <2>2. 1 .. Len(copies') = (1 .. Len(copies)) \cup {Len(copies) + 1}
        BY <1>1
    <2>3. QED
        BY <1>1, <2>1, <2>2 DEF Interned
<1>5. s \notin Interned
    BY DEF Interned
<1>6. ASSUME NEW t \in Interned PROVE idOf'[t] = idOf[t]
    <2> DEFINE n == idOf[t]
    <2>1. n \in 1 .. Len(copies) /\ copies[n] = t
        BY <1>2
    <2> HIDE DEF n
    <2>2. n \in 1 .. Len(copies') /\ copies'[n] = t
        BY <1>1, <2>1
    <2>3. idOf'[t] = n
        BY <1>3, <2>2
    <2>4. QED
        BY <2>3 DEF n
<1>7. idOf'[s] = Len(copies) + 1
    <2>1. Len(copies) + 1 \in 1 .. Len(copies')
        BY <1>1
    <2>2. QED
        BY <1>1, <1>3, <2>1
<1>8. \A t \in Interned : idOf[t] # Len(copies) + 1
    BY <1>1, <1>2
<1>9. QED
    BY <1>2, <1>3, <1>4, <1>5, <1>6, <1>7, <1>8

LEMMA InternerInit == Init => I!Init
<1> SUFFICES ASSUME Init PROVE I!Init
    OBVIOUS
<1>1. copies = <<>> /\ size = 0 /\ asked = Unasked /\ answer = Unasked /\ trapped = FALSE
    BY DEF Init
<1>2. Interned = {}
    BY <1>1 DEF Interned
<1>3. idOf = <<>>
    BY <1>2 DEF idOf
<1>4. (size > 0) = FALSE
    BY <1>1
<1>5. QED
    BY <1>1, <1>3, <1>4 DEF I!Init, idOf

LEMMA InternerStep ==
    ASSUME TableInv, TableInv', [Next]_vars
    PROVE  [I!Next]_(I!vars)
<1>1. /\ copies \in Seq(Strings) /\ Len(copies) \in Nat /\ size \in Nat
    BY DEF TableInv, Kept
<1>2. /\ Interned \subseteq Strings /\ DOMAIN idOf = Interned
      /\ \A s \in Interned : idOf[s] \in 1 .. Len(copies) /\ copies[idOf[s]] = s
      /\ \A n \in 1 .. Len(copies) : copies[n] \in Interned /\ idOf[copies[n]] = n
    BY IdOfCopies DEF PointersOfCopies
<1>3. copies' = copies => idOf' = idOf
    BY DEF idOf, Interned
<1>4. CASE InternEmpty /\ ~trapped
    <2>1. PICK n \in Nat \ {0} : Cardinality(DOMAIN Grown) = n
        BY GrownKept
    <2>2. size' = n /\ copies' = copies /\ asked' = Empty /\ answer' = Null /\ trapped' = trapped
        BY <1>4, <2>1 DEF InternEmpty, Returns
    <2>3. (size > 0)' = TRUE
        BY <2>1, <2>2
    <2>4. idOf' = idOf
        BY <1>3, <2>2
    <2>5. I!InternEmpty
        BY <2>2, <2>3, <2>4 DEF I!InternEmpty, I!Returns, idOf
    <2>6. QED
        BY <1>4, <2>5 DEF I!Next
<1>5. CASE ~trapped /\ \E s \in Strings : Intern(s)
    <2>1. PICK s \in Strings : Intern(s)
        BY <1>5
    <2>2. /\ size' # 0
          /\ asked' = s /\ trapped' = trapped
          /\ \/ /\ answer' \in 1 .. Len(copies) /\ copies[answer'] = s
                /\ copies' = copies
             \/ /\ \A d \in 1 .. Len(copies) : copies[d] # s
                /\ answer' = Len(copies) + 1
                /\ copies' = Append(copies, s)
        BY <2>1, InternOutcome
    <2>3. (size > 0)' = TRUE
        <3>1. size' \in Nat
            BY DEF TableInv, Kept
        <3>2. QED
            BY <2>2, <3>1
    <2>4. CASE answer' \in 1 .. Len(copies) /\ copies[answer'] = s /\ copies' = copies
        <3>1. s \in DOMAIN idOf /\ answer' = idOf[s] /\ idOf' = idOf
            BY <1>2, <1>3, <2>4
        <3>2. CASE size > 0
            <4>1. I!InternKnown(s)
                BY <2>2, <2>3, <3>1, <3>2 DEF I!InternKnown, I!Returns, idOf
            <4>2. QED
                BY <1>5, <4>1 DEF I!Next
        <3>3. CASE ~(size > 0)
            <4>1. size = 0 /\ count = Len(copies) /\ count <= (size * 3) \div 4
                BY <1>1, <3>3 DEF TableInv
            <4>2. Len(copies) = 0
                BY <1>1, <4>1
            <4>3. QED
                BY <2>4, <4>2
        <3>4. QED
            BY <3>2, <3>3
    <2>5. CASE /\ \A d \in 1 .. Len(copies) : copies[d] # s
               /\ answer' = Len(copies) + 1
               /\ copies' = Append(copies, s)
        <3>1. /\ s \notin DOMAIN idOf
              /\ DOMAIN idOf' = DOMAIN idOf \cup {s}
              /\ \A t \in DOMAIN idOf : idOf'[t] = idOf[t]
              /\ idOf'[s] = Len(copies) + 1
              /\ \A t \in DOMAIN idOf : idOf[t] # Len(copies) + 1
            BY <2>5, IdOfAppended
        <3>2. idOf'[s] \notin I!Range(idOf) \cup {Null, Missing}
            <4>1. I!Range(idOf) = { idOf[t] : t \in DOMAIN idOf }
                BY DEF I!Range
            <4>2. Len(copies) + 1 # Null /\ Len(copies) + 1 # Missing
                BY <1>1, AnswersAssumption DEF Null
            <4>3. QED
                BY <3>1, <4>1, <4>2
        <3>3. I!InternNew(s)
            BY <2>2, <2>3, <2>5, <3>1, <3>2 DEF I!InternNew, I!Returns, idOf
        <3>4. QED
            BY <1>5, <3>3 DEF I!Next
    <2>6. QED
        BY <2>2, <2>4, <2>5
<1>6. CASE ~trapped /\ \E s \in Strings \cup {Empty} : InternIfNotNew(s)
    <2>1. PICK s \in Strings \cup {Empty} : InternIfNotNew(s)
        BY <1>6
    <2>2. /\ size > 0 /\ size' = size /\ copies' = copies /\ trapped' = trapped
          /\ asked' = s /\ answer' = Answered(slots, s)
        BY <2>1 DEF InternIfNotNew, Returns, table
    <2>3. idOf' = idOf /\ (size > 0) = TRUE /\ (size > 0)' = TRUE
        BY <1>3, <2>2
    <2>4. Answered(slots, s) = IF s \in DOMAIN idOf THEN idOf[s] ELSE Missing
        <3>1. CASE s = Empty
            BY <1>2, <3>1, StringsAssumption DEF Answered
        <3>2. CASE s # Empty
            <4>1. s \in Strings /\ size \in Nat \ {0} /\ Kept(slots, size) /\ Len(copies) < size
                  /\ hash \in [Strings -> 0 .. HashRange - 1]
                <5>1. count = Len(copies) /\ count <= (size * 3) \div 4
                    BY DEF TableInv
                <5>2. QED
                    BY <1>1, <2>2, <3>2, <5>1, Room DEF TableInv
            <4> DEFINE at == Find(slots, s)
            <4>2. /\ slots[at].data # Null => slots[at].data \in 1 .. Len(copies) /\ copies[slots[at].data] = s
                  /\ slots[at].data = Null => \A d \in 1 .. Len(copies) : copies[d] # s
                BY <1>1, <4>1, FoundOrFree
            <4>3. Answered(slots, s) = IF slots[at].data = Null THEN Missing ELSE slots[at].data
                BY <3>2 DEF Answered
            <4> HIDE DEF at
            <4>4. CASE slots[at].data = Null
                BY <1>2, <4>2, <4>3, <4>4
            <4>5. CASE slots[at].data # Null
                BY <1>2, <4>2, <4>3, <4>5
            <4>6. QED
                BY <4>4, <4>5
        <3>3. QED
            BY <3>1, <3>2
    <2>5. I!LookUp(s)
        BY <2>2, <2>3, <2>4 DEF I!LookUp, I!Returns, idOf
    <2>6. QED
        BY <1>6, <2>5 DEF I!Next
<1>7. CASE ~trapped /\ InternIfNotNewUnsized
    <2>1. /\ size = 0 /\ size' = size /\ copies' = copies /\ trapped' = TRUE
          /\ asked' = asked /\ answer' = answer
        BY <1>7 DEF InternIfNotNewUnsized, table
    <2>2. idOf' = idOf /\ (size > 0) = FALSE /\ (size > 0)' = FALSE
        BY <1>3, <2>1
    <2>3. I!LookUpTooEarly
        BY <2>1, <2>2 DEF I!LookUpTooEarly, idOf
    <2>4. QED
        BY <1>7, <2>3 DEF I!Next
<1>8. CASE UNCHANGED vars
    <2>1. size' = size /\ copies' = copies /\ UNCHANGED <<asked, answer, trapped>>
        BY <1>8 DEF vars, table
    <2>2. idOf' = idOf /\ (size > 0)' = (size > 0)
        BY <1>3, <2>1
    <2>3. QED
        BY <2>1, <2>2 DEF I!vars, idOf
<1>9. QED
    BY <1>4, <1>5, <1>6, <1>7, <1>8 DEF Next

\* Pointers stand for strings: interned strings keep their pointers, no two
\* share one, and lookups know exactly the strings interned before them.
THEOREM TableImplementsInterner == Spec => RefinesInterner
<1>1. Init => I!Init
    BY InternerInit
<1>2. TableInv /\ TableInv' /\ [Next]_vars => [I!Next]_(I!vars)
    BY InternerStep
<1>3. QED
    BY <1>1, <1>2, TableInvariant, PTL DEF Spec, RefinesInterner, I!Spec
=============================================================================
