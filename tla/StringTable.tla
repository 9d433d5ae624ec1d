---------------------------- MODULE StringTable ----------------------------
(***************************************************************************)
(* The open-addressed table of src/string_table.cpp.  intern() doubles the *)
(* table when it is three quarters full, moves every entry to its new      *)
(* place, then probes from the string's hash until it finds the string or  *)
(* a free slot.  A table belongs to one thread, or to nobody who writes:   *)
(* one action is one call.                                                 *)
(*                                                                         *)
(* A string is known by its content; its data pointer is the number of its *)
(* copy, in the order push_allocator_copy made them.  The hash is any      *)
(* function, chosen at the start, of which string_hash is one.             *)
(***************************************************************************)
EXTENDS Integers, Sequences, FiniteSets

CONSTANTS
    Strings,        \* the strings a caller may pass, but for the empty one
    Empty,          \* the empty string
    HashRange,      \* 2^32, the range of a U32
    FirstSize,      \* the size of the smallest table          (8)
    Missing,        \* intern_if_not_new has returned false
    Unasked         \* no operation has returned yet

ASSUME StringsAssumption == IsFiniteSet(Strings) /\ Empty \notin Strings
ASSUME SizesAssumption == HashRange \in Nat \ {0} /\ FirstSize \in Nat /\ FirstSize > 1
ASSUME AnswersAssumption == Missing \notin Nat /\ Unasked \notin Nat

VARIABLES
    hash,       \* string_hash of each string
    slots,      \* the arrays hashes, lengths and datas
    size,       \* how long these arrays are
    count,      \* how many strings are in the table
    copies,     \* the allocator: copy n is what data pointer n points at
    asked,      \* history: the string last passed
    answer,     \* history: the data pointer last returned
    trapped     \* a remainder by zero has ended the process

table == <<slots, size, count, copies>>
vars == <<hash, table, asked, answer, trapped>>

Null == 0
Free == [hash |-> 0, data |-> Null]

-----------------------------------------------------------------------------
(* Probing.                                                                *)

\* The first of n slots from hash h on, going round, that is wanted.
Probed(h, n, wanted) ==
    LET at(k) == (h + k) % n
    IN  at(CHOOSE k \in 0 .. n - 1 : at(k) \in wanted /\ \A j \in 0 .. k - 1 : at(j) \notin wanted)

Holds(slot, s) == slot.data # Null /\ slot.hash = hash[s] /\ copies[slot.data] = s

\* string_table_find in the slots t: where s is or belongs.
Find(t, s) ==
    Probed(hash[s], Cardinality(DOMAIN t), {i \in DOMAIN t : t[i].data = Null \/ Holds(t[i], s)})

\* string_table_find never meets the empty string: a slot of length 0 is free.
Answered(t, s) == IF s = Empty \/ t[Find(t, s)].data = Null THEN Missing ELSE t[Find(t, s)].data

-----------------------------------------------------------------------------
(* Growing.                                                                *)

\* Fault: the table only grows when it is full.
CrowdedWhenFull == count >= size

Crowded == count >= (size * 3) \div 4

NewSize == IF size * 2 > FirstSize THEN size * 2 ELSE FirstSize

NewSlots == [i \in 0 .. NewSize - 1 |-> Free]

\* Fault: an entry keeps its old index.
HomeBefore(h) == h % size

Home(h) == h % NewSize

\* string_table_rehash: the new slots once the first n old ones have been moved.
\* (A free slot is moved, too, onto a free one, which changes nothing.)
Moved[n \in 0 .. size] ==
    IF n = 0 THEN NewSlots
    ELSE LET old == slots[n - 1]
             before == Moved[n - 1]
             free == {i \in DOMAIN before : before[i].data = Null}
         IN  IF old.data = Null THEN before
             ELSE [before EXCEPT ![Probed(Home(old.hash), NewSize, free)] = old]

\* The slots intern() probes.
Grown == IF Crowded THEN Moved[size] ELSE slots

-----------------------------------------------------------------------------
(* The calls.                                                              *)

Returns(s, result) ==
    /\ asked' = s
    /\ answer' = result
    /\ UNCHANGED <<hash, trapped>>

\* intern() of the empty string, which may still make the table grow.
InternEmpty ==
    /\ slots' = Grown
    /\ size' = Cardinality(DOMAIN Grown)
    /\ UNCHANGED <<count, copies>>
    /\ Returns(Empty, Null)

\* Fault: a string found in the table is counted again.
CountedAgain(new) == count + 1

\* table->count after intern() found the string or, if it is new, added it.
CountAfter(new) == IF new THEN count + 1 ELSE count

Intern(s) ==
    LET at == Find(Grown, s)
        new == Grown[at].data = Null
        copy == Len(copies) + 1
    IN  /\ size' = Cardinality(DOMAIN Grown)
        /\ slots' = IF new THEN [Grown EXCEPT ![at] = [hash |-> hash[s], data |-> copy]] ELSE Grown
        /\ copies' = IF new THEN Append(copies, s) ELSE copies
        /\ count' = CountAfter(new)
        /\ Returns(s, IF new THEN copy ELSE Grown[at].data)

\* intern_if_not_new()
InternIfNotNew(s) ==
    /\ size > 0
    /\ Returns(s, Answered(slots, s))
    /\ UNCHANGED table

\* intern_if_not_new() of a table without slots divides by zero.
InternIfNotNewUnsized ==
    /\ size = 0
    /\ trapped' = TRUE
    /\ UNCHANGED <<hash, table, asked, answer>>

Init ==
    /\ hash \in [Strings -> 0 .. HashRange - 1]
    /\ slots = <<>>
    /\ size = 0
    /\ count = 0
    /\ copies = <<>>
    /\ asked = Unasked
    /\ answer = Unasked
    /\ trapped = FALSE

Next ==
    /\ ~trapped
    /\ \/ InternEmpty
       \/ \E s \in Strings : Intern(s)
       \/ \E s \in Strings \cup {Empty} : InternIfNotNew(s)
       \/ InternIfNotNewUnsized

Spec == Init /\ [][Next]_vars

-----------------------------------------------------------------------------
(* Properties                                                              *)

\* Every variable keeps to its range, and count is the number of strings.
TypeOK ==
    /\ hash \in [Strings -> 0 .. HashRange - 1]
    /\ size \in Nat
    /\ slots \in [0 .. size - 1 -> [hash : 0 .. HashRange - 1, data : 0 .. Len(copies)]]
    /\ copies \in Seq(Strings)
    /\ count = Cardinality({ i \in 0 .. size - 1 : slots[i].data # Null })
    /\ trapped \in BOOLEAN

\* Every probe ends: a table with slots has a free one.
NeverFull == size > 0 => \E i \in 0 .. size - 1 : slots[i].data = Null

\* An interned string keeps its data pointer however often the table grows,
\* no other string gets it, and lookups find it: pointers stand for strings.
Interned == { copies[n] : n \in 1 .. Len(copies) }
I == INSTANCE Interner
        WITH idOf <- [s \in Interned |-> CHOOSE n \in 1 .. Len(copies) : copies[n] = s],
             ready <- size > 0
RefinesInterner == I!Spec
=============================================================================
