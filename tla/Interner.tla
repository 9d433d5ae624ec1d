------------------------------ MODULE Interner ------------------------------
(***************************************************************************)
(* What a String_Table (src/string_table.cpp) promises: interned strings   *)
(* can be compared by their data pointer alone.  Interning a string yields *)
(* the same pointer for ever, two strings never share one, and a lookup    *)
(* knows exactly the strings interned before it.  StringTable.tla          *)
(* implements this with a hash table that moves its entries as it grows.   *)
(*                                                                         *)
(* Interning the empty string yields a null pointer and is not remembered. *)
(* A lookup before anything was interned is the caller's mistake.          *)
(***************************************************************************)
EXTENDS Functions

CONSTANTS
    Strings,    \* the strings a caller may pass, but for the empty one
    Empty,      \* the empty string
    Null,       \* the data pointer of the empty string
    Missing,    \* the answer to a lookup of a string never interned
    Unasked     \* no operation has returned yet

VARIABLES
    idOf,       \* the data pointer of each string interned so far
    ready,      \* something has been interned
    asked,      \* the string last passed
    answer,     \* what the last operation returned
    trapped     \* the process has died of a lookup

vars == <<idOf, ready, asked, answer, trapped>>

Returns(s, result) ==
    /\ asked' = s
    /\ answer' = result

InternEmpty ==
    /\ ready' = TRUE
    /\ Returns(Empty, Null)
    /\ UNCHANGED <<idOf, trapped>>

InternKnown(s) ==
    /\ s \in DOMAIN idOf
    /\ Returns(s, idOf[s])
    /\ UNCHANGED <<idOf, ready, trapped>>

InternNew(s) ==
    /\ s \notin DOMAIN idOf
    /\ DOMAIN idOf' = DOMAIN idOf \cup {s}
    /\ \A t \in DOMAIN idOf : idOf'[t] = idOf[t]
    /\ idOf'[s] \notin Range(idOf) \cup {Null, Missing}
    /\ ready' = TRUE
    /\ Returns(s, idOf'[s])
    /\ UNCHANGED trapped

LookUp(s) ==
    /\ ready
    /\ Returns(s, IF s \in DOMAIN idOf THEN idOf[s] ELSE Missing)
    /\ UNCHANGED <<idOf, ready, trapped>>

LookUpTooEarly ==
    /\ ~ready
    /\ trapped' = TRUE
    /\ UNCHANGED <<idOf, ready, asked, answer>>

Init ==
    /\ idOf = <<>>
    /\ ready = FALSE
    /\ asked = Unasked
    /\ answer = Unasked
    /\ trapped = FALSE

Next ==
    /\ ~trapped
    /\ \/ InternEmpty
       \/ \E s \in Strings : InternKnown(s) \/ InternNew(s)
       \/ \E s \in Strings \cup {Empty} : LookUp(s)
       \/ LookUpTooEarly

Spec == Init /\ [][Next]_vars
=============================================================================
