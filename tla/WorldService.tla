---------------------------- MODULE WorldService ----------------------------
(***************************************************************************)
(* What the pages about the world promise (src/main.cpp): the world ages   *)
(* one tick a second and never runs ahead of the clock, and a page shows   *)
(* the world at a single instant, no earlier than the request for it.      *)
(* Server.tla implements this with a lock and a world that is only brought *)
(* up to date when somebody looks.                                         *)
(***************************************************************************)
EXTENDS Naturals

CONSTANTS Connections, MaxClock, NoPage

VARIABLES
    clock,      \* the time, in seconds since the server started
    age,        \* how many ticks old the world is
    asked,      \* when the connection's request was read
    page        \* the age of the world the connection's page shows

vars == <<clock, age, asked, page>>

Init ==
    /\ clock = 0
    /\ age = 0
    /\ asked = [c \in Connections |-> 0]
    /\ page = [c \in Connections |-> NoPage]

Elapse ==
    /\ clock < MaxClock
    /\ clock' = clock + 1
    /\ UNCHANGED <<age, asked, page>>

Tick ==
    /\ age < clock
    /\ age' = age + 1
    /\ UNCHANGED <<clock, asked, page>>

Ask(c) ==
    /\ asked' = [asked EXCEPT ![c] = clock]
    /\ page' = [page EXCEPT ![c] = NoPage]
    /\ UNCHANGED <<clock, age>>

Show(c) ==
    /\ page[c] = NoPage
    /\ asked[c] <= age
    /\ page' = [page EXCEPT ![c] = age]
    /\ UNCHANGED <<clock, age, asked>>

Next == Elapse \/ Tick \/ \E c \in Connections : Ask(c) \/ Show(c)

Spec == Init /\ [][Next]_vars
=============================================================================
