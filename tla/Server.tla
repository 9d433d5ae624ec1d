------------------------------- MODULE Server -------------------------------
(***************************************************************************)
(* The threads of src/main.cpp and what they share: the main thread that   *)
(* accepts connections, one thread_do_response per connection, the thread  *)
(* that keeps the world up to date and the one that samples the number of  *)
(* active threads.                                                         *)
(*                                                                         *)
(* A world_tick is one step here (World.tla looks inside it) and reading a *)
(* request is one step with any outcome (SocketBuffer.tla looks inside).   *)
(* Time and samples are bounded by MaxClock and MaxSamples; the code has   *)
(* no such bounds.  A client may go on with requests for ever.             *)
(***************************************************************************)
EXTENDS Integers, Sequences, FiniteSets

CONSTANTS
    Connections,    \* the connections clients make, one thread for each
    Updater,        \* thread_background_world_update
    Sampler,        \* thread_background_stat_update
    Nobody,         \* no thread or no connection
    NoPage,         \* a page that has not been rendered
    Routes,         \* the kinds of request clients make: "world", "stats", "other"
    SnapshotCount,  \* global_stats.snapshot_count            (100)
    Word,           \* 2^32, the range of a U32
    ClockStepsBack, \* whether time() may go backwards
    MaxClock, MaxSamples

ASSUME ThreadsAssumption ==
    /\ Updater \notin Connections /\ Sampler \notin Connections
    /\ Nobody \notin Connections \cup {Updater, Sampler}
    /\ Updater # Sampler
ASSUME RoutesAssumption == Routes \subseteq {"world", "stats", "other"}
ASSUME SnapshotsAssumption ==
    SnapshotCount \in Nat \ {0} /\ Word \in Nat /\ 2 * SnapshotCount <= Word + 1
ASSUME BoundsAssumption ==
    /\ MaxClock \in Nat /\ MaxSamples \in Nat
    /\ ClockStepsBack \in BOOLEAN
ASSUME PageAssumption == NoPage \notin Nat

VARIABLES
    running,        \* FALSE once handle_kill has ended the process
    clock,          \* time(NULL), counted from the start of the server
    pc,             \* where each thread is
    worldLock,      \* the holder of World_Instance.lock
    ticks,          \* how often world_tick has been called
    lastUpdated,    \* World_Instance.last_updated, counted likewise
    now,            \* the local variable of update_to_now
    asked,          \* history: when a connection's request was read
    page,           \* ticks a rendered page shows at its top and at its bottom
    socket,         \* "away", "backlog", "open" or "closed"
    accepted,       \* the connection main() is setting up
    setupFailed,    \* history: connections main() failed to set up
    activeThreads,  \* active_thread_count
    statsLock,      \* the holder of Server_Stats.lock
    counts,         \* active_thread_counts
    snapshotIndex,  \* snapshot_index
    samples,        \* history: the samples taken, the newest first
    highest,        \* max_thread_count as render_stats found it, until it is done
    series          \* the counts render_stats has drawn, in drawing order, until they are sent

worldVars == <<worldLock, ticks, lastUpdated, now, asked, page>>
mainVars == <<accepted, setupFailed>>
statsVars == <<statsLock, counts, snapshotIndex, samples, highest, series>>
vars == <<running, clock, pc, worldVars, socket, mainVars, activeThreads, statsVars>>

Threads == Connections \cup {Updater, Sampler}
Snapshots == 0 .. SnapshotCount - 1

NoSeries == [i \in Snapshots |-> 0]

Goto(t, to) == pc' = [pc EXCEPT ![t] = to]

-----------------------------------------------------------------------------
(* Clients, time and signals.                                              *)

Connect(c) ==
    /\ socket[c] = "away"
    /\ socket' = [socket EXCEPT ![c] = "backlog"]
    /\ UNCHANGED <<running, clock, pc, worldVars, mainVars, activeThreads, statsVars>>

SetClock(to) ==
    /\ clock' = to
    /\ UNCHANGED <<running, pc, worldVars, socket, mainVars, activeThreads, statsVars>>

Elapse == clock < MaxClock /\ SetClock(clock + 1)
StepBack == ClockStepsBack /\ clock > 0 /\ SetClock(clock - 1)

\* handle_kill: SIGINT or SIGTERM ends the process wherever its threads are.
Kill ==
    /\ running' = FALSE
    /\ UNCHANGED <<clock, pc, worldVars, socket, mainVars, activeThreads, statsVars>>

-----------------------------------------------------------------------------
(* main()'s accept loop.                                                   *)

Accept(c) ==
    /\ accepted = Nobody
    /\ socket[c] = "backlog"
    /\ socket' = [socket EXCEPT ![c] = "open"]
    /\ accepted' = c
    /\ UNCHANGED <<running, clock, pc, worldVars, setupFailed, activeThreads, statsVars>>

\* The timeouts are set and the thread is created.
Spawn ==
    /\ accepted # Nobody
    /\ Goto(accepted, "starting")
    /\ accepted' = Nobody
    /\ UNCHANGED <<running, clock, worldVars, socket, setupFailed, activeThreads, statsVars>>

\* os_socket_set_timeout fails, which main() answers with `continue', or
\* pthread_create fails, which os_thread_do does not notice: either way nobody
\* is left to close the socket.
SetupFails ==
    /\ accepted # Nobody
    /\ setupFailed' = setupFailed \cup {accepted}
    /\ accepted' = Nobody
    /\ UNCHANGED <<running, clock, pc, worldVars, socket, activeThreads, statsVars>>

Main == Spawn \/ SetupFails \/ \E c \in Connections : Accept(c)

-----------------------------------------------------------------------------
(* thread_do_response.                                                     *)

\* Fault: os_atomic_increment is forgotten.
StartUncounted(c) ==
    /\ pc[c] = "starting"
    /\ Goto(c, "reading")
    /\ UNCHANGED <<running, clock, worldVars, socket, mainVars, activeThreads, statsVars>>

Start(c) ==
    /\ pc[c] = "starting"
    /\ Goto(c, "reading")
    /\ activeThreads' = activeThreads + 1
    /\ UNCHANGED <<running, clock, worldVars, socket, mainVars, statsVars>>

ReadRequest(c) ==
    /\ pc[c] = "reading"
    /\ \E route \in Routes :
        Goto(c, IF route = "world" THEN "wantWorld"
                ELSE IF route = "stats" THEN "wantStats"
                ELSE "sending")
    /\ asked' = [asked EXCEPT ![c] = clock]
    /\ page' = [page EXCEPT ![c] = <<NoPage, NoPage>>]
    /\ UNCHANGED <<running, clock, worldLock, ticks, lastUpdated, now, socket, mainVars,
                   activeThreads, statsVars>>

\* Fault: the loop is left without closing the socket.
HangUpLeaving(c) ==
    /\ pc[c] = "reading"
    /\ Goto(c, "ending")
    /\ UNCHANGED <<running, clock, worldVars, socket, mainVars, activeThreads, statsVars>>

\* The client has closed the connection, sent nonsense or let a timeout pass.
HangUp(c) ==
    /\ pc[c] = "reading"
    /\ Goto(c, "ending")
    /\ socket' = [socket EXCEPT ![c] = "closed"]
    /\ UNCHANGED <<running, clock, worldVars, mainVars, activeThreads, statsVars>>

\* The page is sent, and with it goes the graph that was drawn for it.
Send(c) ==
    /\ pc[c] = "sending"
    /\ Goto(c, "reading")
    /\ series' = [series EXCEPT ![c] = NoSeries]
    /\ UNCHANGED <<running, clock, worldVars, socket, mainVars, activeThreads,
                   statsLock, counts, snapshotIndex, samples, highest>>

End(c) ==
    /\ pc[c] = "ending"
    /\ Goto(c, "gone")
    /\ activeThreads' = activeThreads - 1
    /\ UNCHANGED <<running, clock, worldVars, socket, mainVars, statsVars>>

-----------------------------------------------------------------------------
(* The world, as a response thread or the updater uses it.                 *)

worldRest == <<running, clock, socket, mainVars, activeThreads, statsVars>>

\* Fault: os_mutex_lock is forgotten.
EnterUnlocked(t) ==
    /\ pc[t] = "wantWorld"
    /\ Goto(t, "updating")
    /\ now' = [now EXCEPT ![t] = clock]
    /\ UNCHANGED <<worldRest, worldLock, ticks, lastUpdated, asked, page>>

\* os_mutex_lock and, once it is granted, the call of time() in update_to_now.
LockWorld(t) ==
    /\ pc[t] = "wantWorld"
    /\ worldLock = Nobody
    /\ worldLock' = t
    /\ Goto(t, "updating")
    /\ now' = [now EXCEPT ![t] = clock]
    /\ UNCHANGED <<worldRest, ticks, lastUpdated, asked, page>>

TickWorld(t) ==
    /\ pc[t] = "updating"
    /\ lastUpdated < now[t]
    /\ ticks' = ticks + 1
    /\ Goto(t, "advancing")
    /\ UNCHANGED <<worldRest, worldLock, lastUpdated, now, asked, page>>

Advance(t) ==
    /\ pc[t] = "advancing"
    /\ lastUpdated' = lastUpdated + 1
    /\ Goto(t, "updating")
    /\ UNCHANGED <<worldRest, worldLock, ticks, now, asked, page>>

\* Fault: the lock is given up before the page is rendered.
RenderTopUnlocked(c) ==
    /\ c \in Connections
    /\ pc[c] = "updating"
    /\ lastUpdated >= now[c]
    /\ worldLock' = Nobody
    /\ page' = [page EXCEPT ![c] = <<ticks, NoPage>>]
    /\ Goto(c, "rendering")
    /\ UNCHANGED <<worldRest, ticks, lastUpdated, now, asked>>

\* The first part of the page is rendered.
RenderTop(c) ==
    /\ c \in Connections
    /\ pc[c] = "updating"
    /\ lastUpdated >= now[c]
    /\ page' = [page EXCEPT ![c] = <<ticks, NoPage>>]
    /\ Goto(c, "rendering")
    /\ UNCHANGED <<worldRest, worldLock, ticks, lastUpdated, now, asked>>

\* The rest of the page is rendered and the lock released.
RenderAndUnlock(c) ==
    /\ pc[c] = "rendering"
    /\ page' = [page EXCEPT ![c][2] = ticks]
    /\ worldLock' = Nobody
    /\ Goto(c, "sending")
    /\ UNCHANGED <<worldRest, ticks, lastUpdated, now, asked>>

\* Fault: the updater goes to sleep with the lock.
SleepLocked ==
    /\ pc[Updater] = "updating"
    /\ lastUpdated >= now[Updater]
    /\ Goto(Updater, "sleeping")
    /\ UNCHANGED <<worldRest, worldLock, ticks, lastUpdated, now, asked, page>>

\* The updater is done, unlocks and sleeps for ten seconds.
UnlockAndSleep ==
    /\ pc[Updater] = "updating"
    /\ lastUpdated >= now[Updater]
    /\ worldLock' = Nobody
    /\ Goto(Updater, "sleeping")
    /\ UNCHANGED <<worldRest, ticks, lastUpdated, now, asked, page>>

WakeUpdater ==
    /\ pc[Updater] = "sleeping"
    /\ Goto(Updater, "wantWorld")
    /\ UNCHANGED <<worldRest, worldVars>>

Updating(t) == TickWorld(t) \/ Advance(t)

-----------------------------------------------------------------------------
(* The statistics.                                                         *)

statsRest == <<running, clock, worldVars, socket, mainVars, activeThreads>>

\* Fault: the sampler does not wait for the lock.
SampleUnlocked ==
    /\ Len(samples) < MaxSamples
    /\ counts' = [counts EXCEPT ![snapshotIndex] = activeThreads]
    /\ snapshotIndex' = (snapshotIndex + 1) % SnapshotCount
    /\ samples' = <<activeThreads>> \o samples
    /\ UNCHANGED <<statsRest, pc, statsLock, highest, series>>

\* One round of thread_background_stat_update; the lock is held throughout, so
\* only a reader can keep it waiting and nobody sees it inside.
Sample ==
    /\ Len(samples) < MaxSamples
    /\ statsLock = Nobody
    /\ counts' = [counts EXCEPT ![snapshotIndex] = activeThreads]
    /\ snapshotIndex' = (snapshotIndex + 1) % SnapshotCount
    /\ samples' = <<activeThreads>> \o samples
    /\ UNCHANGED <<statsRest, pc, statsLock, highest, series>>

LockStats(c) ==
    /\ pc[c] = "wantStats"
    /\ statsLock = Nobody
    /\ statsLock' = c
    /\ Goto(c, "scanning")
    /\ UNCHANGED <<statsRest, counts, snapshotIndex, samples, highest, series>>

\* render_stats first looks for the highest count, which scales the graph.
ScanStats(c) ==
    /\ pc[c] = "scanning"
    /\ highest' = [highest EXCEPT ![c] =
            CHOOSE m \in {1} \cup {counts[i] : i \in Snapshots} :
                /\ m >= 1
                /\ \A i \in Snapshots : m >= counts[i]]
    /\ Goto(c, "drawing")
    /\ UNCHANGED <<statsRest, statsLock, counts, snapshotIndex, samples, series>>

\* Where the i-th newest sample is, in the arithmetic of a U32.
NewestIndex(i) == ((snapshotIndex - 1 - i + SnapshotCount) % Word) % SnapshotCount

\* Then it draws the counts, the newest first, and the lock is released.
DrawAndUnlock(c) ==
    /\ pc[c] = "drawing"
    /\ series' = [series EXCEPT ![c] = [i \in Snapshots |-> counts[NewestIndex(i)]]]
    /\ highest' = [highest EXCEPT ![c] = 1]
    /\ statsLock' = Nobody
    /\ Goto(c, "sending")
    /\ UNCHANGED <<statsRest, counts, snapshotIndex, samples>>

-----------------------------------------------------------------------------
Init ==
    /\ running = TRUE
    /\ clock = 0
    /\ pc = [t \in Threads |-> IF t = Updater THEN "wantWorld" ELSE "none"]
    /\ worldLock = Nobody
    /\ ticks = 0
    /\ lastUpdated = 0
    /\ now = [t \in Threads |-> 0]
    /\ asked = [c \in Connections |-> 0]
    /\ page = [c \in Connections |-> <<NoPage, NoPage>>]
    /\ socket = [c \in Connections |-> "away"]
    /\ accepted = Nobody
    /\ setupFailed = {}
    /\ activeThreads = 0
    /\ statsLock = Nobody
    /\ counts = [i \in Snapshots |-> 0]
    /\ snapshotIndex = 0
    /\ samples = <<>>
    /\ highest = [c \in Connections |-> 1]
    /\ series = [c \in Connections |-> NoSeries]

LockedStep(c) ==
    Updating(c) \/ RenderTop(c) \/ RenderAndUnlock(c) \/ ScanStats(c) \/ DrawAndUnlock(c)

\* What a response thread does besides waiting for a lock.
Step(c) ==
    Start(c) \/ ReadRequest(c) \/ HangUp(c) \/ Send(c) \/ End(c) \/ LockedStep(c)

Respond(c) == LockWorld(c) \/ LockStats(c) \/ Step(c)

Background == LockWorld(Updater) \/ Updating(Updater) \/ UnlockAndSleep \/ WakeUpdater

Next ==
    /\ running
    /\ \/ Elapse \/ StepBack \/ Kill
       \/ Main
       \/ Background
       \/ Sample
       \/ \E c \in Connections : Connect(c) \/ Respond(c)

Spec == Init /\ [][Next]_vars

\* Every thread keeps running and every wait for the network is bounded by a
\* timeout.  A mutex makes no promise to the waiting, but nobody holds one for
\* long or again at once (the updater sleeps ten seconds, the sampler one), so
\* a waiting thread finds it free again and again and gets it in the end.
Fairness ==
    /\ WF_vars(running /\ Main)
    /\ WF_vars(running /\ Background)
    /\ \A c \in Connections :
        /\ WF_vars(running /\ Step(c))
        /\ SF_vars(running /\ LockWorld(c))
        /\ SF_vars(running /\ LockStats(c))

FairSpec == Spec /\ Fairness

-----------------------------------------------------------------------------
(* Properties                                                              *)

InWorld == {"updating", "advancing", "rendering"}
InStats == {"scanning", "drawing"}
PCs == {"none", "starting", "reading", "wantWorld", "wantStats", "sending", "ending",
        "gone", "sleeping"} \cup InWorld \cup InStats

\* The part of TypeOK that the theorems rest on.
WorldTypeOK ==
    /\ clock \in Nat
    /\ pc \in [Threads -> PCs]
    /\ worldLock \in Threads \cup {Nobody}
    /\ ticks \in Nat
    /\ lastUpdated \in Nat
    /\ now \in [Threads -> Nat]
    /\ asked \in [Connections -> Nat]
    /\ page \in [Connections -> (Nat \cup {NoPage}) \X (Nat \cup {NoPage})]
    /\ socket \in [Connections -> {"away", "backlog", "open", "closed"}]
    /\ accepted \in Connections \cup {Nobody}

\* Every variable keeps to its range; active_thread_count does not wrap.
TypeOK ==
    /\ WorldTypeOK
    /\ running \in BOOLEAN
    /\ setupFailed \subseteq Connections
    /\ activeThreads \in Nat
    /\ statsLock \in Connections \cup {Nobody}
    /\ counts \in [Snapshots -> Nat]
    /\ snapshotIndex \in Snapshots
    /\ samples \in Seq(Nat)
    /\ highest \in [Connections -> Nat]
    /\ series \in [Connections -> [Snapshots -> Nat]]

\* The holder of a lock is the one thread that is where the lock is needed.
WorldExclusive == \A t \in Threads : pc[t] \in InWorld <=> worldLock = t

\* However the threads interleave, every second is simulated once: world_tick
\* is ahead of last_updated by the one tick somebody is about to book.
TickAccounting ==
    ticks = lastUpdated + IF \E t \in Threads : pc[t] = "advancing" THEN 1 ELSE 0

\* A connection that has not been handed to a thread has none.
SetupInv ==
    /\ accepted # Nobody => pc[accepted] = "none" /\ socket[accepted] = "open"
    /\ \A c \in Connections : socket[c] \in {"away", "backlog"} => pc[c] = "none"

\* What is known of a page while it is asked for and rendered, if the clock is
\* never set back: why RefinesWorldService holds.
PageInv ==
    /\ lastUpdated <= clock
    /\ \A t \in Threads :
        /\ now[t] <= clock
        /\ pc[t] = "advancing" => lastUpdated < now[t]
    /\ \A c \in Connections :
        /\ asked[c] <= clock
        /\ pc[c] \in {"wantWorld"} \cup InWorld => page[c][2] = NoPage
        /\ pc[c] \in InWorld => asked[c] <= now[c]
        /\ pc[c] = "rendering" => page[c][1] = ticks /\ now[c] <= lastUpdated

\* The inductive invariant of the proofs.
ServerInv == WorldExclusive /\ SetupInv /\ PageInv

\* A page shows one instant of the world, no older than the request for it,
\* and the world never runs ahead of the clock.  A torn page is of no age.
WS == INSTANCE WorldService
        WITH age <- ticks,
             page <- [c \in Connections |->
                        IF page[c][2] = NoPage THEN NoPage
                        ELSE IF page[c][1] = page[c][2] THEN page[c][1]
                        ELSE -1]
RefinesWorldService == WS!Spec

\* An open socket has a thread that will close it, unless setting that thread
\* up failed.
Serving == PCs \ {"none", "ending", "gone", "sleeping"}
SocketsAccounted ==
    \A c \in Connections :
        socket[c] = "open" => c = accepted \/ pc[c] \in Serving \/ c \in setupFailed

\* The graph shows the last samples, the newest first and none left out, and
\* none of them is off the scale it was drawn to.
Newest(i) == IF i < Len(samples) THEN samples[i + 1] ELSE 0
SeriesIsHistory ==
    [][ \A c \in Connections :
            pc[c] = "drawing" /\ pc'[c] # "drawing" =>
                \A i \in Snapshots :
                    series'[c][i] = Newest(i) /\ series'[c][i] <= highest[c] ]_vars

\* Who waits for a lock gets it and is answered, though the updater takes it
\* again for ever.
RequestsAnswered ==
    \A c \in Connections :
        pc[c] \in {"wantWorld", "wantStats"} ~> (pc[c] = "sending" \/ ~running)

\* Every connection is taken up and in the end closed, unless its setup failed or
\* its client sends one request after the other for ever: the loop of
\* thread_do_response has no other end than a read that fails.  What the other
\* clients do, who may go on for ever, does not keep it from being closed.
ConnectionsClosed ==
    \A c \in Connections :
        \/ []<><<ReadRequest(c)>>_vars
        \/ socket[c] = "backlog" ~> (socket[c] = "closed" \/ c \in setupFailed \/ ~running)
=============================================================================
