---------------------------- MODULE ServerProofs ----------------------------
(***************************************************************************)
(* Proofs about Server.tla, for any number of connections and any bounds:  *)
(* the lock is exclusive, every second is simulated exactly once, and, if  *)
(* the clock is never set back, pages show what WorldService.tla promises. *)
(***************************************************************************)
EXTENDS Server, ProofBasics, FiniteSetTheorems

-----------------------------------------------------------------------------
(* Types.                                                                  *)

LEMMA TypeInit == Init => WorldTypeOK
<1> SUFFICES ASSUME Init PROVE WorldTypeOK
  OBVIOUS
<1> QED
  BY DEF Init, WorldTypeOK, Threads, PCs, InWorld, InStats

LEMMA TypeStep == WorldTypeOK /\ [Next]_vars => WorldTypeOK'
<1> SUFFICES ASSUME WorldTypeOK, [Next]_vars PROVE WorldTypeOK'
  OBVIOUS
<1> USE DEF WorldTypeOK, PCs, InWorld, InStats, Threads
<1>1. CASE UNCHANGED vars
  BY <1>1 DEF vars, worldVars, mainVars
<1>2. CASE Elapse \/ StepBack \/ Kill
  BY <1>2 DEF Elapse, StepBack, Kill, SetClock, worldVars, mainVars
<1>3. CASE \E c \in Connections : Connect(c) \/ Accept(c)
  BY <1>3 DEF Connect, Accept, worldVars, mainVars
<1>4. CASE Spawn \/ SetupFails
  BY <1>4 DEF Spawn, SetupFails, Goto, worldVars
<1>5. CASE \E c \in Connections : Start(c) \/ HangUp(c) \/ Send(c) \/ End(c)
  BY <1>5 DEF Start, HangUp, Send, End, Goto, worldVars, mainVars
<1>6. CASE \E c \in Connections : ReadRequest(c)
  <2> PICK c \in Connections : ReadRequest(c)
    BY <1>6
  <2>1. page' \in [Connections -> (Nat \cup {NoPage}) \X (Nat \cup {NoPage})]
    BY DEF ReadRequest
  <2>2. pc' \in [Threads -> PCs]
    BY RoutesAssumption DEF ReadRequest, Goto
  <2> QED
    BY <2>1, <2>2 DEF ReadRequest, mainVars
<1>7. CASE \E t \in Threads : LockWorld(t) \/ TickWorld(t) \/ Advance(t)
  BY <1>7 DEF LockWorld, TickWorld, Advance, Goto, worldRest, mainVars
<1>8. CASE \E c \in Connections : RenderTop(c)
  <2> PICK c \in Connections : RenderTop(c)
    BY <1>8
  <2>1. page' \in [Connections -> (Nat \cup {NoPage}) \X (Nat \cup {NoPage})]
    BY DEF RenderTop
  <2> QED
    BY <2>1 DEF RenderTop, Goto, worldRest, mainVars
<1>9. CASE \E c \in Connections : RenderAndUnlock(c)
  <2> PICK c \in Connections : RenderAndUnlock(c)
    BY <1>9
  <2>1. page' \in [Connections -> (Nat \cup {NoPage}) \X (Nat \cup {NoPage})]
    BY DEF RenderAndUnlock
  <2> QED
    BY <2>1 DEF RenderAndUnlock, Goto, worldRest, mainVars
<1>10. CASE UnlockAndSleep \/ WakeUpdater
  BY <1>10 DEF UnlockAndSleep, WakeUpdater, Goto, worldRest, worldVars, mainVars
<1>11. CASE Sample
  BY <1>11 DEF Sample, statsRest, worldVars, mainVars
<1>12. CASE \E c \in Connections : LockStats(c) \/ ScanStats(c) \/ DrawAndUnlock(c)
  BY <1>12 DEF LockStats, ScanStats, DrawAndUnlock, Goto, statsRest, worldVars, mainVars
<1> QED
  BY <1>1, <1>2, <1>3, <1>4, <1>5, <1>6, <1>7, <1>8, <1>9, <1>10, <1>11, <1>12
  DEF Next, Main, Background, Respond, Step, LockedStep, Updating

\* Every variable the threads share about the world keeps to its range,
\* whatever the threads do.
THEOREM ServerTypes == Spec => []WorldTypeOK
BY TypeInit, TypeStep, PTL DEF Spec

-----------------------------------------------------------------------------
(* Connections being set up.                                               *)

LEMMA SetupInit == Init => SetupInv
BY ThreadsAssumption DEF Init, SetupInv, Threads

LEMMA SetupStep == WorldTypeOK /\ SetupInv /\ [Next]_vars => SetupInv'
<1> SUFFICES ASSUME WorldTypeOK, SetupInv, [Next]_vars PROVE SetupInv'
  OBVIOUS
<1> USE ThreadsAssumption DEF WorldTypeOK, SetupInv, Threads
<1>1. CASE UNCHANGED vars
  BY <1>1 DEF vars, mainVars
<1>2. CASE Elapse \/ StepBack \/ Kill \/ Sample
  BY <1>2 DEF Elapse, StepBack, Kill, SetClock, Sample, statsRest, mainVars
<1>3. CASE \E c \in Connections : Connect(c) \/ Accept(c)
  BY <1>3 DEF Connect, Accept, mainVars
<1>4. CASE Spawn \/ SetupFails
  BY <1>4 DEF Spawn, SetupFails, Goto
<1>5. CASE \E c \in Connections : Start(c) \/ ReadRequest(c) \/ HangUp(c) \/ Send(c) \/ End(c)
  BY <1>5 DEF Start, ReadRequest, HangUp, Send, End, Goto, mainVars
<1>6. CASE \E t \in Threads : LockWorld(t) \/ TickWorld(t) \/ Advance(t)
  BY <1>6 DEF LockWorld, TickWorld, Advance, Goto, worldRest, mainVars
<1>7. CASE \E c \in Connections : RenderTop(c) \/ RenderAndUnlock(c)
  BY <1>7 DEF RenderTop, RenderAndUnlock, Goto, worldRest, mainVars
<1>8. CASE UnlockAndSleep \/ WakeUpdater
  BY <1>8 DEF UnlockAndSleep, WakeUpdater, Goto, worldRest, mainVars
<1>9. CASE \E c \in Connections : LockStats(c) \/ ScanStats(c) \/ DrawAndUnlock(c)
  BY <1>9 DEF LockStats, ScanStats, DrawAndUnlock, Goto, statsRest, mainVars
<1> QED
  BY <1>1, <1>2, <1>3, <1>4, <1>5, <1>6, <1>7, <1>8, <1>9
  DEF Next, Main, Background, Respond, Step, LockedStep, Updating, Threads

LEMMA SetupAlways == Spec => []SetupInv
BY SetupInit, SetupStep, ServerTypes, PTL DEF Spec

-----------------------------------------------------------------------------
(* Sockets.                                                                *)

LEMMA AccountedInit == Init => SocketsAccounted
BY DEF Init, SocketsAccounted

LEMMA AccountedStep ==
    WorldTypeOK /\ SetupInv /\ SocketsAccounted /\ [Next]_vars => SocketsAccounted'
<1> SUFFICES ASSUME WorldTypeOK, SetupInv, SocketsAccounted, [Next]_vars PROVE SocketsAccounted'
  OBVIOUS
<1> USE ThreadsAssumption
    DEF WorldTypeOK, SocketsAccounted, Serving, PCs, InWorld, InStats, Threads
<1>1. CASE UNCHANGED vars
  BY <1>1 DEF vars, mainVars
<1>2. CASE Elapse \/ StepBack \/ Kill \/ Sample
  BY <1>2 DEF Elapse, StepBack, Kill, SetClock, Sample, statsRest, mainVars
<1>3. CASE \E c \in Connections : Connect(c) \/ Accept(c)
  BY <1>3 DEF Connect, Accept, mainVars
<1>4. CASE Spawn \/ SetupFails
  BY <1>4 DEF Spawn, SetupFails, Goto
<1>5. CASE \E c \in Connections : Start(c) \/ ReadRequest(c) \/ HangUp(c) \/ Send(c) \/ End(c)
  BY <1>5 DEF Start, ReadRequest, HangUp, Send, End, Goto, mainVars
<1>6. CASE \E t \in Threads : LockWorld(t) \/ TickWorld(t) \/ Advance(t)
  BY <1>6 DEF LockWorld, TickWorld, Advance, Goto, worldRest, mainVars
<1>7. CASE \E c \in Connections : RenderTop(c) \/ RenderAndUnlock(c)
  BY <1>7 DEF RenderTop, RenderAndUnlock, Goto, worldRest, mainVars
<1>8. CASE UnlockAndSleep \/ WakeUpdater
  BY <1>8 DEF UnlockAndSleep, WakeUpdater, Goto, worldRest, mainVars
<1>9. CASE \E c \in Connections : LockStats(c) \/ ScanStats(c) \/ DrawAndUnlock(c)
  BY <1>9 DEF LockStats, ScanStats, DrawAndUnlock, Goto, statsRest, mainVars
<1> QED
  BY <1>1, <1>2, <1>3, <1>4, <1>5, <1>6, <1>7, <1>8, <1>9
  DEF Next, Main, Background, Respond, Step, LockedStep, Updating

\* An open socket is being set up, has a thread that will close it, or lost
\* that thread when os_socket_set_timeout or pthread_create failed.
THEOREM NoSocketForgotten == Spec => []SocketsAccounted
BY AccountedInit, AccountedStep, ServerTypes, SetupAlways, PTL DEF Spec

-----------------------------------------------------------------------------
(* The lock of the world.                                                  *)

LEMMA ExclusiveInit == Init => WorldExclusive
BY ThreadsAssumption DEF Init, WorldExclusive, Threads, InWorld

LEMMA ExclusiveStep == WorldTypeOK /\ SetupInv /\ WorldExclusive /\ [Next]_vars => WorldExclusive'
<1> SUFFICES ASSUME WorldTypeOK, SetupInv, WorldExclusive, [Next]_vars PROVE WorldExclusive'
  OBVIOUS
<1> USE ThreadsAssumption DEF WorldTypeOK, WorldExclusive, Threads, InWorld
<1>1. CASE UNCHANGED vars
  BY <1>1 DEF vars, worldVars
<1>2. CASE Elapse \/ StepBack \/ Kill \/ Sample
  BY <1>2 DEF Elapse, StepBack, Kill, SetClock, Sample, statsRest, worldVars
<1>3. CASE \E c \in Connections : Connect(c) \/ Accept(c)
  BY <1>3 DEF Connect, Accept, worldVars
<1>4. CASE Spawn \/ SetupFails
  BY <1>4 DEF Spawn, SetupFails, Goto, SetupInv, worldVars
<1>5. CASE \E c \in Connections : Start(c) \/ ReadRequest(c) \/ HangUp(c) \/ Send(c) \/ End(c)
  BY <1>5 DEF Start, ReadRequest, HangUp, Send, End, Goto, worldVars
<1>6. CASE \E t \in Threads : LockWorld(t) \/ TickWorld(t) \/ Advance(t)
  BY <1>6 DEF LockWorld, TickWorld, Advance, Goto
<1>7. CASE \E c \in Connections : RenderTop(c) \/ RenderAndUnlock(c)
  BY <1>7 DEF RenderTop, RenderAndUnlock, Goto
<1>8. CASE UnlockAndSleep \/ WakeUpdater
  BY <1>8 DEF UnlockAndSleep, WakeUpdater, Goto, worldVars
<1>9. CASE \E c \in Connections : LockStats(c) \/ ScanStats(c) \/ DrawAndUnlock(c)
  BY <1>9 DEF LockStats, ScanStats, DrawAndUnlock, Goto, statsRest, worldVars
<1> QED
  BY <1>1, <1>2, <1>3, <1>4, <1>5, <1>6, <1>7, <1>8, <1>9
  DEF Next, Main, Background, Respond, Step, LockedStep, Updating, Threads

\* The lock's holder is the only thread that updates or renders the world.
THEOREM ServerExclusive == Spec => []WorldExclusive
BY ExclusiveInit, ExclusiveStep, ServerTypes, SetupAlways, PTL DEF Spec

-----------------------------------------------------------------------------
(* Ticks.                                                                  *)

\* Somebody has called world_tick and not yet counted the second.
SomeAdvancing == \E t \in Threads : pc[t] = "advancing"

LEMMA TickInit == Init => TickAccounting
<1> SUFFICES ASSUME Init PROVE TickAccounting
  OBVIOUS
<1>1. \A t \in Threads : pc[t] # "advancing"
  BY DEF Init
<1> QED
  BY <1>1 DEF Init, TickAccounting

\* A thread that goes from one place to another, neither of them between the
\* call of world_tick and the increment, leaves the account as it is.
LEMMA GotoElsewhere ==
    ASSUME WorldTypeOK, NEW t \in Threads, NEW to, to # "advancing",
           pc[t] # "advancing", Goto(t, to)
    PROVE  SomeAdvancing' <=> SomeAdvancing
BY DEF WorldTypeOK, SomeAdvancing, Goto, Threads

LEMMA TickStep ==
    WorldTypeOK /\ SetupInv /\ WorldExclusive /\ TickAccounting /\ [Next]_vars => TickAccounting'
<1> SUFFICES ASSUME WorldTypeOK, SetupInv, WorldExclusive, TickAccounting, [Next]_vars
             PROVE  TickAccounting'
  OBVIOUS
<1>0. ASSUME UNCHANGED <<ticks, lastUpdated>>, SomeAdvancing' <=> SomeAdvancing
      PROVE  TickAccounting'
  BY <1>0 DEF TickAccounting, SomeAdvancing
<1>1. CASE UNCHANGED <<pc, ticks, lastUpdated>>
  BY <1>1, <1>0 DEF SomeAdvancing
<1>2. CASE Spawn
  <2>1. accepted \in Threads /\ pc[accepted] = "none" /\ Goto(accepted, "starting")
    BY <1>2 DEF Spawn, SetupInv, WorldTypeOK, Threads
  <2> QED
    BY <1>2, <2>1, <1>0, GotoElsewhere DEF Spawn, worldVars
<1>3. CASE \E c \in Connections : Start(c) \/ ReadRequest(c) \/ HangUp(c) \/ Send(c) \/ End(c)
  <2> PICK c \in Connections : Start(c) \/ ReadRequest(c) \/ HangUp(c) \/ Send(c) \/ End(c)
    BY <1>3
  <2>1. pc[c] # "advancing" /\ \E to : to # "advancing" /\ Goto(c, to)
    BY DEF Start, ReadRequest, HangUp, Send, End
  <2>2. UNCHANGED <<ticks, lastUpdated>>
    BY DEF Start, ReadRequest, HangUp, Send, End, worldVars
  <2> QED
    BY <2>1, <2>2, <1>0, GotoElsewhere DEF Threads
<1>4. CASE \E t \in Threads : LockWorld(t)
  BY <1>4, <1>0, GotoElsewhere DEF LockWorld
<1>5. CASE \E t \in Threads : TickWorld(t)
  <2> PICK t \in Threads : TickWorld(t)
    BY <1>5
  <2>1. ~SomeAdvancing
    BY DEF SomeAdvancing, TickWorld, WorldExclusive, InWorld
  <2>2. SomeAdvancing'
    BY DEF SomeAdvancing, TickWorld, Goto, WorldTypeOK
  <2> QED
    BY <2>1, <2>2 DEF TickAccounting, SomeAdvancing, TickWorld, WorldTypeOK
<1>6. CASE \E t \in Threads : Advance(t)
  <2> PICK t \in Threads : Advance(t)
    BY <1>6
  <2>1. SomeAdvancing
    BY DEF SomeAdvancing, Advance
  <2>2. ~SomeAdvancing'
    BY DEF SomeAdvancing, Advance, Goto, WorldTypeOK, WorldExclusive, InWorld
  <2> QED
    BY <2>1, <2>2 DEF TickAccounting, SomeAdvancing, Advance, WorldTypeOK
<1>7. CASE \E c \in Connections : RenderTop(c) \/ RenderAndUnlock(c)
  BY <1>7, <1>0, GotoElsewhere DEF RenderTop, RenderAndUnlock, Threads
<1>8. CASE UnlockAndSleep \/ WakeUpdater
  BY <1>8, <1>0, GotoElsewhere DEF UnlockAndSleep, WakeUpdater, worldVars, Threads
<1>9. CASE \E c \in Connections : LockStats(c) \/ ScanStats(c) \/ DrawAndUnlock(c)
  BY <1>9, <1>0, GotoElsewhere DEF LockStats, ScanStats, DrawAndUnlock, statsRest, worldVars, Threads
<1>10. CASE \/ UNCHANGED vars
            \/ Elapse \/ StepBack \/ Kill \/ Sample \/ SetupFails
            \/ \E c \in Connections : Connect(c) \/ Accept(c)
  BY <1>10, <1>1 DEF vars, Elapse, StepBack, Kill, SetClock, Sample, statsRest, SetupFails,
                     Connect, Accept, worldVars
<1> QED
  BY <1>2, <1>3, <1>4, <1>5, <1>6, <1>7, <1>8, <1>9, <1>10
  DEF Next, Main, Background, Respond, Step, LockedStep, Updating, Threads

\* However the threads interleave and however the clock is set, world_tick has
\* been called once for every second last_updated has advanced.
THEOREM EverySecondOnce == Spec => []TickAccounting
BY TickInit, TickStep, ServerTypes, SetupAlways, ServerExclusive, PTL DEF Spec

-----------------------------------------------------------------------------
(* The statistics.                                                         *)

\* Where a response thread is between its increment and its decrement of
\* active_thread_count.
Counted == PCs \ {"none", "starting", "gone", "sleeping"}
Active == { c \in Connections : pc[c] \in Counted }

\* active_thread_count counts the threads that are answering.
CountInv ==
    /\ IsFiniteSet(Active)
    /\ activeThreads = Cardinality(Active)

StatsTypeOK ==
    /\ running \in BOOLEAN
    /\ setupFailed \subseteq Connections
    /\ statsLock \in Connections \cup {Nobody}
    /\ counts \in [Snapshots -> Nat]
    /\ snapshotIndex \in Snapshots
    /\ samples \in Seq(Nat)
    /\ highest \in [Connections -> Nat]
    /\ series \in [Connections -> [Snapshots -> Nat]]

StatsExclusive == \A c \in Connections : pc[c] \in InStats <=> statsLock = c

\* Where the k-th newest sample is, with nothing cut off.
SampleSlot(k) == (snapshotIndex - 1 - k) % SnapshotCount

\* The ring holds the newest samples, and zeros before the first one.
RingInv == \A k \in Snapshots : counts[SampleSlot(k)] = Newest(k)

\* Nothing gets higher while a graph scaled to the highest count is drawn.
ScaleInv ==
    \A c \in Connections : pc[c] = "drawing" => \A i \in Snapshots : counts[i] <= highest[c]

StatsInv == CountInv /\ StatsTypeOK /\ StatsExclusive /\ RingInv /\ ScaleInv

\* A thread that does not start or end to answer leaves the count as it is.
LEMMA SameActive ==
    ASSUME WorldTypeOK, CountInv, activeThreads' = activeThreads,
           \/ pc' = pc
           \/ \E t \in Threads, to \in PCs : Goto(t, to) /\ (pc[t] \in Counted <=> to \in Counted)
    PROVE  CountInv'
<1>1. Active' = Active
    BY DEF Active, WorldTypeOK, Goto, Threads
<1>2. QED
    BY <1>1 DEF CountInv

LEMMA CountStep == WorldTypeOK /\ SetupInv /\ CountInv /\ [Next]_vars => CountInv'
<1> SUFFICES ASSUME WorldTypeOK, SetupInv, CountInv, [Next]_vars PROVE CountInv'
    OBVIOUS
<1>1. CASE \E c \in Connections : Start(c)
    <2> PICK c \in Connections : Start(c)
        BY <1>1
    <2>1. c \notin Active /\ Active' = Active \cup {c} /\ activeThreads' = activeThreads + 1
        BY DEF Start, Goto, Active, Counted, PCs, InWorld, InStats, WorldTypeOK, Threads
    <2>2. QED
        BY <2>1, FS_AddElement DEF CountInv
<1>2. CASE \E c \in Connections : End(c)
    <2> PICK c \in Connections : End(c)
        BY <1>2
    <2>1. c \in Active /\ Active' = Active \ {c} /\ activeThreads' = activeThreads - 1
        BY DEF End, Goto, Active, Counted, PCs, InWorld, InStats, WorldTypeOK, Threads
    <2>2. QED
        BY <2>1, FS_RemoveElement DEF CountInv
<1>3. CASE Spawn
    <2>1. accepted \in Threads /\ pc[accepted] = "none" /\ Goto(accepted, "starting")
        BY <1>3 DEF Spawn, SetupInv, WorldTypeOK, Threads
    <2>2. QED
        BY <1>3, <2>1, SameActive DEF Spawn, Counted, PCs, InWorld, InStats
<1>4. CASE \E c \in Connections : ReadRequest(c) \/ HangUp(c) \/ Send(c)
    <2> PICK c \in Connections : ReadRequest(c) \/ HangUp(c) \/ Send(c)
        BY <1>4
    <2>1. /\ activeThreads' = activeThreads /\ c \in Threads
          /\ \E to \in PCs : Goto(c, to) /\ (pc[c] \in Counted <=> to \in Counted)
        BY DEF ReadRequest, HangUp, Send, Counted, PCs, InWorld, InStats, Threads
    <2>2. QED
        BY <2>1, SameActive
<1>5. CASE \E t \in Threads : LockWorld(t) \/ TickWorld(t) \/ Advance(t)
    BY <1>5, SameActive DEF LockWorld, TickWorld, Advance, worldRest, Counted, PCs, InWorld, InStats
<1>6. CASE \E c \in Connections : RenderTop(c) \/ RenderAndUnlock(c)
    BY <1>6, SameActive
       DEF RenderTop, RenderAndUnlock, worldRest, Counted, PCs, InWorld, InStats, Threads
<1>7. CASE UnlockAndSleep \/ WakeUpdater
    <2>1. Active' = Active /\ activeThreads' = activeThreads
        BY <1>7, ThreadsAssumption
           DEF UnlockAndSleep, WakeUpdater, Goto, worldRest, Active, WorldTypeOK, Threads
    <2>2. QED
        BY <2>1 DEF CountInv
<1>8. CASE \E c \in Connections : LockStats(c) \/ ScanStats(c) \/ DrawAndUnlock(c)
    BY <1>8, SameActive
       DEF LockStats, ScanStats, DrawAndUnlock, statsRest, Counted, PCs, InWorld, InStats, Threads
<1>9. CASE \/ UNCHANGED vars
           \/ Elapse \/ StepBack \/ Kill \/ Sample \/ SetupFails
           \/ \E c \in Connections : Connect(c) \/ Accept(c)
    BY <1>9, SameActive DEF vars, Elapse, StepBack, Kill, SetClock, Sample, statsRest, SetupFails,
                            Connect, Accept
<1>10. QED
    BY <1>1, <1>2, <1>3, <1>4, <1>5, <1>6, <1>7, <1>8, <1>9
    DEF Next, Main, Background, Respond, Step, LockedStep, Updating, Threads

LEMMA StatsExclusiveStep ==
    WorldTypeOK /\ SetupInv /\ StatsTypeOK /\ StatsExclusive /\ [Next]_vars => StatsExclusive'
<1> SUFFICES ASSUME WorldTypeOK, SetupInv, StatsTypeOK, StatsExclusive, [Next]_vars
             PROVE  StatsExclusive'
    OBVIOUS
<1>0. /\ pc \in [Threads -> PCs] /\ statsLock \in Connections \cup {Nobody} /\ Nobody \notin Connections
      /\ Updater \notin Connections /\ Connections \subseteq Threads
    BY ThreadsAssumption DEF WorldTypeOK, StatsTypeOK, Threads
<1>1. CASE UNCHANGED <<pc, statsLock>>
    BY <1>1 DEF StatsExclusive
<1>2. CASE /\ statsLock' = statsLock
           /\ \E t \in Threads, to \in PCs : Goto(t, to) /\ (pc[t] \in InStats <=> to \in InStats)
    BY <1>0, <1>2 DEF Goto, StatsExclusive
<1>3. CASE Spawn
    <2>1. accepted \in Threads /\ pc[accepted] = "none" /\ Goto(accepted, "starting")
        BY <1>3 DEF Spawn, SetupInv, WorldTypeOK, Threads
    <2>2. QED
        BY <1>2, <1>3, <2>1 DEF Spawn, statsVars, PCs, InWorld, InStats
<1>4. CASE \E c \in Connections : Start(c) \/ ReadRequest(c) \/ HangUp(c) \/ Send(c) \/ End(c)
    <2> PICK c \in Connections : Start(c) \/ ReadRequest(c) \/ HangUp(c) \/ Send(c) \/ End(c)
        BY <1>4
    <2>1. /\ statsLock' = statsLock
          /\ \E to \in PCs : Goto(c, to) /\ (pc[c] \in InStats <=> to \in InStats)
        BY DEF Start, ReadRequest, HangUp, Send, End, statsVars, PCs, InWorld, InStats
    <2>2. QED
        BY <1>0, <1>2, <2>1
<1>5. CASE \E t \in Threads : LockWorld(t) \/ TickWorld(t) \/ Advance(t)
    BY <1>2, <1>5 DEF LockWorld, TickWorld, Advance, worldRest, statsVars, PCs, InWorld, InStats
<1>6. CASE \E c \in Connections : RenderTop(c) \/ RenderAndUnlock(c)
    BY <1>0, <1>2, <1>6 DEF RenderTop, RenderAndUnlock, worldRest, statsVars, PCs, InWorld, InStats
<1>7. CASE UnlockAndSleep \/ WakeUpdater
    BY <1>0, <1>2, <1>7 DEF UnlockAndSleep, WakeUpdater, worldRest, statsVars, PCs, InWorld, InStats, Threads
<1>8. CASE \E c \in Connections : LockStats(c)
    BY <1>0, <1>8 DEF LockStats, Goto, StatsExclusive, InStats
<1>9. CASE \E c \in Connections : ScanStats(c)
    BY <1>0, <1>2, <1>9 DEF ScanStats, PCs, InStats
<1>10. CASE \E c \in Connections : DrawAndUnlock(c)
    BY <1>0, <1>10 DEF DrawAndUnlock, Goto, StatsExclusive, InStats
<1>11. CASE \/ UNCHANGED vars
            \/ Elapse \/ StepBack \/ Kill \/ Sample \/ SetupFails
            \/ \E c \in Connections : Connect(c) \/ Accept(c)
    BY <1>1, <1>11 DEF vars, Elapse, StepBack, Kill, SetClock, Sample, SetupFails, Connect, Accept,
                       statsVars
<1>12. QED
    BY <1>3, <1>4, <1>5, <1>6, <1>7, <1>8, <1>9, <1>10, <1>11
    DEF Next, Main, Background, Respond, Step, LockedStep, Updating, Threads

\* render_stats finds the highest count, or 1 if that is higher.
LEMMA HighestFound ==
    ASSUME StatsTypeOK
    PROVE  LET m == CHOOSE m \in {1} \cup {counts[i] : i \in Snapshots} :
                        m >= 1 /\ \A i \in Snapshots : m >= counts[i]
           IN  m \in Nat /\ \A i \in Snapshots : m >= counts[i]
<1> DEFINE good(m) == m >= 1 /\ \A i \in Snapshots : m >= counts[i]
           S == {1} \cup {counts[i] : i \in Snapshots}
<1>1. counts \in [0 .. SnapshotCount - 1 -> Nat] /\ SnapshotCount \in Nat
    BY SnapshotsAssumption DEF StatsTypeOK, Snapshots
<1>2. \E m \in {1} \cup { counts[i] : i \in 0 .. SnapshotCount - 1 } :
            m >= 1 /\ \A i \in 0 .. SnapshotCount - 1 : m >= counts[i]
    BY <1>1, GreatestExists
<1>3. \E m \in S : good(m)
    BY <1>2 DEF Snapshots
<1>4. \A m \in S : m \in Nat
    BY <1>1 DEF Snapshots
<1> HIDE DEF S
<1>5. (CHOOSE m \in S : good(m)) \in S /\ good(CHOOSE m \in S : good(m))
    BY <1>3
<1>6. QED
    BY <1>4, <1>5 DEF S

\* In the arithmetic of a U32 nothing is cut off: the ring is small enough.
LEMMA NewestIndexIsSlot ==
    ASSUME StatsTypeOK, NEW k \in Snapshots
    PROVE  NewestIndex(k) = SampleSlot(k) /\ SampleSlot(k) \in Snapshots
<1> DEFINE n == SnapshotCount
           x == snapshotIndex - 1 - k
           q == x \div n
<1>1. /\ n \in Nat \ {0} /\ snapshotIndex \in 0 .. n - 1 /\ k \in 0 .. n - 1 /\ x \in Int
      /\ Word \in Nat /\ 2 * n <= Word + 1
    BY SnapshotsAssumption DEF StatsTypeOK, Snapshots
<1>2. x % n \in 0 .. n - 1 /\ q \in Int /\ x = n * q + (x % n)
    BY <1>1, Remainder
<1>3. x + n \in 0 .. Word - 1 /\ Word \in Nat \ {0}
    BY <1>1
<1>4. (x + n) % Word = x + n
    BY <1>3
<1>5. x + n = n * (q + 1) + (x % n) /\ q + 1 \in Int
    BY <1>1, <1>2
<1>6. (n * (q + 1) + (x % n)) % n = x % n
    BY <1>1, <1>2, <1>5, RemainderIsUnique, Zenon
<1>7. NewestIndex(k) = (x + n) % n
    BY <1>4 DEF NewestIndex
<1>8. QED
    BY <1>2, <1>5, <1>6, <1>7 DEF SampleSlot, Snapshots

\* Where samples are once another has been taken: each is one further back.
LEMMA SlotsAfterSample ==
    ASSUME NEW index \in Snapshots, NEW k \in Snapshots
    PROVE  /\ (index + 1) % SnapshotCount \in Snapshots
           /\ (((index + 1) % SnapshotCount) - 1 - k) % SnapshotCount
                = IF k = 0 THEN index ELSE (index - 1 - (k - 1)) % SnapshotCount
           /\ k # 0 => (index - 1 - (k - 1)) % SnapshotCount # index
<1> DEFINE n == SnapshotCount
           next == (index + 1) % n
           age == (index - k) % n
           q == (index - k) \div n
<1>1. /\ n \in Nat \ {0} /\ index \in 0 .. n - 1 /\ k \in 0 .. n - 1
      /\ index + 1 \in Int /\ -1 - k \in Int /\ index - k \in Int
    BY SnapshotsAssumption DEF Snapshots
<1>2. next \in 0 .. n - 1
    BY <1>1, StaysWithin
<1>3. (next + (-1 - k)) % n = ((index + 1) + (-1 - k)) % n
    BY <1>1, RemainderOfSum, Zenon
<1>4. next + (-1 - k) = next - 1 - k /\ (index + 1) + (-1 - k) = index - k
    BY <1>1, <1>2
<1>5. (next - 1 - k) % n = age
    BY <1>3, <1>4
<1>6. age \in 0 .. n - 1 /\ q \in Int /\ index - k = n * q + age
    BY <1>1, Remainder
<1>7. index - 1 - (k - 1) = index - k
    BY <1>1
<1>8. CASE k = 0
    <2>1. index - k = n * 0 + index
        BY <1>1, <1>8
    <2>2. 0 \in Int /\ (n * 0 + index) % n = index
        BY <1>1, RemainderIsUnique
    <2>3. QED
        BY <1>2, <1>5, <1>8, <2>1, <2>2 DEF Snapshots
<1>9. CASE k # 0
    <2>1. CASE age = index
        <3>1. n * q = -k
            BY <1>1, <1>6, <2>1
        <3>2. CASE q >= 0
            <4>1. n * q >= 0
                BY <1>1, <1>6, <3>2
            <4>2. QED
                BY <1>1, <1>9, <3>1, <4>1
        <3>3. CASE q <= -1
            <4>1. n * q <= -n
                BY <1>1, <1>6, <3>3
            <4>2. QED
                BY <1>1, <3>1, <4>1
        <3>4. QED
            BY <1>6, <3>2, <3>3
    <2>2. CASE age # index
        BY <1>2, <1>5, <1>7, <1>9, <2>2 DEF Snapshots
    <2>3. QED
        BY <2>1, <2>2
<1>10. QED
    BY <1>8, <1>9

\* Nobody starts or ends to draw and the statistics stay what they are; a graph
\* may be sent.
StatsIdle ==
    /\ UNCHANGED <<statsLock, counts, snapshotIndex, samples, highest>>
    /\ series' = series \/ \E c \in Connections : series' = [series EXCEPT ![c] = NoSeries]
    /\ \A c \in Connections : pc[c] = "drawing" <=> pc'[c] = "drawing"

\* A sample moves the ring on by one and nothing else changes.
LEMMA SampleStep ==
    ASSUME WorldTypeOK, CountInv, StatsTypeOK, StatsExclusive, RingInv, Sample
    PROVE  /\ counts' \in [Snapshots -> Nat] /\ snapshotIndex' \in Snapshots /\ samples' \in Seq(Nat)
           /\ RingInv'
           /\ \A c \in Connections : pc[c] # "drawing"
<1> DEFINE next == (snapshotIndex + 1) % SnapshotCount
<1>1. activeThreads \in Nat
    BY FS_CardinalityType DEF CountInv
<1>2. /\ counts \in [Snapshots -> Nat] /\ snapshotIndex \in Snapshots /\ samples \in Seq(Nat)
      /\ Snapshots \subseteq Nat
    BY DEF StatsTypeOK, Snapshots
<1>3. /\ counts' = [counts EXCEPT ![snapshotIndex] = activeThreads]
      /\ snapshotIndex' = next /\ samples' = <<activeThreads>> \o samples
      /\ statsLock = Nobody
    BY DEF Sample
<1>4. next \in Snapshots
    BY <1>2, SlotsAfterSample
<1>5. counts' \in [Snapshots -> Nat]
    BY <1>1, <1>2, <1>3
<1>6. /\ samples' \in Seq(Nat) /\ Len(samples') = Len(samples) + 1 /\ Len(samples) \in Nat
      /\ samples'[1] = activeThreads
      /\ \A i \in 1 .. Len(samples) : samples'[i + 1] = samples[i]
    BY <1>1, <1>2, <1>3
<1>7. ASSUME NEW k \in Snapshots PROVE counts'[(next - 1 - k) % SnapshotCount] = Newest(k)'
    <2>1. /\ (next - 1 - k) % SnapshotCount
                = IF k = 0 THEN snapshotIndex ELSE (snapshotIndex - 1 - (k - 1)) % SnapshotCount
          /\ k # 0 => (snapshotIndex - 1 - (k - 1)) % SnapshotCount # snapshotIndex
        BY <1>2, SlotsAfterSample
    <2>2. Newest(k)' = IF k < Len(samples') THEN samples'[k + 1] ELSE 0
        BY DEF Newest
    <2> HIDE DEF next
    <2>3. CASE k = 0
        <3>1. counts'[snapshotIndex] = activeThreads
            BY <1>2, <1>3
        <3>2. 0 < Len(samples') /\ samples'[0 + 1] = activeThreads
            BY <1>6
        <3>3. QED
            BY <2>1, <2>2, <2>3, <3>1, <3>2
    <2>4. CASE k # 0
        <3>1. k - 1 \in Snapshots /\ k \in Nat /\ k - 1 \in Nat
            BY <2>4, SnapshotsAssumption DEF Snapshots
        <3> DEFINE s == SampleSlot(k - 1)
        <3>2. s \in Snapshots /\ counts[s] = Newest(k - 1)
            BY <3>1, NewestIndexIsSlot DEF RingInv
        <3>3. (next - 1 - k) % SnapshotCount = s /\ s # snapshotIndex
            BY <2>1, <2>4 DEF SampleSlot
        <3> HIDE DEF s
        <3>4. counts'[s] = counts[s]
            BY <1>2, <1>3, <3>2, <3>3
        <3>5. Newest(k - 1) = IF k - 1 < Len(samples) THEN samples[k] ELSE 0
            <4>1. (k - 1) + 1 = k
                BY <3>1
            <4>2. QED
                BY <4>1 DEF Newest
        <3>6. CASE k - 1 < Len(samples)
            <4>1. k < Len(samples') /\ k \in 1 .. Len(samples)
                BY <1>6, <2>4, <3>1, <3>6
            <4>2. samples'[k + 1] = samples[k]
                BY <1>6, <4>1
            <4>3. QED
                BY <2>2, <3>2, <3>3, <3>4, <3>5, <3>6, <4>1, <4>2
        <3>7. CASE ~(k - 1 < Len(samples))
            <4>1. ~(k < Len(samples'))
                BY <1>6, <3>1, <3>7
            <4>2. QED
                BY <2>2, <3>2, <3>3, <3>4, <3>5, <3>7, <4>1
        <3>8. QED
            BY <3>6, <3>7
    <2>5. QED
        BY <2>3, <2>4
<1>8. RingInv'
    BY <1>3, <1>7 DEF RingInv, SampleSlot
<1>9. \A c \in Connections : pc[c] # "drawing"
    BY <1>3, ThreadsAssumption DEF StatsExclusive, InStats
<1>10. QED
    BY <1>3, <1>4, <1>5, <1>6, <1>8, <1>9

LEMMA StatsInit == Init => StatsInv
<1> SUFFICES ASSUME Init PROVE StatsInv
    OBVIOUS
<1>1. CountInv
    <2>1. Active = {}
        BY ThreadsAssumption DEF Init, Active, Counted, PCs, InWorld, InStats, Threads
    <2>2. QED
        BY <2>1, FS_EmptySet DEF Init, CountInv
<1>2. StatsTypeOK
    <2>1. 0 \in Snapshots
        BY SnapshotsAssumption DEF Snapshots
    <2>2. QED
        BY <2>1 DEF Init, StatsTypeOK, NoSeries
<1>3. StatsExclusive
    BY ThreadsAssumption DEF Init, StatsExclusive, InStats, Threads
<1>4. RingInv
    <2>1. \A k \in Snapshots : SampleSlot(k) \in Snapshots
        BY <1>2, NewestIndexIsSlot
    <2>2. \A k \in Snapshots : Newest(k) = 0
        BY DEF Init, Newest, Snapshots
    <2>3. QED
        BY <2>1, <2>2 DEF Init, RingInv
<1>5. ScaleInv
    BY ThreadsAssumption DEF Init, ScaleInv, Threads
<1>6. QED
    BY <1>1, <1>2, <1>3, <1>4, <1>5 DEF StatsInv

\* A step either is about the statistics or leaves them alone.
LEMMA StatsSteps ==
    ASSUME WorldTypeOK, SetupInv, [Next]_vars
    PROVE  StatsIdle \/ Sample \/ \E c \in Connections : LockStats(c) \/ ScanStats(c) \/ DrawAndUnlock(c)
<1>0. pc \in [Threads -> PCs] /\ Connections \subseteq Threads
    BY DEF WorldTypeOK, Threads
<1>1. CASE UNCHANGED <<pc, statsVars>>
    BY <1>1 DEF StatsIdle, statsVars
<1>2. CASE /\ UNCHANGED statsVars
           /\ \E t \in Threads, to \in PCs : Goto(t, to) /\ pc[t] # "drawing" /\ to # "drawing"
    BY <1>0, <1>2 DEF Goto, StatsIdle, statsVars
<1>3. CASE Spawn
    <2>1. accepted \in Threads /\ pc[accepted] = "none" /\ Goto(accepted, "starting")
        BY <1>3 DEF Spawn, SetupInv, WorldTypeOK, Threads
    <2>2. QED
        BY <1>2, <1>3, <2>1 DEF Spawn, PCs
<1>4. CASE \E c \in Connections : Start(c) \/ ReadRequest(c) \/ HangUp(c) \/ End(c)
    <2> PICK c \in Connections : Start(c) \/ ReadRequest(c) \/ HangUp(c) \/ End(c)
        BY <1>4
    <2>1. /\ UNCHANGED statsVars
          /\ \E to \in PCs : Goto(c, to) /\ pc[c] # "drawing" /\ to # "drawing"
        BY DEF Start, ReadRequest, HangUp, End, PCs
    <2>2. QED
        BY <1>0, <1>2, <2>1
<1>5. CASE \E t \in Threads : LockWorld(t) \/ TickWorld(t) \/ Advance(t)
    BY <1>2, <1>5 DEF LockWorld, TickWorld, Advance, worldRest, PCs, InWorld
<1>6. CASE \E c \in Connections : RenderTop(c) \/ RenderAndUnlock(c)
    BY <1>0, <1>2, <1>6 DEF RenderTop, RenderAndUnlock, worldRest, PCs, InWorld
<1>7. CASE UnlockAndSleep \/ WakeUpdater
    BY <1>2, <1>7 DEF UnlockAndSleep, WakeUpdater, worldRest, PCs, Threads
<1>8. CASE \/ UNCHANGED vars
           \/ Elapse \/ StepBack \/ Kill \/ SetupFails
           \/ \E c \in Connections : Connect(c) \/ Accept(c)
    BY <1>1, <1>8 DEF vars, Elapse, StepBack, Kill, SetClock, SetupFails, Connect, Accept
<1>9. CASE \E c \in Connections : Send(c)
    BY <1>0, <1>9 DEF Send, Goto, StatsIdle
<1>10. QED
    BY <1>3, <1>4, <1>5, <1>6, <1>7, <1>8, <1>9
    DEF Next, Main, Background, Respond, Step, LockedStep, Updating, Threads

LEMMA RestTypeStep == WorldTypeOK /\ StatsTypeOK /\ [Next]_vars =>
                        /\ running' \in BOOLEAN
                        /\ setupFailed' \subseteq Connections
<1> SUFFICES ASSUME WorldTypeOK, StatsTypeOK, [Next]_vars
             PROVE  /\ running' \in BOOLEAN
                    /\ setupFailed' \subseteq Connections
    OBVIOUS
<1>0. running \in BOOLEAN /\ setupFailed \subseteq Connections
      /\ accepted \in Connections \cup {Nobody}
    BY DEF WorldTypeOK, StatsTypeOK
<1>1. CASE UNCHANGED <<running, setupFailed>>
    BY <1>0, <1>1
<1>2. CASE Kill \/ SetupFails
    BY <1>0, <1>2 DEF Kill, SetupFails, mainVars
<1>3. CASE \E c \in Connections : ReadRequest(c)
    BY <1>0, <1>3 DEF ReadRequest, mainVars
<1>4. CASE \/ UNCHANGED vars \/ Elapse \/ StepBack \/ Sample \/ Spawn \/ UnlockAndSleep \/ WakeUpdater
           \/ \E c \in Connections :
                    \/ Connect(c) \/ Accept(c) \/ Start(c) \/ HangUp(c) \/ Send(c) \/ End(c)
                    \/ RenderTop(c) \/ RenderAndUnlock(c)
                    \/ LockStats(c) \/ ScanStats(c) \/ DrawAndUnlock(c)
           \/ \E t \in Threads : LockWorld(t) \/ TickWorld(t) \/ Advance(t)
    BY <1>1, <1>4
       DEF vars, mainVars, Elapse, StepBack, SetClock, Sample, statsRest, Spawn, UnlockAndSleep,
           WakeUpdater, worldRest, Connect, Accept, Start, HangUp, Send, End, RenderTop,
           RenderAndUnlock, LockStats, ScanStats, DrawAndUnlock, LockWorld, TickWorld, Advance
<1>5. QED
    BY <1>2, <1>3, <1>4
    DEF Next, Main, Background, Respond, Step, LockedStep, Updating, Threads

LEMMA StatsStep ==
    WorldTypeOK /\ SetupInv /\ StatsInv /\ [Next]_vars => StatsInv'
<1> SUFFICES ASSUME WorldTypeOK, SetupInv, StatsInv, [Next]_vars PROVE StatsInv'
    OBVIOUS
<1>0. CountInv' /\ StatsExclusive'
    BY CountStep, StatsExclusiveStep DEF StatsInv
<1>1. running' \in BOOLEAN /\ setupFailed' \subseteq Connections
    BY RestTypeStep DEF StatsInv
<1>2. /\ StatsTypeOK /\ CountInv /\ StatsExclusive /\ RingInv /\ ScaleInv
      /\ pc \in [Threads -> PCs] /\ Connections \subseteq Threads
    BY DEF StatsInv, WorldTypeOK, Threads
<1>3. CASE StatsIdle
    <2>1. StatsTypeOK'
        <3>1. series' \in [Connections -> [Snapshots -> Nat]]
            <4>1. series \in [Connections -> [Snapshots -> Nat]] /\ NoSeries \in [Snapshots -> Nat]
                BY <1>2 DEF StatsTypeOK, NoSeries
            <4>2. QED
                BY <1>3, <4>1 DEF StatsIdle
        <3>2. QED
            BY <1>1, <1>2, <1>3, <3>1 DEF StatsTypeOK, StatsIdle
    <2>2. RingInv'
        BY <1>2, <1>3 DEF RingInv, SampleSlot, Newest, StatsIdle
    <2>3. ScaleInv'
        BY <1>2, <1>3 DEF ScaleInv, StatsIdle
    <2>4. QED
        BY <1>0, <2>1, <2>2, <2>3 DEF StatsInv
<1>4. CASE Sample
    <2>1. /\ counts' \in [Snapshots -> Nat] /\ snapshotIndex' \in Snapshots /\ samples' \in Seq(Nat)
          /\ RingInv'
          /\ \A c \in Connections : pc[c] # "drawing"
        BY <1>2, <1>4, SampleStep
    <2>2. pc' = pc /\ UNCHANGED <<statsLock, highest, series>>
        BY <1>4 DEF Sample
    <2>3. StatsTypeOK'
        BY <1>1, <1>2, <2>1, <2>2 DEF StatsTypeOK
    <2>4. ScaleInv'
        BY <2>1, <2>2 DEF ScaleInv
    <2>5. QED
        BY <1>0, <2>1, <2>3, <2>4 DEF StatsInv
<1>5. ASSUME NEW c \in Connections, LockStats(c) PROVE StatsInv'
    <2>1. /\ pc' = [pc EXCEPT ![c] = "scanning"] /\ statsLock' = c
          /\ UNCHANGED <<counts, snapshotIndex, samples, highest, series>>
        BY <1>5 DEF LockStats, Goto
    <2>2. StatsTypeOK'
        BY <1>1, <1>2, <2>1 DEF StatsTypeOK
    <2>3. RingInv'
        BY <1>2, <2>1 DEF RingInv, SampleSlot, Newest
    <2>4. ScaleInv'
        BY <1>2, <2>1 DEF ScaleInv
    <2>5. QED
        BY <1>0, <2>2, <2>3, <2>4 DEF StatsInv
<1>6. ASSUME NEW c \in Connections, ScanStats(c) PROVE StatsInv'
    <2> DEFINE top == CHOOSE m \in {1} \cup {counts[i] : i \in Snapshots} :
                            m >= 1 /\ \A i \in Snapshots : m >= counts[i]
    <2>1. /\ pc' = [pc EXCEPT ![c] = "drawing"] /\ highest' = [highest EXCEPT ![c] = top]
          /\ UNCHANGED <<statsLock, counts, snapshotIndex, samples, series>>
        BY <1>6 DEF ScanStats, Goto
    <2>2. top \in Nat /\ \A i \in Snapshots : top >= counts[i]
        BY <1>2, HighestFound
    <2> HIDE DEF top
    <2>3. StatsTypeOK'
        BY <1>1, <1>2, <2>1, <2>2 DEF StatsTypeOK
    <2>4. RingInv'
        BY <1>2, <2>1 DEF RingInv, SampleSlot, Newest
    <2>5. ScaleInv'
        <3>1. /\ counts \in [Snapshots -> Nat] /\ highest \in [Connections -> Nat]
            BY <1>2 DEF StatsTypeOK
        <3>2. \A i \in Snapshots : counts[i] <= top
            BY <2>2, <3>1
        <3>3. QED
            BY <1>2, <2>1, <3>1, <3>2 DEF ScaleInv
    <2>6. QED
        BY <1>0, <2>3, <2>4, <2>5 DEF StatsInv
<1>7. ASSUME NEW c \in Connections, DrawAndUnlock(c) PROVE StatsInv'
    <2>1. /\ pc' = [pc EXCEPT ![c] = "sending"] /\ statsLock' = Nobody
          /\ series' = [series EXCEPT ![c] = [i \in Snapshots |-> counts[NewestIndex(i)]]]
          /\ highest' = [highest EXCEPT ![c] = 1]
          /\ UNCHANGED <<counts, snapshotIndex, samples>>
        BY <1>7 DEF DrawAndUnlock, Goto
    <2>2. [i \in Snapshots |-> counts[NewestIndex(i)]] \in [Snapshots -> Nat]
        BY <1>2, NewestIndexIsSlot DEF StatsTypeOK
    <2>3. StatsTypeOK'
        BY <1>1, <1>2, <2>1, <2>2 DEF StatsTypeOK
    <2>4. RingInv'
        BY <1>2, <2>1 DEF RingInv, SampleSlot, Newest
    <2>5. ScaleInv'
        BY <1>2, <2>1 DEF ScaleInv
    <2>6. QED
        BY <1>0, <2>3, <2>4, <2>5 DEF StatsInv
<1>8. QED
    BY <1>3, <1>4, <1>5, <1>6, <1>7, StatsSteps

\* The ring holds the newest samples where render_stats looks for them, and
\* the lock keeps it as it is from the search for the scale to the last line.
THEOREM StatsInvariant == Spec => []StatsInv
BY StatsInit, StatsStep, ServerTypes, SetupAlways, PTL DEF Spec

\* Every variable keeps to its range; active_thread_count is the number of
\* threads that are answering and never falls below zero.
THEOREM ServerTypeCorrect == Spec => []TypeOK
<1>1. WorldTypeOK /\ StatsInv => TypeOK
    <2> SUFFICES ASSUME WorldTypeOK, StatsInv PROVE TypeOK
        OBVIOUS
    <2>1. activeThreads \in Nat
        BY FS_CardinalityType DEF StatsInv, CountInv
    <2>2. QED
        BY <2>1 DEF TypeOK, StatsInv, StatsTypeOK
<1>2. QED
    BY <1>1, ServerTypes, StatsInvariant, PTL

\* A graph shows the last samples, the newest first, in a scale that fits.
THEOREM GraphShowsHistory == Spec => SeriesIsHistory
<1> DEFINE A == \A c \in Connections :
                    pc[c] = "drawing" /\ pc'[c] # "drawing" =>
                        \A i \in Snapshots : series'[c][i] = Newest(i) /\ series'[c][i] <= highest[c]
<1>1. WorldTypeOK /\ SetupInv /\ StatsInv /\ [Next]_vars => A
    <2> SUFFICES ASSUME WorldTypeOK, SetupInv, StatsInv, [Next]_vars,
                        NEW c \in Connections, pc[c] = "drawing", pc'[c] # "drawing",
                        NEW i \in Snapshots
                 PROVE  series'[c][i] = Newest(i) /\ series'[c][i] <= highest[c]
        OBVIOUS
    <2>1. /\ StatsTypeOK /\ RingInv /\ ScaleInv
          /\ pc \in [Threads -> PCs] /\ Connections \subseteq Threads
        BY DEF StatsInv, WorldTypeOK, Threads
    <2>2. DrawAndUnlock(c)
        <3>1. ~StatsIdle
            BY DEF StatsIdle
        <3>2. ~Sample
            BY DEF Sample
        <3>3. ASSUME NEW d \in Connections, LockStats(d) \/ ScanStats(d) PROVE FALSE
            BY <2>1, <3>3 DEF LockStats, ScanStats, Goto
        <3>4. ASSUME NEW d \in Connections, DrawAndUnlock(d) PROVE d = c
            BY <2>1, <3>4 DEF DrawAndUnlock, Goto
        <3>5. QED
            BY <3>1, <3>2, <3>3, <3>4, StatsSteps
    <2>3. series'[c][i] = counts[NewestIndex(i)]
        BY <2>1, <2>2 DEF DrawAndUnlock, StatsTypeOK
    <2>4. NewestIndex(i) = SampleSlot(i) /\ SampleSlot(i) \in Snapshots
        BY <2>1, NewestIndexIsSlot
    <2>5. QED
        BY <2>1, <2>3, <2>4 DEF RingInv, ScaleInv
<1>2. QED
    BY <1>1, ServerTypes, SetupAlways, StatsInvariant, PTL DEF Spec, SeriesIsHistory

-----------------------------------------------------------------------------
(* Pages, if the clock is never set back.                                  *)

LEMMA PageInit == Init => PageInv
BY DEF Init, PageInv, InWorld, Threads

LEMMA PageStep ==
    ASSUME ClockStepsBack = FALSE
    PROVE  WorldTypeOK /\ SetupInv /\ WorldExclusive /\ PageInv /\ [Next]_vars => PageInv'
<1> SUFFICES ASSUME WorldTypeOK, SetupInv, WorldExclusive, PageInv, [Next]_vars PROVE PageInv'
  OBVIOUS
<1> USE ThreadsAssumption, BoundsAssumption DEF WorldTypeOK, PageInv, InWorld, Threads
<1>1. CASE UNCHANGED vars
  BY <1>1 DEF vars, worldVars
<1>2. CASE Elapse \/ StepBack \/ Kill \/ Sample
  BY <1>2 DEF Elapse, StepBack, Kill, SetClock, Sample, statsRest, worldVars
<1>3. CASE \E c \in Connections : Connect(c) \/ Accept(c)
  BY <1>3 DEF Connect, Accept, worldVars
<1>4. CASE Spawn \/ SetupFails
  BY <1>4 DEF Spawn, SetupFails, Goto, SetupInv, worldVars
<1>5. CASE \E c \in Connections : Start(c) \/ HangUp(c) \/ Send(c) \/ End(c)
  BY <1>5 DEF Start, HangUp, Send, End, Goto, worldVars
<1>6. CASE \E c \in Connections : ReadRequest(c)
  BY <1>6 DEF ReadRequest, Goto
<1>7. CASE \E t \in Threads : LockWorld(t)
  BY <1>7 DEF LockWorld, Goto, worldRest
<1>8. CASE \E t \in Threads : TickWorld(t)
  BY <1>8 DEF TickWorld, Goto, worldRest, WorldExclusive
<1>9. CASE \E t \in Threads : Advance(t)
  BY <1>9 DEF Advance, Goto, worldRest, WorldExclusive
<1>10. CASE \E c \in Connections : RenderTop(c)
  BY <1>10 DEF RenderTop, Goto, worldRest
<1>11. CASE \E c \in Connections : RenderAndUnlock(c)
  BY <1>11 DEF RenderAndUnlock, Goto, worldRest
<1>12. CASE UnlockAndSleep \/ WakeUpdater
  BY <1>12 DEF UnlockAndSleep, WakeUpdater, Goto, worldRest, worldVars
<1>13. CASE \E c \in Connections : LockStats(c) \/ ScanStats(c) \/ DrawAndUnlock(c)
  BY <1>13 DEF LockStats, ScanStats, DrawAndUnlock, Goto, statsRest, worldVars
<1> QED
  BY <1>1, <1>2, <1>3, <1>4, <1>5, <1>6, <1>7, <1>8, <1>9, <1>10, <1>11, <1>12, <1>13
  DEF Next, Main, Background, Respond, Step, LockedStep, Updating, Threads

LEMMA PagesAlways ==
    ASSUME ClockStepsBack = FALSE
    PROVE  Spec => []PageInv
BY PageInit, PageStep, ServerTypes, SetupAlways, ServerExclusive, PTL DEF Spec

\* The invariant the refinement rests on.
THEOREM ServerInvariant ==
    ASSUME ClockStepsBack = FALSE
    PROVE  Spec => []ServerInv
BY PagesAlways, SetupAlways, ServerExclusive, PTL DEF ServerInv

-----------------------------------------------------------------------------
(* The refinement.                                                         *)

\* The page as WorldService.tla knows it.
Shown(c) ==
    IF page[c][2] = NoPage THEN NoPage
    ELSE IF page[c][1] = page[c][2] THEN page[c][1]
    ELSE -1

LEMMA ShownInit == Init => WS!Init
<1> SUFFICES ASSUME Init PROVE WS!Init
  OBVIOUS
<1>1. \A c \in Connections : Shown(c) = NoPage
  BY DEF Init, Shown
<1> QED
  BY <1>1 DEF Init, WS!Init, Shown

LEMMA ShownStep ==
    ASSUME ClockStepsBack = FALSE
    PROVE  WorldTypeOK /\ ServerInv /\ TickAccounting /\ [Next]_vars => [WS!Next]_WS!vars
<1> SUFFICES ASSUME WorldTypeOK, ServerInv, TickAccounting, [Next]_vars
             PROVE  [WS!Next]_WS!vars
  OBVIOUS
<1> USE ThreadsAssumption DEF WorldTypeOK, Threads
<1>1. CASE UNCHANGED <<clock, ticks, asked, page>>
  BY <1>1 DEF WS!vars
<1>2. CASE Elapse \/ StepBack
  <2>1. CASE Elapse
    BY <2>1 DEF Elapse, SetClock, worldVars, WS!Elapse, WS!Next
  <2>2. CASE StepBack
    BY <2>2 DEF StepBack
  <2> QED
    BY <1>2, <2>1, <2>2
<1>3. ASSUME NEW c \in Connections, ReadRequest(c)
      PROVE  WS!Ask(c)
  <2>1. Shown(c)' = NoPage
    BY <1>3 DEF ReadRequest, Shown
  <2>2. \A d \in Connections \ {c} : Shown(d)' = Shown(d)
    BY <1>3 DEF ReadRequest, Shown
  <2> QED
    BY <1>3, <2>1, <2>2 DEF ReadRequest, WS!Ask, Shown
<1>4. ASSUME NEW t \in Threads, TickWorld(t)
      PROVE  WS!Tick
  <2>1. \A s \in Threads : pc[s] # "advancing"
    BY <1>4 DEF TickWorld, ServerInv, WorldExclusive, InWorld
  <2>2. ticks = lastUpdated
    BY <2>1 DEF TickAccounting
  <2>3. ticks < clock
    BY <1>4, <2>2 DEF TickWorld, ServerInv, PageInv
  <2> QED
    BY <1>4, <2>3 DEF TickWorld, worldRest, WS!Tick
<1>5. ASSUME NEW c \in Connections, RenderTop(c)
      PROVE  UNCHANGED WS!vars
  <2>1. Shown(c)' = NoPage /\ Shown(c) = NoPage
    BY <1>5 DEF RenderTop, Shown, ServerInv, PageInv, InWorld
  <2>2. \A d \in Connections \ {c} : Shown(d)' = Shown(d)
    BY <1>5 DEF RenderTop, Shown
  <2> QED
    BY <1>5, <2>1, <2>2 DEF RenderTop, worldRest, WS!vars, Shown
<1>6. ASSUME NEW c \in Connections, RenderAndUnlock(c)
      PROVE  WS!Show(c)
  <2>1. Shown(c)' = ticks /\ Shown(c) = NoPage
    BY <1>6, PageAssumption DEF RenderAndUnlock, Shown, ServerInv, PageInv, InWorld
  <2>2. \A d \in Connections \ {c} : Shown(d)' = Shown(d)
    BY <1>6 DEF RenderAndUnlock, Shown
  <2>3. lastUpdated <= ticks
    BY DEF TickAccounting
  <2>4. asked[c] <= ticks
    BY <1>6, <2>3 DEF RenderAndUnlock, ServerInv, PageInv, InWorld
  <2> QED
    BY <1>6, <2>1, <2>2, <2>4 DEF RenderAndUnlock, worldRest, WS!Show, Shown
<1>7. CASE \/ UNCHANGED vars \/ Kill \/ Sample \/ Spawn \/ SetupFails
           \/ UnlockAndSleep \/ WakeUpdater
  BY <1>7, <1>1 DEF vars, Kill, Sample, statsRest, Spawn, SetupFails, UnlockAndSleep,
                    WakeUpdater, worldRest, worldVars
<1>8. CASE \E t \in Threads : LockWorld(t) \/ Advance(t)
  BY <1>8, <1>1 DEF LockWorld, Advance, worldRest
<1>9. CASE \E c \in Connections : \/ Connect(c) \/ Accept(c) \/ Start(c) \/ HangUp(c) \/ Send(c)
                                  \/ End(c) \/ LockStats(c) \/ ScanStats(c) \/ DrawAndUnlock(c)
  BY <1>9, <1>1 DEF Connect, Accept, Start, HangUp, Send, End, LockStats, ScanStats,
                    DrawAndUnlock, statsRest, worldVars
<1> QED
  BY <1>2, <1>3, <1>4, <1>5, <1>6, <1>7, <1>8, <1>9
  DEF Next, Main, Background, Respond, Step, LockedStep, Updating, WS!Next

\* Pages show the world at one instant, no earlier than the request for them,
\* and the world never runs ahead of the clock: the threads of main.cpp
\* implement WorldService.tla as long as nobody sets the clock back.
THEOREM ServerImplementsService ==
    ASSUME ClockStepsBack = FALSE
    PROVE  Spec => RefinesWorldService
BY ShownInit, ShownStep, ServerTypes, ServerInvariant, EverySecondOnce, PTL
DEF Spec, RefinesWorldService, WS!Spec
=============================================================================
