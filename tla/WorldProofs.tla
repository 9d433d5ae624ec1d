---------------------------- MODULE WorldProofs ----------------------------
(***************************************************************************)
(* Proofs about World.tla, for any number of dwarves, any map, any feed    *)
(* size and any constants that NeedsAssumption allows.                     *)
(***************************************************************************)
EXTENDS World, ProofBasics

-----------------------------------------------------------------------------
(* Type correctness.                                                       *)

\* The search for a location with food or a bed ends on one that has it.
LEMMA RelocatedFinds ==
    ASSUME NEW wanted \in SUBSET Locations, wanted # {}, NEW d \in Dwarves,
           location \in [Dwarves -> Locations]
    PROVE  Relocated(d, wanted) \in wanted
<1>1. wanted \subseteq Nat
    BY LocationsAssumption
<1>2. PICK l \in wanted : \A m \in wanted : l <= m
    BY <1>1, LeastNatural
<1>3. QED
    BY <1>2 DEF Relocated

LEMMA WorldPostType ==
    ASSUME NEW f \in [posts : [Slots -> Posts], index : Slots],
           NEW d \in Dwarves, NEW k \in PostKinds
    PROVE  WorldPost(f, d, k) \in [posts : [Slots -> Posts], index : Slots]
<1>1. (f.index + 1) % PostSlots \in Slots
    BY PostSlotsAssumption DEF Slots
<1>2. [by |-> d, kind |-> k] \in Posts
    BY DEF Posts
<1>3. QED
    BY <1>1, <1>2 DEF WorldPost

LEMMA ConcludeType ==
    ASSUME TypeOK, NEW d \in Dwarves, NEW next \in Activities,
           NEW announce \in BOOLEAN, NEW dies \in BOOLEAN,
           Conclude(d, next, announce, dies)
    PROVE  /\ activity' \in [Dwarves -> Activities]
           /\ activity' = [activity EXCEPT ![d] = next]
           /\ alive' \in [Dwarves -> BOOLEAN]
           /\ feed' \in [posts : [Slots -> Posts], index : Slots]
<1> DEFINE Feeds == [posts : [Slots -> Posts], index : Slots]
           told == IF next = activity[d] THEN feed ELSE Announced(feed, d, next, announce)
<1>1. feed \in Feeds
    BY DEF TypeOK
<1>2. told \in Feeds
    <2>1. CASE told = feed
        BY <1>1, <2>1
    <2>2. CASE told = WorldPost(feed, d, next) /\ next # "Idle"
        <3>1. next \in PostKinds
            BY <2>2 DEF Activities, PostKinds
        <3>2. QED
            BY <1>1, <2>2, <3>1, WorldPostType
    <2>3. QED
        BY <2>1, <2>2 DEF Announced
<1>3. WorldPost(told, d, "Death") \in Feeds
    BY <1>2, WorldPostType DEF PostKinds
<1>4. feed' = IF dies THEN WorldPost(told, d, "Death") ELSE told
    BY DEF Conclude
<1>5. feed' \in Feeds
    BY <1>2, <1>3, <1>4
<1>6. activity' = [activity EXCEPT ![d] = next] /\ alive' = [alive EXCEPT ![d] = ~dies]
    BY DEF Conclude
<1>7. QED
    BY <1>5, <1>6 DEF TypeOK

\* The three branches of world_tick's switch, read as steps of one dwarf.
LEMMA StepType ==
    ASSUME TypeOK, NEW d \in Dwarves, NEW announce \in BOOLEAN, NEW dies \in BOOLEAN,
           \/ IdleTick(d, announce, dies)
           \/ EatTick(d, announce, dies)
           \/ SleepTick(d, announce, dies)
    PROVE  /\ hunger' \in [Dwarves -> Int]
           /\ sleep' \in [Dwarves -> Int]
           /\ activity' \in [Dwarves -> Activities]
           /\ location' \in [Dwarves -> Locations]
           /\ alive' \in [Dwarves -> BOOLEAN]
           /\ feed' \in [posts : [Slots -> Posts], index : Slots]
<1>1. CASE IdleTick(d, announce, dies)
    <2>1. Conclude(d, ChosenActivity(hunger'[d], sleep'[d]), announce, dies)
        BY <1>1 DEF IdleTick
    <2>2. ChosenActivity(hunger'[d], sleep'[d]) \in Activities
        BY DEF ChosenActivity, Activities
    <2>3. QED
        BY <1>1, <2>1, <2>2, ConcludeType DEF IdleTick, TypeOK
<1>2. CASE EatTick(d, announce, dies)
    <2> DEFINE next == IF hunger'[d] < ContentBelow THEN "Idle" ELSE "Eat"
    <2>1. Conclude(d, next, announce, dies)
        BY <1>2 DEF EatTick
    <2>2. next \in Activities
        BY DEF Activities
    <2>3. Relocated(d, HasFood) \in Locations
        BY RelocatedFinds, LocationsAssumption DEF TypeOK
    <2> HIDE DEF next
    <2>4. activity' \in [Dwarves -> Activities] /\ alive' \in [Dwarves -> BOOLEAN]
            /\ feed' \in [posts : [Slots -> Posts], index : Slots]
        BY <2>1, <2>2, ConcludeType
    <2>5. hunger' \in [Dwarves -> Int] /\ sleep' \in [Dwarves -> Int]
        BY <1>2 DEF EatTick, TypeOK, Recovery
    <2>6. location' \in [Dwarves -> Locations]
        <3>1. location' = [location EXCEPT ![d] = Relocated(d, HasFood)]
            BY <1>2 DEF EatTick
        <3>2. QED
            BY <2>3, <3>1 DEF TypeOK
    <2>7. QED
        BY <2>4, <2>5, <2>6
<1>3. CASE SleepTick(d, announce, dies)
    <2> DEFINE next == IF sleep'[d] < ContentBelow THEN "Idle" ELSE "Sleep"
    <2>1. Conclude(d, next, announce, dies)
        BY <1>3 DEF SleepTick
    <2>2. next \in Activities
        BY DEF Activities
    <2>3. Relocated(d, HasBed) \in Locations
        BY RelocatedFinds, LocationsAssumption DEF TypeOK
    <2> HIDE DEF next
    <2>4. activity' \in [Dwarves -> Activities] /\ alive' \in [Dwarves -> BOOLEAN]
            /\ feed' \in [posts : [Slots -> Posts], index : Slots]
        BY <2>1, <2>2, ConcludeType
    <2>5. sleep' \in [Dwarves -> Int] /\ hunger' \in [Dwarves -> Int]
        BY <1>3 DEF SleepTick, TypeOK, Recovery
    <2>6. location' \in [Dwarves -> Locations]
        <3>1. location' = [location EXCEPT ![d] = Relocated(d, HasBed)]
            BY <1>3 DEF SleepTick
        <3>2. QED
            BY <2>3, <3>1 DEF TypeOK
    <2>7. QED
        BY <2>4, <2>5, <2>6
<1>4. QED
    BY <1>1, <1>2, <1>3

LEMMA SlotAfterType ==
    ASSUME NEW d \in Dwarves
    PROVE  SlotAfter(d) \in Dwarves
BY DwarfCountAssumption DEF SlotAfter, Dwarves

\* world_tick keeps every field of the world to its type, feed index included.
THEOREM TypeCorrect == Spec => []TypeOK
<1>1. Init => TypeOK
    <2> SUFFICES ASSUME Init PROVE TypeOK
        OBVIOUS
    <2>1. hunger \in [Dwarves -> Int] /\ sleep \in [Dwarves -> Int]
        BY NeedsAssumption DEF Init
    <2>2. NewFeed \in [posts : [Slots -> Posts], index : Slots]
        BY PostSlotsAssumption DEF NewFeed, Posts, Slots
    <2>3. 1 \in Dwarves
        BY DwarfCountAssumption DEF Dwarves
    <2>4. QED
        BY <2>1, <2>2, <2>3, LocationsAssumption DEF Init, TypeOK, Activities
<1>2. TypeOK /\ [Next]_vars => TypeOK'
    <2> SUFFICES ASSUME TypeOK, [Next]_vars PROVE TypeOK'
        OBVIOUS
    <2>1. ASSUME NEW d \in Dwarves, TickDwarf(d) PROVE TypeOK'
        <3>1. PICK announce \in BOOLEAN, dies \in BOOLEAN :
                    \/ IdleTick(d, announce, dies)
                    \/ EatTick(d, announce, dies)
                    \/ SleepTick(d, announce, dies)
            BY <2>1 DEF TickDwarf
        <3>2. slot' \in Dwarves
            BY <2>1, SlotAfterType DEF TickDwarf
        <3>3. QED
            BY <3>1, <3>2, StepType DEF TypeOK
    <2>2. ASSUME NEW d \in Dwarves, PassOver(d) PROVE TypeOK'
        BY <2>2, SlotAfterType DEF PassOver, TypeOK
    <2>3. CASE UNCHANGED vars
        BY <2>3 DEF vars, TypeOK
    <2>4. QED
        BY <2>1, <2>2, <2>3 DEF Next
<1>3. QED
    BY <1>1, <1>2, PTL DEF Spec

-----------------------------------------------------------------------------
(* The needs stay bounded.                                                 *)

\* What is between half of a sum and the sum: all that `\div 2' means here.
LEMMA MostIdleBounds ==
    /\ MostIdle \in Nat
    /\ 2 * MostIdle <= 3 * NeedLimit + 8 - ContentBelow
    /\ 3 * NeedLimit + 7 - ContentBelow <= 2 * MostIdle
BY NeedsAssumption DEF MostIdle

\* One tick of a dwarf that eats or sleeps, there already or on its way.
LEMMA RecoveringStep ==
    ASSUME NEW need \in Int, NEW other \in Int, NEW there \in BOOLEAN,
           Recovering(need, other, there)
    PROVE  LET after == IF there THEN need + 1 - Recovery ELSE need + 1
           IN  IF after < ContentBelow
               THEN 0 <= after /\ 0 <= other + 1 /\ other + 1 <= MostIdle
               ELSE Recovering(after, other + 1, TRUE)
<1>1. CASE there = TRUE
    BY <1>1, NeedsAssumption, MostIdleBounds DEF Recovering, Recovery
<1>2. CASE there = FALSE
    BY <1>2, NeedsAssumption, MostIdleBounds DEF Recovering, Recovery
<1>3. QED
    BY <1>1, <1>2

\* One tick of an idle dwarf.
LEMMA IdleStep ==
    ASSUME NEW h \in Int, NEW s \in Int, 0 <= h, 0 <= s,
           \/ h <= NeedLimit /\ s <= NeedLimit
           \/ h < ContentBelow /\ s <= MostIdle
           \/ s < ContentBelow /\ h <= MostIdle
    PROVE  LET next == ChosenActivity(h + 1, s + 1)
           IN  /\ next = "Idle" => h + 1 <= NeedLimit /\ s + 1 <= NeedLimit
               /\ next = "Sleep" => Recovering(s + 1, h + 1, FALSE)
               /\ next = "Eat" => Recovering(h + 1, s + 1, FALSE)
               /\ next \in Activities
<1>1. CASE s + 1 > NeedLimit
    BY <1>1, NeedsAssumption, MostIdleBounds DEF ChosenActivity, Activities, Recovering
<1>2. CASE ~(s + 1 > NeedLimit) /\ h + 1 > NeedLimit
    BY <1>2, NeedsAssumption, MostIdleBounds DEF ChosenActivity, Activities, Recovering
<1>3. CASE ~(s + 1 > NeedLimit) /\ ~(h + 1 > NeedLimit)
    BY <1>3, NeedsAssumption DEF ChosenActivity, Activities
<1>4. QED
    BY <1>1, <1>2, <1>3

LEMMA TickKeepsNeeds ==
    ASSUME TypeOK, NEW d \in Dwarves, NEW announce \in BOOLEAN, NEW dies \in BOOLEAN,
           NeedsInvOf(d),
           \/ IdleTick(d, announce, dies)
           \/ EatTick(d, announce, dies)
           \/ SleepTick(d, announce, dies)
    PROVE  NeedsInvOf(d)'
<1> DEFINE h == hunger[d]
           s == sleep[d]
<1>0. h \in Int /\ s \in Int /\ location[d] \in Locations
    BY DEF TypeOK
<1>1. CASE IdleTick(d, announce, dies)
    <2>1. hunger'[d] = h + 1 /\ sleep'[d] = s + 1
        BY <1>1 DEF IdleTick, TypeOK
    <2>2. activity'[d] = ChosenActivity(h + 1, s + 1)
        BY <1>1, <2>1 DEF IdleTick, Conclude, TypeOK
    <2>3. 0 <= h /\ 0 <= s /\ \/ h <= NeedLimit /\ s <= NeedLimit
                              \/ h < ContentBelow /\ s <= MostIdle
                              \/ s < ContentBelow /\ h <= MostIdle
        BY <1>1 DEF IdleTick, NeedsInvOf
    <2> HIDE DEF h, s
    <2>4. CASE activity'[d] = "Idle"
        <3>1. h + 1 <= NeedLimit /\ s + 1 <= NeedLimit
            BY <1>0, <2>2, <2>3, <2>4, IdleStep
        <3>2. QED
            BY <1>0, <2>1, <2>3, <2>4, <3>1 DEF NeedsInvOf
    <2>5. CASE activity'[d] = "Sleep"
        <3>1. Recovering(s + 1, h + 1, FALSE)
            BY <1>0, <2>2, <2>3, <2>5, IdleStep
        <3>2. QED
            BY <1>0, <2>1, <2>5, <3>1, NeedsAssumption, MostIdleBounds DEF NeedsInvOf, Recovering
    <2>6. CASE activity'[d] = "Eat"
        <3>1. Recovering(h + 1, s + 1, FALSE)
            BY <1>0, <2>2, <2>3, <2>6, IdleStep
        <3>2. QED
            BY <1>0, <2>1, <2>6, <3>1, NeedsAssumption, MostIdleBounds DEF NeedsInvOf, Recovering
    <2>7. QED
        BY <2>2, <2>4, <2>5, <2>6 DEF ChosenActivity
<1>2. CASE EatTick(d, announce, dies)
    <2> DEFINE there == location[d] \in HasFood
               after == IF there THEN h + 1 - Recovery ELSE h + 1
    <2>1. hunger'[d] = after /\ sleep'[d] = s + 1
        BY <1>2 DEF EatTick, TypeOK
    <2>2. activity'[d] = IF after < ContentBelow THEN "Idle" ELSE "Eat"
        BY <1>2, <2>1 DEF EatTick, Conclude, TypeOK
    <2>3. location'[d] \in HasFood
        <3>1. Relocated(d, HasFood) \in HasFood
            BY RelocatedFinds, LocationsAssumption DEF TypeOK
        <3>2. QED
            BY <1>2, <3>1 DEF EatTick, TypeOK
    <2>4. Recovering(h, s, there)
        BY <1>2 DEF EatTick, NeedsInvOf
    <2>5. there \in BOOLEAN /\ after \in Int
        BY <1>0 DEF Recovery
    <2> HIDE DEF h, s, there
    <2>6. IF after < ContentBelow
          THEN 0 <= after /\ 0 <= s + 1 /\ s + 1 <= MostIdle
          ELSE Recovering(after, s + 1, TRUE)
        BY <1>0, <2>4, <2>5, RecoveringStep
    <2> HIDE DEF after
    <2>7. CASE after < ContentBelow
        BY <2>1, <2>2, <2>6, <2>7 DEF NeedsInvOf
    <2>8. CASE ~(after < ContentBelow)
        BY <2>1, <2>2, <2>3, <2>6, <2>8 DEF NeedsInvOf, Recovering
    <2>9. QED
        BY <2>7, <2>8
<1>3. CASE SleepTick(d, announce, dies)
    <2> DEFINE there == location[d] \in HasBed
               after == IF there THEN s + 1 - Recovery ELSE s + 1
    <2>1. sleep'[d] = after /\ hunger'[d] = h + 1
        BY <1>3 DEF SleepTick, TypeOK
    <2>2. activity'[d] = IF after < ContentBelow THEN "Idle" ELSE "Sleep"
        BY <1>3, <2>1 DEF SleepTick, Conclude, TypeOK
    <2>3. location'[d] \in HasBed
        <3>1. Relocated(d, HasBed) \in HasBed
            BY RelocatedFinds, LocationsAssumption DEF TypeOK
        <3>2. QED
            BY <1>3, <3>1 DEF SleepTick, TypeOK
    <2>4. Recovering(s, h, there)
        BY <1>3 DEF SleepTick, NeedsInvOf
    <2>5. there \in BOOLEAN /\ after \in Int
        BY <1>0 DEF Recovery
    <2> HIDE DEF h, s, there
    <2>6. IF after < ContentBelow
          THEN 0 <= after /\ 0 <= h + 1 /\ h + 1 <= MostIdle
          ELSE Recovering(after, h + 1, TRUE)
        BY <1>0, <2>4, <2>5, RecoveringStep
    <2> HIDE DEF after
    <2>7. CASE after < ContentBelow
        BY <2>1, <2>2, <2>6, <2>7 DEF NeedsInvOf
    <2>8. CASE ~(after < ContentBelow)
        BY <2>1, <2>2, <2>3, <2>6, <2>8 DEF NeedsInvOf, Recovering
    <2>9. QED
        BY <2>7, <2>8
<1>4. QED
    BY <1>1, <1>2, <1>3

\* A step of one dwarf leaves the needs, place and activity of the others alone.
LEMMA TickIsLocal ==
    ASSUME TypeOK, NEW d \in Dwarves, NEW e \in Dwarves, e # d, TickDwarf(d), NeedsInvOf(e)
    PROVE  NeedsInvOf(e)'
<1>1. PICK announce \in BOOLEAN, dies \in BOOLEAN :
            \/ IdleTick(d, announce, dies)
            \/ EatTick(d, announce, dies)
            \/ SleepTick(d, announce, dies)
    BY DEF TickDwarf
<1>2. hunger'[e] = hunger[e] /\ sleep'[e] = sleep[e]
    BY <1>1 DEF IdleTick, EatTick, SleepTick, TypeOK
<1>3. location'[e] = location[e]
    BY <1>1 DEF IdleTick, EatTick, SleepTick, TypeOK
<1>4. activity'[e] = activity[e]
    BY <1>1 DEF IdleTick, EatTick, SleepTick, Conclude, TypeOK
<1>5. QED
    BY <1>2, <1>3, <1>4 DEF NeedsInvOf

\* The inductive invariant behind NeedsBounded.
THEOREM NeedsInvariant == Spec => []NeedsInv
<1>1. Init => NeedsInv
    BY NeedsAssumption DEF Init, NeedsInv, NeedsInvOf
<1>2. TypeOK /\ NeedsInv /\ [Next]_vars => NeedsInv'
    <2> SUFFICES ASSUME TypeOK, NeedsInv, [Next]_vars, NEW e \in Dwarves
                 PROVE  NeedsInvOf(e)'
        BY DEF NeedsInv
    <2>1. ASSUME NEW d \in Dwarves, TickDwarf(d) PROVE NeedsInvOf(e)'
        <3>1. CASE e = d
            <4>1. PICK announce \in BOOLEAN, dies \in BOOLEAN :
                        \/ IdleTick(d, announce, dies)
                        \/ EatTick(d, announce, dies)
                        \/ SleepTick(d, announce, dies)
                BY <2>1 DEF TickDwarf
            <4>2. NeedsInvOf(d)'
                BY <4>1, TickKeepsNeeds DEF NeedsInv
            <4>3. QED
                BY <3>1, <4>2
        <3>2. CASE e # d
            BY <2>1, <3>2, TickIsLocal DEF NeedsInv
        <3>3. QED
            BY <3>1, <3>2
    <2>2. ASSUME NEW d \in Dwarves, PassOver(d) PROVE NeedsInvOf(e)'
        BY <2>2 DEF PassOver, NeedsInv, NeedsInvOf
    <2>3. CASE UNCHANGED vars
        BY <2>3 DEF vars, NeedsInv, NeedsInvOf
    <2>4. QED
        BY <2>1, <2>2, <2>3 DEF Next
<1>3. QED
    BY <1>1, <1>2, TypeCorrect, PTL DEF Spec

\* However hunger and sleep compete, neither exceeds half of
\* 3 * NeedLimit + 12 - ContentBelow: 78 in the program.
THEOREM NeedsAreBounded == Spec => []NeedsBounded
<1>1. TypeOK /\ NeedsInv => NeedsBounded
    <2> SUFFICES ASSUME TypeOK, NeedsInv, NEW d \in Dwarves
                 PROVE  /\ 0 <= hunger[d] /\ 2 * hunger[d] <= 3 * NeedLimit + 12 - ContentBelow
                        /\ 0 <= sleep[d] /\ 2 * sleep[d] <= 3 * NeedLimit + 12 - ContentBelow
        BY DEF NeedsBounded
    <2>1. NeedsInvOf(d) /\ hunger[d] \in Int /\ sleep[d] \in Int
        BY DEF NeedsInv, TypeOK
    <2>2. CASE activity[d] = "Idle"
        BY <2>1, <2>2, NeedsAssumption, MostIdleBounds DEF NeedsInvOf
    <2>3. ASSUME NEW need \in Int, NEW other \in Int, NEW there \in BOOLEAN,
                 Recovering(need, other, there)
          PROVE  /\ 0 <= need /\ 2 * need <= 3 * NeedLimit + 12 - ContentBelow
                 /\ 0 <= other /\ 2 * other <= 3 * NeedLimit + 12 - ContentBelow
        BY <2>3, NeedsAssumption, MostIdleBounds DEF Recovering
    <2>4. CASE activity[d] = "Eat"
        <3> DEFINE there == location[d] \in HasFood
        <3>1. Recovering(hunger[d], sleep[d], there) /\ there \in BOOLEAN
            BY <2>1, <2>4 DEF NeedsInvOf
        <3> HIDE DEF there
        <3>2. QED
            BY <2>1, <2>3, <3>1
    <2>5. CASE activity[d] = "Sleep"
        <3> DEFINE there == location[d] \in HasBed
        <3>1. Recovering(sleep[d], hunger[d], there) /\ there \in BOOLEAN
            BY <2>1, <2>5 DEF NeedsInvOf
        <3> HIDE DEF there
        <3>2. QED
            BY <2>1, <2>3, <3>1
    <2>6. QED
        BY <2>2, <2>4, <2>5 DEF TypeOK, Activities
<1>2. QED
    BY <1>1, TypeCorrect, NeedsInvariant, PTL

-----------------------------------------------------------------------------
(* The feed tells stories to their end.                                    *)

Feeds == [posts : [Slots -> Posts], index : Slots]

AgeIn(f, i) == (f.index - i) % PostSlots

\* DeathIsLastPost of the feed f, for any dwarves that live.
DeathsLast(f, living) ==
    \A i \in Slots :
        f.posts[i].by # 0 /\ f.posts[i].kind = "Death" =>
            /\ ~living[f.posts[i].by]
            /\ \A j \in Slots \ {i} : f.posts[j].by = f.posts[i].by => AgeIn(f, j) > AgeIn(f, i)

\* A post makes every other slot older by one and takes the place of the oldest.
LEMMA AgesAfterPost ==
    ASSUME NEW index \in Slots, NEW i \in Slots
    PROVE  /\ (index + 1) % PostSlots \in Slots
           /\ (((index + 1) % PostSlots) - i) % PostSlots
                = IF i = (index + 1) % PostSlots THEN 0 ELSE ((index - i) % PostSlots) + 1
           /\ (index - i) % PostSlots \in Slots
<1> DEFINE n == PostSlots
           next == (index + 1) % n
           age == (index - i) % n
           q == (index - i) \div n
<1>1. n \in Nat \ {0} /\ index \in 0 .. n - 1 /\ i \in 0 .. n - 1 /\ index - i \in Int
    BY PostSlotsAssumption DEF Slots
<1>2. next \in 0 .. n - 1
    BY <1>1, StaysWithin
<1>3. age \in 0 .. n - 1 /\ q \in Int /\ index - i = n * q + age
    BY <1>1, Remainder
<1>4. (next + (-i)) % n = ((index + 1) + (-i)) % n
    <2>1. index + 1 \in Int /\ -i \in Int
        BY <1>1
    <2>2. QED
        BY <1>1, <2>1, RemainderOfSum, Zenon
<1>5. (next - i) % n = (index - i + 1) % n
    <2>1. next + (-i) = next - i /\ (index + 1) + (-i) = index - i + 1
        BY <1>1, <1>2
    <2>2. QED
        BY <1>4, <2>1
<1>6. CASE i = next
    <2>1. next - i = n * 0 + 0
        BY <1>1, <1>2, <1>6
    <2>2. (n * 0 + 0) % n = 0
        BY <1>1, RemainderIsUnique
    <2>3. QED
        BY <1>2, <1>3, <1>6, <2>1, <2>2 DEF Slots
<1>7. CASE i # next
    <2>1. CASE age = n - 1
        <3>1. index + 1 = n * (q + 1) + i
            BY <1>1, <1>3, <2>1
        <3>2. q + 1 \in Int
            BY <1>3
        <3>3. (n * (q + 1) + i) % n = i
            BY <1>1, <3>2, RemainderIsUnique, Zenon
        <3>4. QED
            BY <1>7, <3>1, <3>3
    <2>2. CASE age # n - 1
        <3>1. index - i + 1 = n * q + (age + 1) /\ age + 1 \in 0 .. n - 1
            BY <1>1, <1>3, <2>2
        <3>2. (n * q + (age + 1)) % n = age + 1
            BY <1>1, <1>3, <3>1, RemainderIsUnique, Zenon
        <3>3. (next - i) % n = age + 1
            BY <1>5, <3>1, <3>2
        <3>4. QED
            BY <1>2, <1>3, <1>7, <3>3 DEF Slots
    <2>3. QED
        BY <2>1, <2>2
<1>8. QED
    BY <1>6, <1>7

\* A living dwarf posts, and is dead from then on if it posts its death.
LEMMA PostKeepsDeathsLast ==
    ASSUME NEW f \in Feeds, NEW living \in [Dwarves -> BOOLEAN], DeathsLast(f, living),
           NEW d \in Dwarves, living[d], NEW k \in PostKinds
    PROVE  DeathsLast(WorldPost(f, d, k), [living EXCEPT ![d] = (k # "Death")])
<1> DEFINE next == (f.index + 1) % PostSlots
           g == WorldPost(f, d, k)
           left == [living EXCEPT ![d] = (k # "Death")]
<1>1. f.index \in Slots /\ f.posts \in [Slots -> Posts] /\ d # 0
    BY DwarfCountAssumption DEF Feeds, Dwarves
<1>2. next \in Slots
    BY <1>1, AgesAfterPost
<1>3. /\ g.index = next
      /\ g.posts[next].by = d /\ g.posts[next].kind = k
      /\ \A i \in Slots \ {next} : g.posts[i] = f.posts[i]
    BY <1>1, <1>2 DEF WorldPost
<1>4. \A i \in Slots : AgeIn(g, i) = (next - i) % PostSlots
    BY <1>3 DEF AgeIn
<1>5. /\ \A i \in Slots : AgeIn(f, i) \in Nat
      /\ AgeIn(g, next) = 0
      /\ \A i \in Slots \ {next} : AgeIn(g, i) = AgeIn(f, i) + 1
    <2>1. ASSUME NEW i \in Slots
          PROVE  AgeIn(f, i) \in Nat /\ AgeIn(g, i) = IF i = next THEN 0 ELSE AgeIn(f, i) + 1
        <3>1. /\ (next - i) % PostSlots = IF i = next THEN 0 ELSE ((f.index - i) % PostSlots) + 1
              /\ (f.index - i) % PostSlots \in Slots
            BY <1>1, AgesAfterPost
        <3>2. Slots \subseteq Nat
            BY DEF Slots
        <3>3. QED
            BY <1>4, <3>1, <3>2 DEF AgeIn
    <2>2. QED
        BY <1>2, <2>1
<1> HIDE DEF next, g
<1>6. \A e \in Dwarves : left[e] = IF e = d THEN k # "Death" ELSE living[e]
    OBVIOUS
<1> HIDE DEF left
<1>7. ASSUME NEW i \in Slots, g.posts[i].by # 0, g.posts[i].kind = "Death"
      PROVE  /\ ~left[g.posts[i].by]
             /\ \A j \in Slots \ {i} : g.posts[j].by = g.posts[i].by => AgeIn(g, j) > AgeIn(g, i)
    <2>1. CASE i = next
        <3>1. g.posts[i].by = d /\ k = "Death" /\ AgeIn(g, i) = 0
            BY <1>3, <1>5, <1>7, <2>1
        <3>2. ~left[d]
            BY <1>6, <3>1
        <3>3. ASSUME NEW j \in Slots \ {i} PROVE AgeIn(g, j) > 0
            BY <1>5, <2>1
        <3>4. QED
            BY <3>1, <3>2, <3>3
    <2>2. CASE i # next
        <3>1. g.posts[i] = f.posts[i] /\ AgeIn(g, i) = AgeIn(f, i) + 1 /\ AgeIn(f, i) \in Nat
            BY <1>3, <1>5, <2>2
        <3>2. /\ ~living[f.posts[i].by]
              /\ \A j \in Slots \ {i} : f.posts[j].by = f.posts[i].by => AgeIn(f, j) > AgeIn(f, i)
            BY <1>7, <3>1 DEF DeathsLast
        <3>3. f.posts[i].by # d /\ f.posts[i].by \in Dwarves
            BY <1>1, <1>7, <3>1, <3>2 DEF Posts
        <3>4. ~left[g.posts[i].by]
            BY <1>6, <3>1, <3>2, <3>3
        <3>5. ASSUME NEW j \in Slots \ {i}, g.posts[j].by = g.posts[i].by PROVE AgeIn(g, j) > AgeIn(g, i)
            <4>1. j # next
                BY <1>3, <3>1, <3>3, <3>5
            <4>2. AgeIn(g, j) = AgeIn(f, j) + 1 /\ AgeIn(f, j) \in Nat /\ g.posts[j] = f.posts[j]
                BY <1>3, <1>5, <4>1
            <4>3. AgeIn(f, j) > AgeIn(f, i)
                BY <3>1, <3>2, <3>5, <4>2
            <4>4. QED
                BY <3>1, <4>2, <4>3
        <3>6. QED
            BY <3>4, <3>5
    <2>3. QED
        BY <2>1, <2>2
<1>8. QED
    BY <1>7 DEF DeathsLast, g, left

LEMMA ConcludeKeepsDeathsLast ==
    ASSUME TypeOK, DeathsLast(feed, alive), NEW d \in Dwarves, alive[d], NEW next \in Activities,
           NEW announce \in BOOLEAN, NEW dies \in BOOLEAN, Conclude(d, next, announce, dies)
    PROVE  DeathsLast(feed', alive')
<1> DEFINE told == IF next = activity[d] THEN feed ELSE Announced(feed, d, next, announce)
<1>1. feed \in Feeds /\ alive \in [Dwarves -> BOOLEAN]
    BY DEF TypeOK, Feeds
<1>2. /\ feed' = IF dies THEN WorldPost(told, d, "Death") ELSE told
      /\ alive' = [alive EXCEPT ![d] = ~dies]
    BY DEF Conclude
<1>3. told \in Feeds /\ DeathsLast(told, alive)
    <2>1. CASE told = feed
        BY <1>1, <2>1
    <2>2. CASE told = WorldPost(feed, d, next) /\ next # "Idle"
        <3>1. next \in PostKinds /\ next # "Death"
            BY <2>2 DEF Activities, PostKinds
        <3>2. WorldPost(feed, d, next) \in Feeds
            BY <1>1, <3>1, WorldPostType DEF Feeds
        <3>3. DeathsLast(WorldPost(feed, d, next), [alive EXCEPT ![d] = (next # "Death")])
            <4>1. next \in PostKinds
                BY <3>1
            <4>2. QED
                BY <1>1, <4>1, PostKeepsDeathsLast, Zenon
        <3>4. [alive EXCEPT ![d] = (next # "Death")] = alive
            BY <1>1, <3>1
        <3>5. QED
            BY <2>2, <3>2, <3>3, <3>4
    <2>3. QED
        BY <2>1, <2>2 DEF Announced
<1> HIDE DEF told
<1>4. CASE dies
    <2>1. "Death" \in PostKinds
        BY DEF PostKinds
    <2>2. DeathsLast(WorldPost(told, d, "Death"), [alive EXCEPT ![d] = ("Death" # "Death")])
        BY <1>1, <1>3, <2>1, PostKeepsDeathsLast
    <2>3. QED
        BY <1>2, <1>4, <2>2
<1>5. CASE ~dies
    <2>1. [alive EXCEPT ![d] = ~dies] = alive
        BY <1>1, <1>5
    <2>2. QED
        BY <1>2, <1>3, <1>5, <2>1
<1>6. QED
    BY <1>4, <1>5

\* The feed never shows a death of a dwarf that lives, nor a post that a dwarf
\* wrote after its death, however often the ring wraps around.
THEOREM DeathsAreLast == Spec => []DeathIsLastPost
<1>1. DeathIsLastPost <=> DeathsLast(feed, alive)
    BY DEF DeathIsLastPost, DeathsLast, Age, AgeIn
<1>2. Init => DeathsLast(feed, alive)
    BY DEF Init, NewFeed, DeathsLast
<1>3. TypeOK /\ DeathsLast(feed, alive) /\ [Next]_vars => DeathsLast(feed', alive')
    <2> SUFFICES ASSUME TypeOK, DeathsLast(feed, alive), [Next]_vars PROVE DeathsLast(feed', alive')
        OBVIOUS
    <2>1. ASSUME NEW d \in Dwarves, TickDwarf(d) PROVE DeathsLast(feed', alive')
        <3>1. alive[d]
            BY <2>1 DEF TickDwarf, Ticks
        <3>2. PICK announce \in BOOLEAN, dies \in BOOLEAN :
                    \/ IdleTick(d, announce, dies)
                    \/ EatTick(d, announce, dies)
                    \/ SleepTick(d, announce, dies)
            BY <2>1 DEF TickDwarf
        <3>3. PICK next \in Activities : Conclude(d, next, announce, dies)
            <4>1. ChosenActivity(hunger'[d], sleep'[d]) \in Activities
                BY DEF ChosenActivity, Activities
            <4>2. \A yes \in BOOLEAN : (IF yes THEN "Idle" ELSE "Eat") \in Activities
                BY DEF Activities
            <4>3. \A yes \in BOOLEAN : (IF yes THEN "Idle" ELSE "Sleep") \in Activities
                BY DEF Activities
            <4>4. QED
                BY <3>2, <4>1, <4>2, <4>3 DEF IdleTick, EatTick, SleepTick
        <3>4. QED
            BY <3>1, <3>3, ConcludeKeepsDeathsLast
    <2>2. ASSUME NEW d \in Dwarves, PassOver(d) PROVE DeathsLast(feed', alive')
        BY <2>2 DEF PassOver
    <2>3. CASE UNCHANGED vars
        BY <2>3 DEF vars
    <2>4. QED
        BY <2>1, <2>2, <2>3 DEF Next
<1>4. DeathsLast(feed, alive)' <=> DeathsLast(feed', alive')
    BY DEF DeathsLast, AgeIn
<1>5. QED
    BY <1>1, <1>2, <1>3, <1>4, TypeCorrect, PTL DEF Spec
=============================================================================
