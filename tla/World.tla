------------------------------- MODULE World -------------------------------
(***************************************************************************)
(* The dwarf simulation of src/dorf.cpp: world_tick() walks the dwarves,   *)
(* lets each one get hungrier and sleepier, act on its needs, perhaps      *)
(* announce what it does in the ring of posts, and perhaps die.            *)
(*                                                                         *)
(* One action is one iteration of world_tick's loop; `slot' is the loop    *)
(* variable.  Every caller holds World_Instance.lock for the whole tick    *)
(* (see Server.tla), so nobody else reads the world between iterations.    *)
(* The xorshift series is abstracted to a free choice wherever the code    *)
(* asks it for a chance; names, seeds and pages are left out.              *)
(***************************************************************************)
EXTENDS Integers, FiniteSets

CONSTANTS
    DwarfCount,     \* dwarves made by main(), one per slot 1..DwarfCount
    Locations,      \* ids of the named locations
    HasFood,        \* the locations with has_food
    HasBed,         \* the locations with has_bed
    Start,          \* where main() puts every dwarf
    InitialNeeds,   \* a new dwarf's needs are below this  (50)
    NeedLimit,      \* above this an idle dwarf acts       (50)
    ContentBelow,   \* below this it goes back to idling   (5)
    PostSlots       \* Count(world->posts)                 (128)

ASSUME DwarfCountAssumption == DwarfCount \in Nat \ {0}
ASSUME LocationsAssumption ==
    /\ Locations \subseteq Nat \ {0}
    /\ HasFood \subseteq Locations
    /\ HasBed \subseteq Locations
    /\ HasFood # {}
    /\ HasBed # {}
    /\ Start \in Locations
ASSUME NeedsAssumption ==
    /\ InitialNeeds \in Nat \ {0}
    /\ NeedLimit \in Nat
    /\ ContentBelow \in Nat
    /\ 2 <= ContentBelow
    /\ ContentBelow + 2 <= NeedLimit
    /\ InitialNeeds <= NeedLimit + 1
ASSUME PostSlotsAssumption == PostSlots \in Nat \ {0}

VARIABLES
    hunger, sleep, activity, location, alive,   \* the fields of each Dwarf
    feed,       \* World.posts with World.post_index
    slot        \* the dwarf world_tick's loop looks at next

vars == <<hunger, sleep, activity, location, alive, feed, slot>>

Dwarves == 1 .. DwarfCount
Activities == {"Idle", "Eat", "Sleep"}

\* One meal or one hour in bed takes three off the need it is for.
Recovery == 3

-----------------------------------------------------------------------------
(* The ring of posts.  A post's type and its data are one value: an        *)
(* activity, or "Death".  The zeroed slots of a new world have by_id 0.    *)

Slots == 0 .. PostSlots - 1
PostKinds == {"Eat", "Sleep", "Death"}
Posts == [by : Dwarves, kind : PostKinds] \cup {[by |-> 0, kind |-> "Death"]}

NewFeed == [posts |-> [i \in Slots |-> [by |-> 0, kind |-> "Death"]], index |-> 0]

\* Fault: the index is advanced after the post is written, past the ring's end.
WorldPostNoWrap(f, d, k) ==
    [posts |-> [f.posts EXCEPT ![f.index % PostSlots] = [by |-> d, kind |-> k]],
     index |-> f.index + 1]

WorldPost(f, d, k) ==
    LET next == (f.index + 1) % PostSlots
    IN  [posts |-> [f.posts EXCEPT ![next] = [by |-> d, kind |-> k]],
         index |-> next]

-----------------------------------------------------------------------------
(* What a dwarf does.                                                      *)

\* Fault: a dwarf that wants food or a bed stays where it is.
StayPut(d, wanted) == location[d]

\* The lowest-numbered location that has what the dwarf wants.
Relocated(d, wanted) ==
    IF location[d] \in wanted
    THEN location[d]
    ELSE CHOOSE l \in wanted : \A m \in wanted : l <= m

\* An idle dwarf looks at its bed before its plate.
ChosenActivity(h, s) ==
    IF s > NeedLimit THEN "Sleep" ELSE IF h > NeedLimit THEN "Eat" ELSE "Idle"

\* Going back to idling is never announced, anything else may be.
Announced(f, d, begun, announce) ==
    IF begun # "Idle" /\ announce THEN WorldPost(f, d, begun) ELSE f

\* The end of the iteration: dwarf_do_activity() if the activity changed,
\* then the dwarf's chance to die, which is posted after the activity.
Conclude(d, next, announce, dies) ==
    LET told == IF next = activity[d] THEN feed ELSE Announced(feed, d, next, announce)
    IN  /\ activity' = [activity EXCEPT ![d] = next]
        /\ feed' = IF dies THEN WorldPost(told, d, "Death") ELSE told
        /\ alive' = [alive EXCEPT ![d] = ~dies]

IdleTick(d, announce, dies) ==
    /\ activity[d] = "Idle"
    /\ hunger' = [hunger EXCEPT ![d] = @ + 1]
    /\ sleep' = [sleep EXCEPT ![d] = @ + 1]
    /\ Conclude(d, ChosenActivity(hunger'[d], sleep'[d]), announce, dies)
    /\ UNCHANGED location

EatTick(d, announce, dies) ==
    /\ activity[d] = "Eat"
    /\ hunger' = [hunger EXCEPT ![d] = IF location[d] \in HasFood THEN @ + 1 - Recovery ELSE @ + 1]
    /\ sleep' = [sleep EXCEPT ![d] = @ + 1]
    /\ location' = [location EXCEPT ![d] = Relocated(d, HasFood)]
    /\ Conclude(d, IF hunger'[d] < ContentBelow THEN "Idle" ELSE "Eat", announce, dies)

SleepTick(d, announce, dies) ==
    /\ activity[d] = "Sleep"
    /\ sleep' = [sleep EXCEPT ![d] = IF location[d] \in HasBed THEN @ + 1 - Recovery ELSE @ + 1]
    /\ hunger' = [hunger EXCEPT ![d] = @ + 1]
    /\ location' = [location EXCEPT ![d] = Relocated(d, HasBed)]
    /\ Conclude(d, IF sleep'[d] < ContentBelow THEN "Idle" ELSE "Sleep", announce, dies)

-----------------------------------------------------------------------------
(* world_tick                                                              *)

\* Fault: the dead go on acting.
TicksEvenDead(d) == TRUE

Ticks(d) == alive[d]

\* Fault: a dead dwarf ends the loop instead of being passed over.
SlotAfterBreak(d) == IF d = DwarfCount \/ ~alive[d] THEN 1 ELSE d + 1

SlotAfter(d) == IF d = DwarfCount THEN 1 ELSE d + 1

TickDwarf(d) ==
    /\ slot = d
    /\ Ticks(d)
    /\ \E announce, dies \in BOOLEAN :
        \/ IdleTick(d, announce, dies)
        \/ EatTick(d, announce, dies)
        \/ SleepTick(d, announce, dies)
    /\ slot' = SlotAfter(d)

PassOver(d) ==
    /\ slot = d
    /\ ~Ticks(d)
    /\ slot' = SlotAfter(d)
    /\ UNCHANGED <<hunger, sleep, activity, location, alive, feed>>

Init ==
    /\ hunger \in [Dwarves -> 0 .. InitialNeeds - 1]
    /\ sleep \in [Dwarves -> 0 .. InitialNeeds - 1]
    /\ activity = [d \in Dwarves |-> "Idle"]
    /\ location = [d \in Dwarves |-> Start]
    /\ alive = [d \in Dwarves |-> TRUE]
    /\ feed = NewFeed
    /\ slot = 1

Next == \E d \in Dwarves : TickDwarf(d) \/ PassOver(d)

Spec == Init /\ [][Next]_vars

\* thread_background_world_update never stops calling world_tick.
FairSpec == Spec /\ WF_vars(Next)

-----------------------------------------------------------------------------
(* Properties                                                              *)

\* Every variable keeps to the values its C++ type and its use allow.
TypeOK ==
    /\ hunger \in [Dwarves -> Int]
    /\ sleep \in [Dwarves -> Int]
    /\ activity \in [Dwarves -> Activities]
    /\ location \in [Dwarves -> Locations]
    /\ alive \in [Dwarves -> BOOLEAN]
    /\ feed \in [posts : [Slots -> Posts], index : Slots]
    /\ slot \in Dwarves

\* No dwarf starves or is kept awake for ever, however the two needs compete:
\* with the constants of the program neither need ever leaves 0..78.
NeedsBounded ==
    \A d \in Dwarves :
        /\ 0 <= hunger[d] /\ 2 * hunger[d] <= 3 * NeedLimit + 12 - ContentBelow
        /\ 0 <= sleep[d] /\ 2 * sleep[d] <= 3 * NeedLimit + 12 - ContentBelow

\* How far the other need can have risen when a dwarf has recovered from one.
MostIdle == (3 * NeedLimit + 8 - ContentBelow) \div 2

\* While a dwarf recovers two steps of the need being met pay for one of the
\* other, so twice the other plus this one can only grow on the way there.
Recovering(need, other, there) ==
    LET slack == IF there THEN 3 ELSE 0
    IN  /\ ContentBelow <= need /\ 0 <= other
        /\ \/ 2 * other + need <= 3 * NeedLimit + 3 + slack
           \/ 2 * other + need <= 2 * ContentBelow + MostIdle + 1 + slack
        /\ need <= MostIdle + IF there THEN 2 ELSE 1

\* Why NeedsBounded holds: an idle dwarf has at most one need above NeedLimit,
\* and then the other one is below ContentBelow.
NeedsInvOf(d) ==
    LET h == hunger[d]
        s == sleep[d]
    IN  /\ activity[d] = "Idle" =>
            /\ 0 <= h /\ 0 <= s
            /\ \/ h <= NeedLimit /\ s <= NeedLimit
               \/ h < ContentBelow /\ s <= MostIdle
               \/ s < ContentBelow /\ h <= MostIdle
        /\ activity[d] = "Eat" => Recovering(h, s, location[d] \in HasFood)
        /\ activity[d] = "Sleep" => Recovering(s, h, location[d] \in HasBed)

NeedsInv == \A d \in Dwarves : NeedsInvOf(d)

\* How many posts ago slot i was written, as long as it is in use.
Age(i) == (feed.index - i) % PostSlots

\* The feed tells a dwarf's story in order and to the end: a death post is
\* only there for a dwarf that is dead, and no post of that dwarf is newer.
DeathIsLastPost ==
    \A i \in Slots :
        LET post == feed.posts[i]
        IN  (post.by # 0 /\ post.kind = "Death") =>
                /\ ~alive[post.by]
                /\ \A j \in Slots \ {i} : feed.posts[j].by = post.by => Age(j) > Age(i)

\* A hungry dwarf gets its meal and a tired one its rest, unless it dies
\* first: neither need can crowd the other out for ever.
NeedsAreMet ==
    \A d \in Dwarves :
        /\ (alive[d] /\ hunger[d] > NeedLimit) ~> (~alive[d] \/ hunger[d] < ContentBelow)
        /\ (alive[d] /\ sleep[d] > NeedLimit) ~> (~alive[d] \/ sleep[d] < ContentBelow)
=============================================================================
