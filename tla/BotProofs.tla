----------------------------- MODULE BotProofs ------------------------------
(***************************************************************************)
(* Proofs about a bot: its behaviour tree, in any mode, and the owners of  *)
(* its pose, for any number of relocations.                                *)
(***************************************************************************)
EXTENDS BotMovement, BotTree, SequenceTheorems, TLAPS

-----------------------------------------------------------------------------
(* The behaviour tree. *)

\* The sequence of a death comes first and is running as long as the spirit is released.
\* Where the tick stands says whether it has got past that sequence.
DeathComesFirst ==
  /\ "handle_death" \in memory <=> released
  /\ child = 1 => ~acted /\ (helpless => released \/ zero)
  /\ child > 1 => ~helpless
  /\ helpless => ~acted

TreeInv == TreeTypeOK /\ DeathComesFirst

LEMMA ChildrenTypes ==
  ASSUME mode \in Modes
  PROVE  /\ Len(Children) \in Nat \ {0} /\ DOMAIN Children = 1 .. Len(Children)
         /\ Children[1] = "handle_death"
<1> DEFINE first == <<"handle_death", "loot_nearby", "fight_target">>
           second == CASE mode = "grind"   -> GrindChildren
                       [] mode = "hogger"  -> HoggerChildren
                       [] mode = "dungeon" -> DungeonChildren
                       [] mode = "idle"    -> <<"idle">>
           Names == {"handle_death", "loot_nearby", "fight_target", "find_and_fight", "wander",
                     "hogger_done_check", "find_hogger", "fight_attackers",
                     "move_to_hogger_area", "dungeon_in_combat", "find_dungeon_mob",
                     "explore_dungeon", "idle"}
<1>1. first \in Seq(Names) /\ Len(first) = 3 /\ first[1] = "handle_death"
  OBVIOUS
<1>2. second \in Seq(Names)
  <2>1. /\ GrindChildren \in Seq(Names) /\ HoggerChildren \in Seq(Names)
        /\ DungeonChildren \in Seq(Names) /\ <<"idle">> \in Seq(Names)
    BY DEF GrindChildren, HoggerChildren, DungeonChildren
  <2>2. mode \in {"grind", "hogger", "dungeon", "idle"}
    BY ModesAssumption
  <2> HIDE DEF Names
  <2> QED
    BY <2>1, <2>2
<1> HIDE DEF first, second, Names
<1>3. /\ first \o second \in Seq(Names) /\ Len(first \o second) = Len(first) + Len(second)
      /\ \A i \in 1 .. Len(first) + Len(second) :
           (first \o second)[i] = IF i <= Len(first) THEN first[i] ELSE second[i - Len(first)]
  BY <1>1, <1>2, ConcatProperties
<1>4. (first \o second)[1] = first[1] /\ Len(second) \in Nat
  BY <1>1, <1>2, <1>3
<1>5. Children = first \o second
  BY DEF Children, first, second
<1> QED
  BY <1>1, <1>3, <1>4, <1>5

LEMMA TreeInitially == TreeInit => TreeInv
<1> SUFFICES ASSUME TreeInit PROVE TreeInv
  OBVIOUS
<1>1. Len(Children) \in Nat \ {0}
  BY ChildrenTypes DEF TreeInit
<1>2. TreeTypeOK
  <2>1. /\ mode \in Modes /\ life = "alive" /\ corpse = 0 /\ unclaimed = FALSE /\ requests = <<>>
        /\ zero = FALSE /\ inCombat = FALSE /\ target = FALSE /\ walking = FALSE
        /\ hogger = "none" /\ hoggerKilled = FALSE /\ released = FALSE /\ elapsed = 0
        /\ memory = {} /\ child = 0 /\ acted = FALSE /\ helpless = FALSE
    BY DEF TreeInit
  <2>2. corpse \in 0 .. Delay /\ elapsed \in 0 .. Wait /\ child \in 0 .. Len(Children)
    BY <1>1, <2>1, WaitAssumption
  <2>3. requests \in Seq([kind : {"repop", "reclaim"}, age : 0 .. Lag])
    BY <2>1
  <2> QED
    BY <2>1, <2>2, <2>3 DEF TreeTypeOK
<1>3. DeathComesFirst
  BY DEF TreeInit, DeathComesFirst
<1> QED
  BY <1>2, <1>3 DEF TreeInv

\* The world around the bot.
LEMMA AroundKeeps ==
  ASSUME TreeInv, Surroundings \/ AnswerRequest \/ Second \/ ReportHealth
  PROVE  TreeInv'
<1>1. UNCHANGED <<mode, released, memory, child, acted>>
  BY DEF Surroundings, Die, Resurrect, PredictDeath, CombatEvent, HoggerChanges, AnswerRequest,
         Second, ReportHealth, deathVars, tickVars
<1>2. \/ UNCHANGED <<zero, helpless>>
      \/ zero' = TRUE /\ UNCHANGED helpless
      \/ zero' = ~zero /\ helpless' = (helpless /\ (released \/ zero'))
  BY DEF Surroundings, Die, Resurrect, PredictDeath, CombatEvent, HoggerChanges, AnswerRequest,
         Second, ReportHealth
<1>3. DeathComesFirst'
  BY <1>1, <1>2 DEF TreeInv, TreeTypeOK, DeathComesFirst
<1>4. zero' \in BOOLEAN /\ helpless' \in BOOLEAN
  BY <1>2 DEF TreeInv, TreeTypeOK
<1>5. /\ inCombat' \in BOOLEAN /\ target' \in BOOLEAN /\ walking' \in BOOLEAN
      /\ hogger' \in {"none", "alive", "corpse"} /\ UNCHANGED hoggerKilled
  BY DEF Surroundings, Die, Resurrect, PredictDeath, CombatEvent, HoggerChanges, AnswerRequest,
         Second, ReportHealth, fightVars, hoggerVars, TreeInv, TreeTypeOK
<1>6. /\ life' \in {"alive", "dead", "ghost"} /\ corpse' \in 0 .. Delay /\ unclaimed' \in BOOLEAN
      /\ elapsed' \in 0 .. Wait
  <2>1. /\ life \in {"alive", "dead", "ghost"} /\ corpse \in 0 .. Delay /\ unclaimed \in BOOLEAN
        /\ elapsed \in 0 .. Wait
    BY DEF TreeInv, TreeTypeOK
  <2>2. /\ life' \in {life, "alive", "dead", "ghost"} /\ unclaimed' \in {unclaimed, TRUE, FALSE}
        /\ corpse' \in {corpse, 0} \/ (corpse < Delay /\ corpse' = corpse + 1)
        /\ elapsed' = elapsed \/ (elapsed < Wait /\ elapsed' = elapsed + 1)
    BY DEF Surroundings, Die, Resurrect, PredictDeath, CombatEvent, HoggerChanges, AnswerRequest,
           Second, ReportHealth, serverLifeVars, deathVars
  <2>3. corpse' \in 0 .. Delay /\ elapsed' \in 0 .. Wait
    BY <2>1, <2>2, WaitAssumption
  <2>4. life' \in {"alive", "dead", "ghost"} /\ unclaimed' \in BOOLEAN
    BY <2>1, <2>2
  <2> QED
    BY <2>3, <2>4
<1>7. requests' \in Seq([kind : {"repop", "reclaim"}, age : 0 .. Lag])
  <2> DEFINE Requests == [kind : {"repop", "reclaim"}, age : 0 .. Lag]
  <2>1. requests \in Seq(Requests)
    BY DEF TreeInv, TreeTypeOK
  <2>2. CASE UNCHANGED requests
    BY <2>1, <2>2
  <2>3. CASE requests # <<>> /\ requests' = Tail(requests)
    BY <2>1, <2>3
  <2>4. CASE Second
    <3>0. \A i \in DOMAIN requests : requests[i] \in Requests
      <4> HIDE DEF Requests
      <4> QED
        BY <2>1
    <3>1. /\ \A i \in DOMAIN requests : requests[i].age < Lag /\ requests[i] \in Requests
          /\ requests' = [i \in DOMAIN requests |-> [requests[i] EXCEPT !.age = @ + 1]]
      BY <2>4, <3>0, Zenon DEF Second
    <3>2. \A i \in DOMAIN requests : [requests[i] EXCEPT !.age = @ + 1] \in Requests
      BY <3>1, WaitAssumption
    <3> HIDE DEF Requests
    <3>3. DOMAIN requests = 1 .. Len(requests) /\ Len(requests) \in Nat
      BY <2>1
    <3>4. requests' \in [1 .. Len(requests) -> Requests]
      BY <3>1, <3>2, <3>3
    <3> QED
      <4>1. requests' \in Seq(Requests)
        BY <3>3, <3>4, SeqDef
      <4> QED
        BY <4>1 DEF Requests
  <2> QED
    BY <2>2, <2>3, <2>4
       DEF Surroundings, Die, Resurrect, PredictDeath, CombatEvent, HoggerChanges, AnswerRequest,
           ReportHealth
<1>8. child' \in 0 .. Len(Children')
  BY <1>1 DEF TreeInv, TreeTypeOK, Children
<1>9. memory' \subseteq {Children[c] : c \in DOMAIN Children}'
  BY <1>1 DEF TreeInv, TreeTypeOK, Children
<1> QED
  BY <1>9, <1>1, <1>3, <1>4, <1>5, <1>6, <1>7, <1>8 DEF TreeInv, TreeTypeOK

\* A tick begins at the sequence of the death.
LEMMA BeginKeeps == ASSUME TreeInv, BeginTick PROVE TreeInv'
<1>1. /\ child' = 1 /\ acted' = FALSE /\ helpless' = (released \/ zero)
      /\ inCombat' \in {inCombat, FALSE} /\ target' \in {target, FALSE}
      /\ walking' \in {walking, TRUE, FALSE}
      /\ UNCHANGED <<mode, life, corpse, unclaimed, requests, zero, hogger, hoggerKilled,
                     released, elapsed, memory>>
  BY DEF BeginTick, TickAt, Pursue, serverLifeVars, fightVars, hoggerVars, deathVars
<1>2. DeathComesFirst' /\ helpless' \in BOOLEAN
  <2>1. released \in BOOLEAN /\ zero \in BOOLEAN /\ ("handle_death" \in memory <=> released)
    BY DEF TreeInv, TreeTypeOK, DeathComesFirst
  <2>2. helpless' \in BOOLEAN /\ (helpless' <=> released' \/ zero')
    BY <1>1, <2>1
  <2> QED
    BY <1>1, <2>1, <2>2 DEF DeathComesFirst
<1>3. Children' = Children /\ Len(Children) \in Nat \ {0}
  BY <1>1, ChildrenTypes DEF Children, TreeInv, TreeTypeOK
<1>4. child' \in 0 .. Len(Children')
  BY <1>1, <1>3
<1>5. memory' \subseteq {Children[c] : c \in DOMAIN Children}'
  BY <1>1, <1>3 DEF TreeInv, TreeTypeOK
<1>6. inCombat' \in BOOLEAN /\ target' \in BOOLEAN /\ walking' \in BOOLEAN
  BY <1>1 DEF TreeInv, TreeTypeOK
<1>7. TreeTypeOK'
  BY <1>1, <1>2, <1>4, <1>5, <1>6 DEF TreeInv, TreeTypeOK
<1> QED
  BY <1>2, <1>7 DEF TreeInv

\* What the tick of a child other than the death's does.
LEMMA ChildKeeps ==
  ASSUME TreeInv, NEW n, n # "handle_death", NEW status, Ticking(n), Finish(n, status),
         acted' \in BOOLEAN, UNCHANGED <<requests, deathVars>>,
         inCombat' \in BOOLEAN, target' \in BOOLEAN, walking' \in BOOLEAN,
         hoggerKilled' \in BOOLEAN
  PROVE  TreeInv'
<1>1. /\ child \in 1 .. Len(Children) /\ Children[child] = n
      /\ UNCHANGED <<mode, life, corpse, unclaimed, requests, zero, hogger, released, elapsed, helpless>>
  BY DEF TreeInv, TreeTypeOK, Ticking, serverLifeVars, deathVars
<1>2. /\ Children' = Children /\ Len(Children) \in Nat \ {0}
      /\ DOMAIN Children = 1 .. Len(Children) /\ Children[1] = "handle_death"
  BY <1>1, ChildrenTypes DEF Children, TreeInv, TreeTypeOK
<1>3. child > 1 /\ ~helpless
  BY <1>1, <1>2 DEF TreeInv, DeathComesFirst
<1>4. child' # 1 /\ child' \in 0 .. Len(Children')
  BY <1>1, <1>2 DEF Finish, GoOn
<1>5. memory' \subseteq memory \cup {n} /\ ("handle_death" \in memory' <=> "handle_death" \in memory)
  BY DEF Finish
<1>6. DeathComesFirst'
  BY <1>1, <1>3, <1>4, <1>5 DEF TreeInv, DeathComesFirst
<1>7. memory' \subseteq {Children[c] : c \in DOMAIN Children}'
  BY <1>1, <1>2, <1>5 DEF TreeInv, TreeTypeOK
<1> QED
  BY <1>1, <1>4, <1>6, <1>7 DEF TreeInv, TreeTypeOK

\* The tick of the death's sequence: it declines only the living.
LEMMA DeathKeeps ==
  ASSUME TreeInv, NotDead \/ ReleaseSpirit \/ WaitAtCorpse \/ ReclaimCorpse
  PROVE  TreeInv'
<1>1. /\ child \in 1 .. Len(Children) /\ Children[child] = "handle_death"
      /\ UNCHANGED <<mode, life, corpse, unclaimed, zero, hogger, hoggerKilled, helpless, acted, target>>
  BY DEF TreeInv, TreeTypeOK, NotDead, ReleaseSpirit, WaitAtCorpse, ReclaimCorpse, Decline, Act,
         Ticking, serverLifeVars, fightVars
<1>2. /\ Children' = Children /\ Len(Children) \in Nat \ {0}
      /\ DOMAIN Children = 1 .. Len(Children)
  BY <1>1, ChildrenTypes DEF Children, TreeInv, TreeTypeOK
<1>3. child' # 1 /\ child' \in 0 .. Len(Children') /\ memory' \subseteq memory \cup {"handle_death"}
  BY <1>1, <1>2
     DEF NotDead, ReleaseSpirit, WaitAtCorpse, ReclaimCorpse, Decline, Act, Finish, GoOn
<1>4. memory' \subseteq {Children[c] : c \in DOMAIN Children}'
  BY <1>1, <1>2, <1>3 DEF TreeInv, TreeTypeOK
<1>5. inCombat' \in BOOLEAN /\ walking' \in BOOLEAN /\ released' \in BOOLEAN /\ elapsed' \in 0 .. Wait
  <2>1. /\ inCombat' \in {inCombat, FALSE} /\ walking' \in {walking, FALSE}
        /\ released' \in {released, TRUE, FALSE} /\ elapsed' \in {elapsed, 0}
    BY DEF NotDead, ReleaseSpirit, WaitAtCorpse, ReclaimCorpse, fightVars, deathVars
  <2>2. inCombat' \in BOOLEAN /\ walking' \in BOOLEAN /\ released' \in BOOLEAN
    BY <2>1 DEF TreeInv, TreeTypeOK
  <2>3. elapsed \in 0 .. Wait /\ 0 \in 0 .. Wait
    BY WaitAssumption DEF TreeInv, TreeTypeOK
  <2> QED
    BY <2>1, <2>2, <2>3
<1>6. requests' \in Seq([kind : {"repop", "reclaim"}, age : 0 .. Lag])
  <2> DEFINE Requests == [kind : {"repop", "reclaim"}, age : 0 .. Lag]
  <2>1. requests \in Seq(Requests) /\ Request("repop") \in Requests /\ Request("reclaim") \in Requests
    BY WaitAssumption DEF TreeInv, TreeTypeOK, Request
  <2> HIDE DEF Requests
  <2>2. requests' \in {requests, Append(requests, Request("repop")), Append(requests, Request("reclaim"))}
    BY DEF NotDead, ReleaseSpirit, WaitAtCorpse, ReclaimCorpse
  <2>3. requests' \in Seq(Requests)
    BY <2>1, <2>2
  <2> QED
    BY <2>3 DEF Requests
<1>7. DeathComesFirst'
  <2>1. CASE NotDead
    <3>1. ~zero /\ ~released /\ UNCHANGED released /\ "handle_death" \notin memory'
      BY <2>1 DEF NotDead, Decline, Finish, deathVars, TreeInv, DeathComesFirst
    <3>2. ~helpless
      BY <1>1, <3>1 DEF TreeInv, TreeTypeOK, DeathComesFirst
    <3> QED
      BY <1>1, <1>3, <3>1, <3>2 DEF TreeInv, DeathComesFirst
  <2>2. CASE ReleaseSpirit \/ WaitAtCorpse
    <3>1. child' = 0 /\ "handle_death" \in memory' /\ released'
      BY <2>2 DEF ReleaseSpirit, WaitAtCorpse, Act, Finish, GoOn, Actions, deathVars
    <3> QED
      BY <1>1, <3>1 DEF TreeInv, DeathComesFirst
  <2>3. CASE ReclaimCorpse
    <3>1. child' = 0 /\ "handle_death" \notin memory' /\ ~released'
      BY <2>3 DEF ReclaimCorpse, Act, Finish, GoOn
    <3> QED
      BY <1>1, <3>1 DEF TreeInv, DeathComesFirst
  <2> QED
    BY <2>1, <2>2, <2>3
<1> QED
  BY <1>1, <1>3, <1>4, <1>5, <1>6, <1>7 DEF TreeInv, TreeTypeOK

\* The other children.
Others == {"loot_nearby", "fight_target", "find_and_fight", "wander", "hogger_done_check",
           "find_hogger", "fight_attackers", "move_to_hogger_area", "dungeon_in_combat",
           "find_dungeon_mob", "explore_dungeon", "idle"}

LEMMA OthersKeep ==
  ASSUME TreeInv,
         Loot \/ CombatRotation \/ FindMob \/ HoggerDone \/ FindHogger \/ Wander \/ Idle
  PROVE  TreeInv'
<1>1. /\ inCombat \in BOOLEAN /\ target \in BOOLEAN /\ walking \in BOOLEAN
      /\ hoggerKilled \in BOOLEAN /\ acted \in BOOLEAN
  BY DEF TreeInv, TreeTypeOK
<1>2. /\ inCombat' \in BOOLEAN /\ target' \in BOOLEAN /\ walking' \in BOOLEAN
      /\ hoggerKilled' \in BOOLEAN /\ UNCHANGED <<requests, deathVars>>
  BY <1>1 DEF Loot, CombatRotation, FindMob, HoggerDone, FindHogger, Wander, Idle, EngageMob, Drop,
         Keep, fightVars
<1>3. \E n \in Others, status \in {"failure", "success", "running"} :
        Ticking(n) /\ Finish(n, status) /\ acted' \in BOOLEAN
  <2>1. ASSUME NEW n \in Others,
               Decline(n) \/ Act(n, "failure") \/ Act(n, "success") \/ Act(n, "running")
        PROVE  \E status \in {"failure", "success", "running"} :
                 Ticking(n) /\ Finish(n, status) /\ acted' \in BOOLEAN
    BY <1>1, <2>1 DEF Decline, Act
  <2>2. \E n \in Others :
          Decline(n) \/ Act(n, "failure") \/ Act(n, "success") \/ Act(n, "running")
    <3> DEFINE Ticks(n) == Decline(n) \/ Act(n, "failure") \/ Act(n, "success") \/ Act(n, "running")
    <3>1. CASE Loot
      BY <3>1 DEF Loot, Others
    <3>2. CASE CombatRotation
      <4>1. \E n \in {"fight_target", "fight_attackers", "dungeon_in_combat"} : Ticks(n)
        BY <3>2 DEF CombatRotation
      <4> QED
        BY <4>1 DEF Others
    <3>3. CASE FindMob
      <4>1. \E n \in {"find_and_fight", "find_dungeon_mob"} : Ticks(n)
        BY <3>3 DEF FindMob, EngageMob
      <4> QED
        BY <4>1 DEF Others
    <3>4. CASE HoggerDone
      BY <3>4 DEF HoggerDone, Others
    <3>5. CASE FindHogger
      <4>1. Ticks("find_hogger")
        BY <3>5 DEF FindHogger, EngageMob
      <4> QED
        BY <4>1 DEF Others
    <3>6. CASE Wander
      <4>1. \E n \in {"wander", "move_to_hogger_area", "explore_dungeon"} : Ticks(n)
        BY <3>6 DEF Wander
      <4> QED
        BY <4>1 DEF Others
    <3>7. CASE Idle
      BY <3>7 DEF Idle, Others
    <3> QED
      BY <3>1, <3>2, <3>3, <3>4, <3>5, <3>6, <3>7
  <2> QED
    BY <2>1, <2>2
<1>4. PICK n \in Others, status \in {"failure", "success", "running"} :
        Ticking(n) /\ Finish(n, status) /\ acted' \in BOOLEAN
  BY <1>3
<1> QED
  <2>1. n # "handle_death"
    BY DEF Others
  <2> QED
    BY <1>2, <1>4, <2>1, ChildKeeps

LEMMA TreeStepKeeps == TreeInv /\ [TreeNext]_treeVars => TreeInv'
<1>1. ASSUME TreeInv, UNCHANGED treeVars PROVE TreeInv'
  <2>1. UNCHANGED <<mode, life, corpse, unclaimed, requests, zero, inCombat, target, walking, hogger,
                    hoggerKilled, released, elapsed, memory, child, acted, helpless>>
    BY <1>1 DEF treeVars, serverLifeVars, fightVars, hoggerVars, deathVars, tickVars
  <2>2. Children' = Children
    BY <2>1 DEF Children
  <2>3. TreeTypeOK'
    BY <1>1, <2>1, <2>2 DEF TreeInv, TreeTypeOK
  <2> QED
    BY <1>1, <2>1, <2>3 DEF TreeInv, DeathComesFirst
<1> QED
  BY <1>1, AroundKeeps, BeginKeeps, DeathKeeps, OthersKeep DEF TreeNext, TreeStep

\* The first child handles death before any other child acts, and the root remembers it as
\* long as it runs: the invariant behind the next two theorems.
THEOREM TreeInvHolds == TreeSpec => []TreeInv
BY TreeInitially, TreeStepKeeps, PTL DEF TreeSpec

\* The types of the tree's state: it remembers only children of its own mode.
THEOREM TreeTypesHold == TreeSpec => []TreeTypeOK
BY TreeInvHolds, PTL DEF TreeInv

\* A bot that is dead or waits at its corpse does nothing else, whatever was running
\* before and whatever its ghost's health reads (handle_death is the first child of the
\* root selector, and a running sequence does not ask its condition again).
THEOREM TheDeadDoNothingElse == TreeSpec => []DeadDoesNothingElse
<1>1. TreeInv => DeadDoesNothingElse
  BY DEF TreeInv, DeathComesFirst, DeadDoesNothingElse
<1> QED
  BY <1>1, TreeInvHolds, PTL

-----------------------------------------------------------------------------
(* The pose. *)

USE DEF poseVars, ctrlVars, readVars, planVars, Planners, ReadPcs, Follow, Abort,
        AbortAndSnap, SetPath, MayAct

-----------------------------------------------------------------------------
\* Every variable keeps its type.
THEOREM MovementTypesHold == MovementSpec => []MovementTypeOK
<1>1. ASSUME MovementInit
      PROVE  MovementTypeOK
  BY <1>1 DEF MovementInit, MovementTypeOK
<1>2. MovementTypeOK /\ [MovementNext]_movementVars => MovementTypeOK'
  <2> SUFFICES ASSUME MovementTypeOK, [MovementNext]_movementVars PROVE MovementTypeOK'
    OBVIOUS
  <2>1. CASE UpdateMovement
    BY <2>1 DEF UpdateMovement, MovementTypeOK
  <2>2. ASSUME NEW p \in Planners, PlanRead(p) \/ StopCurrentMove(p)
        PROVE  MovementTypeOK'
    BY <2>2 DEF PlanRead, StopCurrentMove, MovementTypeOK
  <2>3. ASSUME NEW p \in Planners, PlanLock(p)
        PROVE  MovementTypeOK'
    BY <2>3 DEF PlanLock, MovementTypeOK
  <2>4. ASSUME NEW p \in Planners, PlanInstall(p)
        PROVE  MovementTypeOK'
    BY <2>4 DEF PlanInstall, MovementTypeOK
  <2>5. ASSUME NEW p \in Planners, NEW h \in Headings, SetFacing(p, h)
        PROVE  MovementTypeOK'
    BY <2>5 DEF SetFacing, MovementTypeOK
  <2>6. CASE WanderRead \/ WanderInstall \/ ConsumeTeleport
    BY <2>6 DEF WanderRead, WanderInstall, ConsumeTeleport, MovementTypeOK
  <2>7. CASE Teleport \/ Relocate
    BY <2>7 DEF Teleport, Relocate, Arrive, MovementTypeOK
  <2>8. CASE ReadLoop /\ ~Teleport /\ ~Relocate
    BY <2>8 DEF ReadLoop, TeleportAbort, TeleportPose, TeleportResume,
                TeleportSnap, TeleportFlag, RelocatePose, RelocateSnap,
                RelocateAgain, RelocateSpellGo, MovementTypeOK
  <2>9. CASE UNCHANGED movementVars
    BY <2>9 DEF movementVars, MovementTypeOK
  <2>10. QED
    BY <2>1, <2>2, <2>3, <2>4, <2>5, <2>6, <2>7, <2>8, <2>9 DEF MovementNext, Planning
<1>3. QED
  BY <1>1, <1>2, PTL DEF MovementSpec

-----------------------------------------------------------------------------
(***************************************************************************)
(* The invariant                                                           *)
(***************************************************************************)

\* No pose comes from a relocation that has not happened.
NoFuturePose ==
  /\ worldPose <= epoch
  /\ ctrlPose <= epoch
  /\ readPose <= epoch
  /\ \A p \in Planners : planPose[p] <= epoch
  /\ staleEpoch <= epoch
  /\ resumed <= epoch

\* Until its handler writes the new pose, every pose is from before a relocation.
AllOlder ==
  readPc \in {"abort", "pose", "r_pose"} =>
    /\ worldPose < epoch
    /\ ctrlPose < epoch
    /\ \A p \in Planners : planPose[p] < epoch

\* The controller publishes nothing.
Quiet == ~moving /\ ~travelled

\* How far the read loop has brought the new pose, when no stale path intervened.
Progress ==
  NoStalePath =>
    /\ readPc \in {"idle", "flag"} => worldPose = epoch /\ ctrlPose = epoch
    /\ readPc = "pose" => Quiet
    /\ readPc \in {"resume", "snap"} => worldPose = epoch /\ (ctrlPose = epoch \/ Quiet)
    /\ readPc = "snap" => readPose = epoch
    /\ readPc = "r_again" => ctrlPose = epoch

\* The poses do not fall back behind the last teleport that was resumed.
KeepsResumed ==
  staleEpoch < resumed =>
    /\ worldPose >= resumed
    /\ ctrlPose >= resumed
    /\ readPc = "snap" => readPose >= resumed

PoseInv == NoFuturePose /\ AllOlder /\ Progress /\ KeepsResumed

\* A relocation raises the epoch above every pose.
LEMMA ArrivePose ==
  ASSUME MovementTypeOK, PoseInv, NEW next \in {"abort", "r_pose"}, Arrive(next)
  PROVE  PoseInv'
  BY DEF Arrive, MovementTypeOK, PoseInv, NoFuturePose, AllOlder, Progress, KeepsResumed,
         NoStalePath, Quiet

\* The steps of the read loop.
LEMMA ReadLoopPose ==
  ASSUME MovementTypeOK, PoseInv, ReadLoop
  PROVE  PoseInv'
<1>1. CASE Teleport \/ Relocate
  BY <1>1, ArrivePose DEF Teleport, Relocate
<1>2. CASE TeleportAbort \/ RelocateSpellGo
  BY <1>2 DEF TeleportAbort, RelocateSpellGo, MovementTypeOK, PoseInv, NoFuturePose,
              AllOlder, Progress, KeepsResumed, NoStalePath, Quiet
<1>3. CASE TeleportPose
  BY <1>3 DEF TeleportPose, MovementTypeOK, PoseInv, NoFuturePose, AllOlder, Progress,
              KeepsResumed, NoStalePath, Quiet
<1>4. CASE TeleportResume
  BY <1>4 DEF TeleportResume, MovementTypeOK, PoseInv, NoFuturePose, AllOlder, Progress,
              KeepsResumed, NoStalePath, Quiet
<1>5. CASE TeleportSnap
  BY <1>5 DEF TeleportSnap, MovementTypeOK, PoseInv, NoFuturePose, AllOlder, Progress,
              KeepsResumed, NoStalePath, Quiet
<1>6. CASE TeleportFlag
  BY <1>6 DEF TeleportFlag, MovementTypeOK, PoseInv, NoFuturePose, AllOlder, Progress,
              KeepsResumed, NoStalePath, Quiet
<1>7. CASE RelocatePose
  BY <1>7 DEF RelocatePose, MovementTypeOK, PoseInv, NoFuturePose, AllOlder, Progress,
              KeepsResumed, NoStalePath, Quiet
<1>8. CASE RelocateSnap
  BY <1>8 DEF RelocateSnap, MovementTypeOK, PoseInv, NoFuturePose, AllOlder, Progress,
              KeepsResumed, NoStalePath, Quiet
<1>9. CASE RelocateAgain
  BY <1>9 DEF RelocateAgain, MovementTypeOK, PoseInv, NoFuturePose, AllOlder, Progress,
              KeepsResumed, NoStalePath, Quiet
<1>10. QED
  BY <1>1, <1>2, <1>3, <1>4, <1>5, <1>6, <1>7, <1>8, <1>9 DEF ReadLoop

\* Installing a path: from a pose of the present epoch it keeps the invariant, and
\* from an older one it is recorded in staleEpoch.
LEMMA InstallPose ==
  ASSUME MovementTypeOK, PoseInv, NEW p \in Planners, SetPath(planPose[p]),
         UNCHANGED <<epoch, readVars, planPose, resumed>>
  PROVE  PoseInv'
<1>1. CASE planPose[p] < epoch
  BY <1>1 DEF MovementTypeOK, PoseInv, NoFuturePose, AllOlder, Progress, KeepsResumed,
              NoStalePath, Quiet
<1>2. CASE planPose[p] = epoch
  BY <1>2 DEF MovementTypeOK, PoseInv, NoFuturePose, AllOlder, Progress, KeepsResumed,
              NoStalePath, Quiet
<1>3. QED
  BY <1>1, <1>2 DEF MovementTypeOK, PoseInv, NoFuturePose

\* Following a path publishes the pose of the controller.
LEMMA FollowPose ==
  ASSUME MovementTypeOK, PoseInv, Follow, UNCHANGED <<epoch, readVars, resumed, staleEpoch>>,
         NEW p \in Planners,
         planPose' \in {planPose, [planPose EXCEPT ![p] = ctrlPose]}
  PROVE  PoseInv'
  BY DEF MovementTypeOK, PoseInv, NoFuturePose, AllOlder, Progress, KeepsResumed,
         NoStalePath, Quiet

\* PoseInv is an invariant of BotMovement.
LEMMA PoseInvariant == MovementSpec => []PoseInv
<1>1. MovementInit => PoseInv
  BY DEF MovementInit, PoseInv, NoFuturePose, AllOlder, Progress, KeepsResumed, NoStalePath
<1>2. MovementTypeOK /\ PoseInv /\ [MovementNext]_movementVars => PoseInv'
  <2> SUFFICES ASSUME MovementTypeOK, PoseInv, [MovementNext]_movementVars PROVE PoseInv'
    OBVIOUS
  <2>1. CASE UpdateMovement
    <3>1. CASE Follow
      BY <2>1, <3>1, FollowPose DEF UpdateMovement
    <3>2. CASE ~Follow
      BY <2>1, <3>2
         DEF UpdateMovement, MovementTypeOK, PoseInv, NoFuturePose, AllOlder, Progress,
             KeepsResumed, NoStalePath, Quiet
    <3>3. QED
      BY <3>1, <3>2
  <2>2. ASSUME NEW p \in Planners, PlanRead(p)
        PROVE  PoseInv'
    BY <2>2 DEF PlanRead, MovementTypeOK, PoseInv, NoFuturePose, AllOlder, Progress,
                KeepsResumed, NoStalePath, Quiet
  <2>3. ASSUME NEW p \in Planners, PlanLock(p)
        PROVE  PoseInv'
    <3>1. CASE moving
      <4>1. /\ Follow
            /\ planPose' = [planPose EXCEPT ![p] = ctrlPose]
            /\ UNCHANGED <<epoch, readVars, resumed, staleEpoch>>
        BY <2>3, <3>1 DEF PlanLock
      <4>2. QED
        BY <4>1, FollowPose
    <3>2. CASE ~moving
      <4>1. UNCHANGED <<epoch, poseVars, ctrlVars, readVars, planPose, resumed,
                        staleEpoch>>
        BY <2>3, <3>2 DEF PlanLock
      <4>2. QED
        BY <4>1 DEF PoseInv, NoFuturePose, AllOlder, Progress, KeepsResumed,
                    NoStalePath, Quiet
    <3>3. QED
      BY <3>1, <3>2
  <2>4. ASSUME NEW p \in Planners, PlanInstall(p)
        PROVE  PoseInv'
    BY <2>4, InstallPose DEF PlanInstall
  <2>5. ASSUME NEW p \in Planners, StopCurrentMove(p)
        PROVE  PoseInv'
    BY <2>5 DEF StopCurrentMove, MovementTypeOK, PoseInv, NoFuturePose, AllOlder, Progress,
                KeepsResumed, NoStalePath, Quiet
  <2>6. ASSUME NEW p \in Planners, NEW h \in Headings, SetFacing(p, h)
        PROVE  PoseInv'
    BY <2>6 DEF SetFacing, PoseInv, NoFuturePose, AllOlder, Progress, KeepsResumed,
                NoStalePath, Quiet
  <2>7. CASE WanderRead
    BY <2>7 DEF WanderRead, MovementTypeOK, PoseInv, NoFuturePose, AllOlder, Progress,
                KeepsResumed, NoStalePath, Quiet
  <2>8. CASE WanderInstall
    <3>1. CASE SetPath(planPose["ai"])
      BY <2>8, <3>1, InstallPose DEF WanderInstall
    <3>2. CASE ~SetPath(planPose["ai"])
      BY <2>8, <3>2 DEF WanderInstall, PoseInv, NoFuturePose, AllOlder, Progress,
                        KeepsResumed, NoStalePath, Quiet
    <3>3. QED
      BY <3>1, <3>2
  <2>9. CASE ConsumeTeleport \/ UNCHANGED movementVars
    BY <2>9 DEF ConsumeTeleport, movementVars, PoseInv, NoFuturePose, AllOlder, Progress,
                KeepsResumed, NoStalePath, Quiet
  <2>10. QED
    BY <2>1, <2>2, <2>3, <2>4, <2>5, <2>6, <2>7, <2>8, <2>9, ReadLoopPose
       DEF MovementNext, Planning
<1>3. QED
  BY <1>1, <1>2, MovementTypesHold, PTL DEF MovementSpec

\* Aborting, snapping and asserting the pose again is enough against everything but
\* a path computed from an older pose.
THEOREM RelocationsHold == MovementSpec => []RelocationHolds
<1>1. PoseInv => RelocationHolds
  BY DEF PoseInv, Progress, RelocationHolds
<1>2. QED
  BY <1>1, PoseInvariant, PTL

\* The flag that restarts Lua is raised after the pose it restarts from is in place.
THEOREM TeleportFlagIsLast == MovementSpec => []FlagFollowsSnap
<1>1. PoseInv => FlagFollowsSnap
  BY DEF PoseInv, KeepsResumed, FlagFollowsSnap
<1>2. QED
  BY <1>1, PoseInvariant, PTL

-----------------------------------------------------------------------------
\* A heading that was asked for is the published one while the controller is quiet.
Faced == faced # NoHeading => Quiet /\ worldHeading = faced

\* A facing is kept until another facing, a path or a relocation.
THEOREM FacingHolds == MovementSpec => []FacingIsKept
<1>1. MovementInit => Faced
  BY DEF MovementInit, Faced
<1>2. Faced /\ [MovementNext]_movementVars => Faced'
  <2> SUFFICES ASSUME Faced, [MovementNext]_movementVars PROVE Faced'
    OBVIOUS
  <2> USE DEF Faced, Quiet
  <2>1. CASE UpdateMovement
    BY <2>1 DEF UpdateMovement
  <2>2. ASSUME NEW p \in Planners, PlanRead(p) \/ StopCurrentMove(p)
        PROVE  Faced'
    BY <2>2 DEF PlanRead, StopCurrentMove
  <2>3. ASSUME NEW p \in Planners, PlanLock(p)
        PROVE  Faced'
    BY <2>3 DEF PlanLock
  <2>4. ASSUME NEW p \in Planners, PlanInstall(p)
        PROVE  Faced'
    BY <2>4 DEF PlanInstall
  <2>5. ASSUME NEW p \in Planners, NEW h \in Headings, SetFacing(p, h)
        PROVE  Faced'
    BY <2>5 DEF SetFacing
  <2>6. CASE WanderRead \/ WanderInstall \/ ConsumeTeleport
    BY <2>6 DEF WanderRead, WanderInstall, ConsumeTeleport
  <2>7. CASE ReadLoop
    BY <2>7 DEF ReadLoop, Teleport, Relocate, Arrive, TeleportAbort, TeleportPose, TeleportResume,
                TeleportSnap, TeleportFlag, RelocatePose, RelocateSnap, RelocateAgain,
                RelocateSpellGo
  <2>8. CASE UNCHANGED movementVars
    BY <2>8 DEF movementVars
  <2> QED
    BY <2>1, <2>2, <2>3, <2>4, <2>5, <2>6, <2>7, <2>8 DEF MovementNext, Planning
<1>3. Faced => FacingIsKept
  BY DEF Faced, FacingIsKept
<1> QED
  BY <1>1, <1>2, <1>3, PTL DEF MovementSpec

=============================================================================
