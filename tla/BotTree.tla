------------------------------- MODULE BotTree -------------------------------
(***************************************************************************)
(* The behaviour tree of a bot and its death (bot/bot.go, on the nodes of  *)
(* ai/behaviortree).  A selector ticks its children in order until one     *)
(* does not fail, from the first at every tick; a sequence of a condition  *)
(* and an action remembers that its action is running, and does not ask    *)
(* its condition again.  The selector of the mode is the last child of the *)
(* root selector, so the children of both form one list.                   *)
(*                                                                         *)
(* The AI loop ticks a child in one action of the model; the read loop and *)
(* the server act between two of them.  What fighting, looting and walking *)
(* do to mobs is in Engagement; here an action of the tree is its status,  *)
(* the target, the combat flag and whether the bot walks.  Seconds are     *)
(* counted only for the wait at the corpse.                                *)
(***************************************************************************)
EXTENDS Naturals, Sequences

CONSTANTS
  Modes,   \* the modes of the configuration: "grind", "hogger", "dungeon", "idle"
  Wait,    \* seconds after which the bot asks for its corpse, 32
  Delay,   \* external: seconds a ghost must wait for it, 30
  Lag      \* bound: seconds a request may take

ASSUME WaitAssumption == Wait \in Nat /\ Delay \in Nat /\ Lag \in Nat
ASSUME ModesAssumption == Modes \subseteq {"grind", "hogger", "dungeon", "idle"}

VARIABLES
  mode,        \* b.config.Mode
  life,        \* external: "alive", "dead", "ghost"
  corpse,      \* external: the seconds since the release, up to Delay
  requests,    \* requests sent and not yet handled, with their age in seconds
  zero,        \* the client's health is 0
  inCombat,    \* w.inCombat
  target,      \* w.targetGUID is a unit worth chasing
  walking,     \* the controller follows a path
  hogger,      \* what the cache shows of Hogger: "none", "alive", "corpse"
  hoggerKilled,
  memory,      \* the sequences whose action is to be resumed
  released,    \* the blackboard's death_time is set
  elapsed,     \* the seconds since it, up to Wait
  child,       \* the child to tick next, 0 between two ticks
  acted,       \* history: in this tick an action other than that of a death ran
  helpless,    \* history: the tick began with the spirit released or a health of 0
  unclaimed    \* history: the ghost has not asked for its corpse at its time yet

serverLifeVars == <<life, corpse, unclaimed>>
fightVars == <<inCombat, target, walking>>
hoggerVars == <<hogger, hoggerKilled>>
deathVars == <<released, elapsed>>
tickVars == <<memory, child, acted>>
treeVars == <<mode, serverLifeVars, requests, zero, fightVars, hoggerVars,
              deathVars, tickVars, helpless>>

\* The children of the selector of each mode, in order.
GrindChildren == <<"find_and_fight", "wander">>
HoggerChildren ==
  <<"hogger_done_check", "find_hogger", "fight_attackers", "move_to_hogger_area">>
DungeonChildren == <<"dungeon_in_combat", "find_dungeon_mob", "explore_dungeon">>

\* Those of the root selector, the last of which is the selector of the mode.
Children ==
  <<"handle_death", "loot_nearby", "fight_target">> \o
    CASE mode = "grind"   -> GrindChildren
      [] mode = "hogger"  -> HoggerChildren
      [] mode = "dungeon" -> DungeonChildren
      [] mode = "idle"    -> <<"idle">>

Request(k) == [kind |-> k, age |-> 0]

\* The children that are actions without a condition.
Actions == {"wander", "move_to_hogger_area", "explore_dungeon", "idle"}

TreeInit ==
  /\ mode \in Modes
  /\ life = "alive" /\ corpse = 0 /\ unclaimed = FALSE
  /\ requests = <<>>
  /\ zero = FALSE /\ inCombat = FALSE /\ target = FALSE /\ walking = FALSE
  /\ hogger = "none" /\ hoggerKilled = FALSE
  /\ released = FALSE /\ elapsed = 0
  /\ memory = {} /\ child = 0 /\ acted = FALSE /\ helpless = FALSE

-----------------------------------------------------------------------------
(* The server (external), time, and what the read loop makes of its packets. *)

Die ==
  /\ life = "alive" /\ life' = "dead"
  /\ UNCHANGED <<mode, corpse, unclaimed, requests, zero, fightVars, hoggerVars,
                 deathVars, tickVars, helpless>>

\* By another player.
Resurrect ==
  /\ life # "alive" /\ life' = "alive" /\ unclaimed' = FALSE /\ corpse' = 0
  /\ UNCHANGED <<mode, requests, zero, fightVars, hoggerVars, deathVars, tickVars,
                 helpless>>

(* A release makes a ghost of the dead.  A ghost gets its corpse back when it   *)
(* has waited and stands near it.                                               *)
AnswerRequest ==
  /\ requests # <<>> /\ requests' = Tail(requests)
  /\ \/ /\ Head(requests).kind = "repop" /\ life = "dead"
        /\ life' = "ghost" /\ corpse' = 0 /\ unclaimed' = TRUE
     \/ /\ Head(requests).kind = "reclaim" /\ life = "ghost" /\ corpse = Delay
        /\ unclaimed' = FALSE
        /\ \/ life' = "alive" /\ corpse' = 0
           \/ UNCHANGED <<life, corpse>>
     \/ /\ Head(requests).kind = "repop" => life # "dead"
        /\ Head(requests).kind = "reclaim" => ~(life = "ghost" /\ corpse = Delay)
        /\ UNCHANGED serverLifeVars
  /\ UNCHANGED <<mode, zero, fightVars, hoggerVars, deathVars, tickVars, helpless>>

Second ==
  /\ \A i \in DOMAIN requests : requests[i].age < Lag
  /\ requests' = [i \in DOMAIN requests |-> [requests[i] EXCEPT !.age = @ + 1]]
  /\ elapsed' = IF released /\ elapsed < Wait THEN elapsed + 1 ELSE elapsed
  /\ corpse' = IF life = "ghost" /\ corpse < Delay THEN corpse + 1 ELSE corpse
  /\ UNCHANGED <<mode, life, unclaimed, zero, fightVars, hoggerVars, released,
                 tickVars, helpless>>

(* A values update.  A ghost has a health of 1, which the packet with the delay *)
(* of its corpse sets to 0 when it comes later.                                 *)
ReportHealth ==
  /\ zero' = ~zero
  /\ life = "ghost" \/ zero' = (life = "dead")
  /\ helpless' = (helpless /\ (released \/ zero'))
  /\ UNCHANGED <<mode, serverLifeVars, requests, fightVars, hoggerVars, deathVars, tickVars>>

(* The damage of a hit uses up the client's copy of the health. *)
PredictDeath ==
  /\ life = "alive" /\ zero' = TRUE
  /\ UNCHANGED <<mode, serverLifeVars, requests, fightVars, hoggerVars, deathVars, tickVars,
                 helpless>>

(* A start of an attack or a hit, the end of combat, a kill, a rejected swing,  *)
(* an arrival.                                                                  *)
CombatEvent ==
  /\ \/ inCombat' = TRUE /\ target' \in {target, TRUE} /\ UNCHANGED walking
     \/ inCombat' = FALSE /\ UNCHANGED <<target, walking>>
     \/ inCombat' = FALSE /\ target' = FALSE /\ walking' = FALSE
     \/ life = "alive" /\ target /\ walking' = TRUE /\ UNCHANGED <<inCombat, target>>
     \/ walking' = FALSE /\ UNCHANGED <<inCombat, target>>
  /\ UNCHANGED <<mode, serverLifeVars, requests, zero, hoggerVars, deathVars, tickVars, helpless>>

HoggerChanges ==
  /\ mode = "hogger"
  /\ hogger' \in CASE hogger = "none"   -> {"alive"}
                    [] hogger = "alive"  -> {"none", "corpse"}
                    [] hogger = "corpse" -> {"none"}
  /\ UNCHANGED <<mode, serverLifeVars, requests, zero, fightVars, hoggerKilled, deathVars,
                 tickVars, helpless>>

Surroundings == Die \/ Resurrect \/ PredictDeath \/ CombatEvent \/ HoggerChanges

-----------------------------------------------------------------------------
(* The AI loop. *)

(* Chases the target wherever the bot's own life stands, or drops one that is   *)
(* no longer fit.                                                               *)
Pursue ==
  \/ UNCHANGED fightVars
  \/ target /\ walking' = TRUE /\ UNCHANGED <<inCombat, target>>
  \/ target /\ target' = FALSE /\ inCombat' = FALSE /\ walking' = FALSE

TickAt(c) ==
  /\ child = 0 /\ child' = c
  /\ acted' = FALSE /\ helpless' = (released \/ zero)
  /\ Pursue
  /\ UNCHANGED <<mode, serverLifeVars, requests, zero, hoggerVars, deathVars, memory>>

BeginTickAtRunning ==
  \E c \in DOMAIN Children :
    /\ TickAt(c)
    /\ \/ Children[c] \in memory
       \/ c = 1 /\ memory = {}

BeginTick == TickAt(1)

GoOn(status) ==
  child' = IF status = "failure" /\ child < Len(Children) THEN child + 1 ELSE 0

FinishForgetting(n, status) == GoOn(status) /\ memory' = memory \ {n}

(* The status of child n: the selectors go on after a failure, and a sequence   *)
(* resumes with its action what is running.                                     *)
Finish(n, status) ==
  /\ GoOn(status)
  /\ memory' = IF status = "running" /\ n \notin Actions THEN memory \cup {n}
                                                         ELSE memory \ {n}

Ticking(n) ==
  /\ child # 0 /\ Children[child] = n
  /\ UNCHANGED <<mode, serverLifeVars, zero, hogger, helpless>>

Act(n, status) == Ticking(n) /\ Finish(n, status) /\ acted' = (acted \/ n # "handle_death")

\* The condition is asked only of a sequence that is not resumed.
Decline(n) == Ticking(n) /\ n \notin memory /\ Finish(n, "failure") /\ UNCHANGED acted
Enters(n, condition) == n \in memory \/ condition

NotDead ==
  /\ ~zero /\ Decline("handle_death")
  /\ UNCHANGED <<requests, fightVars, hoggerKilled, deathVars>>

ReleaseSpirit ==
  /\ Enters("handle_death", zero) /\ ~released
  /\ Act("handle_death", "running")
  /\ released' = TRUE /\ elapsed' = 0
  /\ walking' = FALSE /\ inCombat' = FALSE
  /\ requests' = Append(requests, Request("repop"))
  /\ UNCHANGED <<target, hoggerKilled>>

WaitAtCorpse ==
  /\ Enters("handle_death", zero) /\ released /\ elapsed < Wait
  /\ Act("handle_death", "running")
  /\ UNCHANGED <<requests, fightVars, hoggerKilled, deathVars>>

ReclaimCorpse ==
  /\ Enters("handle_death", zero) /\ released /\ elapsed = Wait
  /\ Act("handle_death", "success")
  /\ released' = FALSE /\ elapsed' = 0
  /\ requests' = Append(requests, Request("reclaim"))
  /\ UNCHANGED <<fightVars, hoggerKilled>>

Loot ==
  /\ \/ Decline("loot_nearby") /\ UNCHANGED walking
     \/ Act("loot_nearby", "success") /\ UNCHANGED walking
     \/ Act("loot_nearby", "failure") /\ walking' \in {walking, FALSE}
  /\ UNCHANGED <<requests, inCombat, target, hoggerKilled, deathVars>>

Keep == UNCHANGED <<requests, hoggerKilled, deathVars>>

\* Every failure of an action that fights drops the target and the combat.
Drop == target' = FALSE /\ inCombat' = FALSE /\ walking' \in {walking, FALSE}

\* The sequences whose action is the rotation, in combat.
CombatRotation ==
  /\ Keep
  /\ \E n \in {"fight_target", "fight_attackers", "dungeon_in_combat"} :
       \/ ~inCombat /\ Decline(n) /\ UNCHANGED fightVars
       \/ /\ Enters(n, inCombat)
          /\ \/ Act(n, "failure") /\ Drop
             \/ /\ Act(n, "running") /\ target' = TRUE
                /\ inCombat' \in {inCombat, TRUE} /\ walking' \in BOOLEAN

\* A sequence that seeks a mob and engages it: it may see none.
EngageMob(n) ==
  \/ Act(n, "failure") /\ Drop
  \/ /\ Act(n, "running") /\ target' = TRUE
     /\ inCombat' \in {inCombat, TRUE} /\ walking' \in BOOLEAN

FindMob ==
  /\ Keep
  /\ \E n \in {"find_and_fight", "find_dungeon_mob"} :
       \/ Decline(n) /\ UNCHANGED fightVars
       \/ EngageMob(n)

HoggerDone ==
  /\ Keep /\ UNCHANGED fightVars
  /\ \/ ~hoggerKilled /\ Decline("hogger_done_check")
     \/ Enters("hogger_done_check", hoggerKilled) /\ Act("hogger_done_check", "running")

\* The condition also notes a corpse.
FindHogger ==
  /\ UNCHANGED <<requests, deathVars>>
  /\ \/ /\ hogger # "alive" /\ Decline("find_hogger")
        /\ hoggerKilled' = (hoggerKilled \/ hogger = "corpse")
        /\ UNCHANGED fightVars
     \/ /\ Enters("find_hogger", hogger = "alive") /\ UNCHANGED hoggerKilled
        /\ \/ hogger # "alive" /\ Act("find_hogger", "failure") /\ UNCHANGED fightVars
           \/ hogger = "alive" /\ EngageMob("find_hogger")

\* A mob in sight ends the wandering.
Wander ==
  /\ Keep /\ UNCHANGED <<inCombat, target>>
  /\ \E n \in {"wander", "move_to_hogger_area", "explore_dungeon"} :
       \/ Act(n, "running") /\ walking' \in BOOLEAN
       \/ Act(n, "failure") /\ UNCHANGED walking

Idle == Act("idle", "running") /\ Keep /\ UNCHANGED fightVars

TreeStep ==
  \/ BeginTick
  \/ NotDead \/ ReleaseSpirit \/ WaitAtCorpse \/ ReclaimCorpse
  \/ Loot \/ CombatRotation \/ FindMob \/ HoggerDone \/ FindHogger \/ Wander \/ Idle

TreeNext == Surroundings \/ AnswerRequest \/ Second \/ ReportHealth \/ TreeStep

\* The AI loop ticks, time passes, and the server reads, answers and reports.
TreeFairness ==
  /\ WF_treeVars(TreeStep) /\ WF_treeVars(Second)
  /\ WF_treeVars(AnswerRequest) /\ WF_treeVars(ReportHealth)

TreeSpec == TreeInit /\ [][TreeNext]_treeVars /\ TreeFairness

-----------------------------------------------------------------------------
TreeTypeOK ==
  /\ mode \in Modes /\ life \in {"alive", "dead", "ghost"}
  /\ requests \in Seq([kind : {"repop", "reclaim"}, age : 0 .. Lag])
  /\ corpse \in 0 .. Delay /\ elapsed \in 0 .. Wait
  /\ child \in 0 .. Len(Children) /\ memory \subseteq {Children[c] : c \in DOMAIN Children}
  /\ zero \in BOOLEAN /\ inCombat \in BOOLEAN /\ target \in BOOLEAN /\ walking \in BOOLEAN
  /\ hogger \in {"none", "alive", "corpse"} /\ hoggerKilled \in BOOLEAN
  /\ released \in BOOLEAN /\ acted \in BOOLEAN /\ helpless \in BOOLEAN
  /\ unclaimed \in BOOLEAN

(* A bot that is dead, or waits at its corpse, does nothing else: no action of  *)
(* the tree runs in a tick that began so, although the ghost counts as alive by *)
(* its health of 1 and a fight or a search was running before.                  *)
DeadDoesNothingElse == ~(helpless /\ acted)

(* Every death is released, and every ghost asks for its corpse once its delay  *)
(* is over: also after a resurrection by somebody else in the middle of the     *)
(* wait, another death during it, or a death that was only predicted.           *)
DeathIsHandled ==
  /\ life = "dead" ~> life # "dead"
  /\ unclaimed ~> ~unclaimed

(* The comment of release_and_respawn, "Stop any movement": a bot that has      *)
(* released its spirit stands still until it is alive.                          *)
DeadStandsStill == released /\ life # "alive" => ~walking
==============================================================================
