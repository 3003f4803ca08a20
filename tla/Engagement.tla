----------------------------- MODULE Engagement -----------------------------
(* Whom the bot fights: the target, swing and combat flags of WorldClient,    *)
(* the bot's own list of the dead, and the grind branch of the behaviour      *)
(* tree.  Two goroutines write them: the read loop, which handles the world   *)
(* server's packets and runs OnKill and OnAttackReject, and the AI loop,      *)
(* whose tick reads a flag or the cache, releases the lock and acts later.    *)
(* A cached unit is abstracted to what IsAlive and Health tell apart: "alive",*)
(* "zero" (no health), "dead" (no health and marked by MarkObjectDead) and    *)
(* "revived" (marked, but a later values block gave it health).  Distances    *)
(* and ages are choices; every visible mob is within the scan range.          *)
EXTENDS Naturals, Sequences, FiniteSets

CONSTANTS Mobs,        \* units near the bot
          None,        \* GUID zero
  Roaming,     \* the mobs that leave the character's sight and return
  Factions,    \* the sets of mobs that may be the hostile ones
          QueueBound   \* packets in flight, to bound the model

ASSUME EngagementAssumption == None \notin Mobs /\ Factions \subseteq SUBSET Mobs /\ Roaming \in [Factions -> SUBSET Mobs] /\ QueueBound \in Nat \ {0}

VARIABLES
  living, visible,     \* server: mobs alive, mobs the character can see
  hostile,             \* mobs without NPC flags and of a hostile faction
  queue,               \* packets sent and not yet read
  cache,               \* WorldClient.objects
  target, attacking, inCombat, \* WorldClient.targetGUID, attackingGUID, inCombat
  knownDead,           \* Bot.knownDead
  handling,            \* what the read loop has left of OnKill
  pc, seen,            \* the AI tick: the next step and the GUID it has read
  grind,               \* Bot.grindTargetGUID
  timed,               \* Bot.currentTargetSetAt is set (and timedGUID with it)
  fights, engages,     \* Sequence.current of fight_target and find_and_fight is 1
  excused              \* history: mobs there was a reason to take for dead

server == <<living, visible, hostile>>
flags == <<target, attacking, inCombat>>
tree == <<fights, engages>>
ai == <<pc, seen, grind, tree>>
vars == <<server, queue, cache, flags, knownDead, handling, ai, timed, excused>>

Guids == Mobs \cup {None}
Entries == {"absent", "alive", "zero", "dead", "revived"}
Steps == {"idle", "drop", "letGo", "unstick", "rotate",
          "pick", "repick", "reseek", "strike", "close", "check", "find", "engage", "judge", "commit", "wander"}
Kinds == {"hit", "values", "gone", "create", "start", "stop", "terminal", "transient"}

\* Only the answers to a swing may leave their unit out.
Packets == {p \in [kind : Kinds, unit : Guids, flag : BOOLEAN] :
              p.unit = None => p.kind \in {"stop", "terminal", "transient"}}

TypeOK ==
  /\ living \subseteq Mobs /\ visible \subseteq Mobs /\ hostile \subseteq Mobs
  /\ queue \in Seq(Packets)
  /\ cache \in [Mobs -> Entries]
  /\ target \in Guids /\ attacking \in Guids /\ inCombat \in BOOLEAN
  /\ knownDead \subseteq Mobs /\ excused \subseteq Mobs
  /\ handling \in {[at |-> a, unit |-> u] : a \in {"none", "compare", "clear"}, u \in Guids}
  /\ pc \in Steps /\ seen \in Guids /\ grind \in Guids
  /\ timed \in BOOLEAN
  /\ fights \in BOOLEAN /\ engages \in BOOLEAN

Init ==
  /\ living = Mobs /\ visible = Mobs /\ hostile \in Factions
  /\ queue = <<>> /\ cache = [u \in Mobs |-> "alive"]
  /\ target = None /\ attacking = None /\ inCombat = FALSE
  /\ knownDead = {} /\ handling = [at |-> "none", unit |-> None] /\ excused = {}
  /\ pc = "idle" /\ seen = None /\ grind = None /\ timed = FALSE
  /\ fights = FALSE /\ engages = FALSE

-----------------------------------------------------------------------------
(* The world server *)

Packet(k, u, f) == [kind |-> k, unit |-> u, flag |-> f]
Send(ps) == /\ Len(queue) + Len(ps) <= QueueBound
            /\ queue' = queue \o ps
Settled == UNCHANGED <<cache, flags, knownDead, handling, ai, timed, excused>>

(* A melee hit that the cached health does not survive: the bot's own (flag)   *)
(* or another's.  The mob may live on, its health having changed meanwhile.    *)
ServerHit(u) ==
  /\ u \in living \cap visible
  /\ \E mine \in {FALSE} \cup {attacking = u}, lives \in BOOLEAN, stops \in BOOLEAN :
       /\ living' = IF lives THEN living ELSE living \ {u}
       /\ Send(<<Packet("hit", u, mine)>>
               \o (IF stops /\ ~lives THEN <<Packet("stop", u, FALSE)>> ELSE <<>>))
  /\ UNCHANGED <<visible, hostile>> /\ Settled

(* A mob dies of something no melee packet tells of. *)
ServerDeath(u) ==
  /\ u \in living \cap visible
  /\ living' = living \ {u}
  /\ Send(<<Packet("values", u, FALSE)>>)
  /\ UNCHANGED <<visible, hostile>> /\ Settled

ServerValues(u) ==
  /\ u \in living \cap visible
  /\ Send(<<Packet("values", u, TRUE)>>)
  /\ UNCHANGED server /\ Settled

ServerSight(u) ==
  /\ u \in Roaming[hostile]
  /\ IF u \in visible
     THEN /\ visible' = visible \ {u}
          /\ Send(<<Packet("gone", u, FALSE)>>)
     ELSE /\ visible' = visible \cup {u}
          /\ Send(<<Packet("create", u, u \in living)>>)
  /\ UNCHANGED <<living, hostile>> /\ Settled

(* A mob starts to attack: the character (flag) or somebody else. *)
ServerAggro(u) ==
  /\ u \in living \cap visible
  /\ \E onMe \in BOOLEAN : Send(<<Packet("start", u, onMe)>>)
  /\ UNCHANGED server /\ Settled

ServerStep ==
  /\ Len(queue) < QueueBound
  /\ \E u \in Mobs : \/ ServerHit(u) \/ ServerDeath(u) \/ ServerValues(u)
                     \/ ServerSight(u) \/ ServerAggro(u)

(* The answers to a swing.  The server may leave the victim out; a swing it    *)
(* accepts is answered by "start", one it cannot carry out by an error.        *)
SwingAnswers(u) ==
  {<<>>} \cup
  (IF u \in living
   THEN {<<Packet("start", u, FALSE)>>}
        \cup {<<Packet("transient", v, FALSE)>> : v \in {u, None}}
        \cup (IF u \in hostile THEN {} ELSE {<<Packet("terminal", v, FALSE)>> : v \in {u, None}})
   ELSE {<<Packet("terminal", v, FALSE)>> : v \in {u, None}}
        \cup {<<Packet("stop", v, FALSE)>> : v \in {u, None}})

Answered(u) == \E ps \in SwingAnswers(u) :
                 queue' = IF Len(queue) < QueueBound THEN queue \o ps ELSE queue

-----------------------------------------------------------------------------
(* WorldClient and Bot helpers *)

IsAlive(u) == cache[u] = "alive"
HasHealth(u) == cache[u] \in {"alive", "revived"}
DeadIn(c, u) == IF u # None /\ c[u] # "absent" THEN [c EXCEPT ![u] = "dead"] ELSE c
MarkObjectDead(u) == cache' = DeadIn(cache, u)
MarkKnownDead(u) == MarkObjectDead(u) /\ knownDead' = knownDead \cup ({u} \ {None})
SetTarget(u) == target' = u
AttackSwing(u) == attacking' = u /\ inCombat' = TRUE /\ Answered(u)
ClearCombat == attacking' = None /\ inCombat' = FALSE
Disengage == target' = None /\ ClearCombat
StopAnswered == \/ UNCHANGED queue
                \/ attacking # None /\ Send(<<Packet("stop", attacking, FALSE)>>)
Doomed(u) == ~(u \in Mobs \ knownDead /\ IsAlive(u))

-----------------------------------------------------------------------------
(* The read loop *)

Reading(k) == handling.at = "none" /\ queue # <<>> /\ Head(queue).kind = k
              /\ queue' = Tail(queue)
Unit == Head(queue).unit
Flag == Head(queue).flag

(* handleAttackerStateUpdate: a kill is predicted from the cached health and   *)
(* OnKill runs; otherwise the damage alone brings the cached health to zero.   *)
ReadHit ==
  /\ Reading("hit")
  /\ MarkObjectDead(Unit)
  /\ excused' = excused \cup {Unit}
  /\ IF Flag /\ HasHealth(Unit)
     THEN /\ knownDead' = knownDead \cup {Unit}
          /\ handling' = [at |-> "compare", unit |-> Unit]
     ELSE UNCHANGED <<knownDead, handling>>
  /\ UNCHANGED <<server, flags, ai, timed>>

(* OnKill: is the victim the current target? *)
KillCompare ==
  /\ handling.at = "compare"
  /\ handling' = IF target = handling.unit
                 THEN [handling EXCEPT !.at = "clear"]
                 ELSE [at |-> "none", unit |-> None]
  /\ UNCHANGED <<server, queue, cache, flags, knownDead, ai, timed, excused>>

(* OnKill: it was when the read loop looked, so whatever is the target now is   *)
(* cleared.                                                                     *)
KillClear ==
  /\ handling.at = "clear"
  /\ handling' = [at |-> "none", unit |-> None]
  /\ Disengage /\ StopAnswered /\ timed' = FALSE
  /\ UNCHANGED <<server, cache, knownDead, ai, excused>>

ValuesIn(entry, health) ==
  CASE entry = "absent" -> "absent"
    [] entry \in {"dead", "revived"} -> IF health THEN "revived" ELSE "dead"
    [] OTHER -> IF health THEN "alive" ELSE "zero"

ReadValues ==
  /\ Reading("values")
  /\ cache' = [cache EXCEPT ![Unit] = ValuesIn(@, Flag)]
  /\ excused' = IF Flag THEN excused ELSE excused \cup {Unit}
  /\ UNCHANGED <<server, flags, knownDead, handling, ai, timed>>

ReadGone ==
  /\ Reading("gone")
  /\ cache' = [cache EXCEPT ![Unit] = "absent"]
  /\ excused' = excused \cup {Unit}
  /\ UNCHANGED <<server, flags, knownDead, handling, ai, timed>>

ReadCreate ==
  /\ Reading("create")
  /\ cache' = [cache EXCEPT ![Unit] = IF Flag THEN "alive" ELSE "zero"]
  /\ UNCHANGED <<server, flags, knownDead, handling, ai, timed, excused>>

ReadAttackStart ==
  /\ Reading("start")
  /\ inCombat' = (inCombat \/ Flag \/ attacking = Unit)
  /\ target' = IF Flag /\ target = None THEN Unit ELSE target
  /\ UNCHANGED <<server, cache, attacking, knownDead, handling, ai, timed, excused>>

(* handleAttackStop: ends the swing; without a victim it drops the selection.  *)
ReadAttackStop ==
  /\ Reading("stop")
  /\ attacking' = None
  /\ IF Unit = None /\ target # None
     THEN target' = None /\ inCombat' = FALSE
     ELSE UNCHANGED <<target, inCombat>>
  /\ UNCHANGED <<server, cache, knownDead, handling, ai, timed, excused>>

Blamed == IF Unit # None THEN Unit ELSE IF target # None THEN target ELSE attacking

(* handleAttackSwingError, terminal: OnInvalidTarget and OnAttackReject mark   *)
(* the unit that is blamed.                                                    *)
ReadTerminal ==
  /\ Reading("terminal")
  /\ MarkKnownDead(Blamed)
  /\ Disengage
  /\ excused' = excused \cup ({Blamed} \ {None})
  /\ UNCHANGED <<server, handling, ai, timed>>

ReadTransientDrops ==
  /\ Reading("transient")
  /\ MarkKnownDead(Blamed)
  /\ Disengage
  /\ UNCHANGED <<server, handling, ai, timed, excused>>

(* handleAttackSwingError, transient: the target stays; OnAttackReject only    *)
(* turns or walks to it.                                                       *)
ReadTransient ==
  /\ Reading("transient")
  /\ attacking' = None
  /\ UNCHANGED <<server, cache, target, inCombat, knownDead, handling, ai, timed, excused>>

ReadStep == \/ ReadHit \/ KillCompare \/ KillClear \/ ReadValues \/ ReadGone \/ ReadCreate
            \/ ReadAttackStart \/ ReadAttackStop \/ ReadTerminal \/ ReadTransient

-----------------------------------------------------------------------------
(* The AI loop: one tick of runAILoop and of the behaviour tree.  A step ends  *)
(* where the tick has released a lock and goes on with what it has read.       *)

At(s) == pc = s
Go(s) == pc' = s
GoGrind == Go(IF engages THEN "engage" ELSE "find")

(* findBestTarget, by a scan, which takes the units with health off the list   *)
(* of the dead, or from the target cache.                                      *)
CandidatesWithCorpses == {u \in hostile : cache[u] # "absent"}
Candidates == {u \in hostile : IsAlive(u)}
FindBest(best) ==
  \/ /\ knownDead' = {u \in knownDead : ~HasHealth(u)}
     /\ IF Candidates = {} THEN best = None ELSE best \in Candidates
  \/ /\ best \in Candidates \ knownDead
     /\ UNCHANGED knownDead

(* The tick drops a target that is dead, gone or no enemy. *)
Cleanup ==
  /\ At("idle") /\ seen' = IF target # None /\ ~IsAlive(target) THEN target ELSE None
  /\ Go(IF target = None THEN "unstick"
        ELSE IF ~IsAlive(target) THEN "drop"
        ELSE IF target \notin hostile THEN "letGo" ELSE "unstick")
  /\ UNCHANGED <<server, queue, cache, flags, knownDead, handling, grind, tree, timed, excused>>

DropTarget ==
  /\ pc \in {"drop", "letGo"} /\ Go("unstick") /\ seen' = None
  /\ IF At("drop") THEN MarkObjectDead(seen) ELSE UNCHANGED cache
  /\ Disengage
  /\ UNCHANGED <<server, queue, knownDead, handling, grind, tree, timed, excused>>

(* A target that never led to combat is given up after a while.  Then the tree *)
(* is ticked: fight_target goes first, and its Sequence remembers a running    *)
(* rotation and does not ask for the combat flag again.                        *)
UnstickAndTick ==
  /\ At("unstick")
  /\ \/ UNCHANGED <<flags, timed>>
     \/ /\ target # None /\ timed /\ ~inCombat
        /\ Disengage /\ timed' = FALSE
  /\ IF fights \/ inCombat THEN Go("rotate") ELSE GoGrind
  /\ UNCHANGED <<server, queue, cache, knownDead, handling, seen, grind, tree, excused>>

Rotate ==
  /\ At("rotate")
  /\ IF target = None \/ Doomed(target) \/ target \notin hostile
     THEN seen' = None /\ Go("pick")
     ELSE seen' = target /\ Go("check")
  /\ IF target # None /\ Doomed(target)
     THEN MarkKnownDead(target) /\ UNCHANGED flags
     ELSE /\ IF target \in Mobs \ hostile THEN target' = None /\ ClearCombat
                                           ELSE UNCHANGED flags
          /\ UNCHANGED <<cache, knownDead>>
  /\ UNCHANGED <<server, queue, handling, grind, tree, timed, excused>>

Pick ==
  /\ At("pick")
  /\ \E best \in Guids :
       /\ FindBest(best) /\ seen' = best
       /\ IF best # None
          THEN SetTarget(best) /\ timed' = TRUE /\ Go("check")
          ELSE UNCHANGED <<target, timed>> /\ Go("repick")
  /\ UNCHANGED <<server, queue, cache, attacking, inCombat, handling, grind, tree, excused>>

RepickInCombat ==
  /\ At("repick")
  /\ \E best \in Guids :
       /\ FindBest(best) /\ seen' = best
       /\ IF best # None
          THEN Go("strike") /\ UNCHANGED <<target, fights>>
          ELSE target' = None /\ fights' = FALSE /\ GoGrind
  /\ UNCHANGED <<server, queue, cache, attacking, inCombat, handling, grind, engages, timed, excused>>

Repick ==
  /\ At("repick")
  /\ \E best \in Guids :
       /\ FindBest(best) /\ seen' = best
       /\ IF best # None
          THEN Go("strike") /\ UNCHANGED <<flags, fights>>
          ELSE target' = None /\ ClearCombat /\ fights' = FALSE /\ GoGrind
  /\ UNCHANGED <<server, queue, cache, handling, grind, engages, timed, excused>>

Strike ==
  /\ At("strike") /\ Go("idle") /\ seen' = None
  /\ SetTarget(seen) /\ timed' = TRUE /\ AttackSwing(seen)
  /\ fights' = TRUE
  /\ UNCHANGED <<server, cache, knownDead, handling, grind, engages, excused>>

(* actionCombatRotation once it has a target: dead, stale or friendly, low on  *)
(* health without progress, or one to fight.                                   *)
CheckDead ==
  /\ At("check") /\ Doomed(seen) /\ seen' = None
  /\ Disengage /\ StopAnswered /\ MarkKnownDead(seen) /\ Go("reseek")
  /\ UNCHANGED <<server, handling, grind, tree, timed, excused>>

Reseek ==
  /\ At("reseek")
  /\ \E best \in Guids :
       /\ FindBest(best) /\ seen' = best
       /\ IF best # None THEN Go("strike") /\ UNCHANGED fights
                         ELSE fights' = FALSE /\ GoGrind
  /\ UNCHANGED <<server, queue, cache, flags, handling, grind, engages, timed, excused>>

CheckGiveUp ==
  /\ At("check") /\ ~Doomed(seen) /\ seen' = None
  /\ Disengage /\ fights' = FALSE /\ GoGrind
  /\ \/ UNCHANGED <<cache, knownDead, excused>>
     \/ timed /\ MarkKnownDead(seen) /\ excused' = excused \cup {seen}
  /\ UNCHANGED <<server, queue, handling, grind, engages, timed>>

CheckFight ==
  /\ At("check") /\ ~Doomed(seen) /\ seen \in hostile /\ Go("close")
  /\ UNCHANGED <<server, queue, cache, flags, knownDead, handling, seen, grind, tree, timed, excused>>

Close ==
  /\ At("close") /\ Go("idle") /\ fights' = TRUE /\ seen' = None
  /\ \/ UNCHANGED <<queue, attacking, inCombat>>
     \/ AttackSwing(seen)
  /\ UNCHANGED <<server, cache, target, knownDead, handling, grind, engages, timed, excused>>

(* The find_target condition keeps a mob that is still good. *)
Find ==
  /\ At("find")
  /\ IF grind # None /\ ~Doomed(grind) /\ grind \in hostile
     THEN Go("engage") /\ UNCHANGED <<grind, knownDead>>
     ELSE \E best \in Guids : /\ FindBest(best) /\ grind' = best
                             /\ Go(IF best = None THEN "wander" ELSE "engage")
  /\ UNCHANGED <<server, queue, cache, flags, handling, seen, tree, timed, excused>>

(* actionEngageTarget looks for a better mob every two seconds. *)
Engage ==
  /\ At("engage") /\ Go("judge")
  /\ \/ seen' = grind /\ UNCHANGED knownDead
     \/ \E fresh \in Guids :
          /\ FindBest(fresh)
          /\ seen' \in IF fresh = None THEN {grind}
                      ELSE IF grind = None \/ ~IsAlive(grind) THEN {fresh} ELSE {grind, fresh}
  /\ grind' = seen'
  /\ UNCHANGED <<server, queue, cache, flags, handling, tree, timed, excused>>

JudgeDeadResumes ==
  /\ At("judge") /\ Doomed(seen) /\ seen' = None
  /\ Disengage /\ MarkKnownDead(seen) /\ grind' = None /\ Go("wander")
  /\ UNCHANGED <<server, queue, handling, tree, timed, excused>>

JudgeDead ==
  /\ At("judge") /\ Doomed(seen) /\ seen' = None
  /\ Disengage /\ MarkKnownDead(seen) /\ grind' = None /\ engages' = FALSE /\ Go("wander")
  /\ UNCHANGED <<server, queue, handling, fights, timed, excused>>

JudgeStuck ==
  /\ At("judge") /\ seen \in hostile /\ ~Doomed(seen) /\ timed /\ seen' = None
  /\ Disengage /\ timed' = FALSE /\ grind' = None /\ engages' = FALSE /\ Go("wander")
  /\ \/ UNCHANGED <<cache, knownDead, excused>>
     \/ MarkKnownDead(seen) /\ excused' = excused \cup {seen}
  /\ UNCHANGED <<server, queue, handling, fights>>

JudgeFight ==
  /\ At("judge") /\ seen \in hostile /\ ~Doomed(seen) /\ Go("commit")
  /\ UNCHANGED <<server, queue, cache, flags, knownDead, handling, seen, grind, tree, timed, excused>>

(* Charge or walk, or swing. *)
Commit ==
  /\ At("commit") /\ Go("idle") /\ seen' = None
  /\ SetTarget(seen) /\ timed' = TRUE /\ engages' = TRUE
  /\ \/ UNCHANGED <<queue, attacking, inCombat>>
     \/ AttackSwing(seen)
  /\ UNCHANGED <<server, cache, knownDead, handling, grind, fights, excused>>

Wander ==
  /\ At("wander") /\ Go("idle")
  /\ \E best \in Guids : FindBest(best)
  /\ UNCHANGED <<server, queue, cache, flags, handling, seen, grind, tree, timed, excused>>

AIStep == \/ Cleanup \/ DropTarget \/ UnstickAndTick
          \/ Rotate \/ Pick \/ Repick \/ Strike \/ CheckDead \/ Reseek \/ CheckGiveUp
          \/ CheckFight \/ Close \/ Find \/ Engage \/ JudgeDead
          \/ JudgeStuck \/ JudgeFight \/ Commit \/ Wander

Next == ServerStep \/ ReadStep \/ AIStep

(* Both loops keep running, which takes writes that return (BotRun has those that do  *)
(* not); the server need not act otherwise.                                           *)
Spec == Init /\ [][Next]_vars /\ WF_vars(ReadStep) /\ WF_vars(AIStep)

-----------------------------------------------------------------------------
(* A mob is on the list of the dead, or marked in the cache, only when there   *)
(* was a reason: the server told of its death or withdrew it, a hit no cached  *)
(* health survives, a terminal error blamed on it, or the low-health rule.     *)
(* Range and facing errors, stops of a swing and the loss of a race between    *)
(* the two loops are no reason: the phantom dead mobs of handleAttackSwingError*)
OnlyExcusedAreWrittenOff ==
  /\ knownDead \subseteq excused
  /\ \A u \in Mobs : cache[u] \in {"dead", "revived"} => u \in excused

(* A corpse is left alone for good: however OnKill, a late start of an attack, *)
(* a late error and the tick interleave, the bot ends up not selecting it, and *)
(* keeps the swing at it only while it runs to another mob.                    *)
CorpseIsLeftAlone ==
  \A u \in Mobs : <>[](u \notin living => target # u /\ (attacking = u => target # None))

(* With nothing left to fight the combat flag is cleared and stays so, though  *)
(* it is set by a swing, a start of an attack and a hit in any order.          *)
CombatEnds == <>[](living = {} => ~inCombat)

(* Once the mobs the cache shows fit to fight stay the same, the bot does not  *)
(* stand by for ever: whatever its own list of the dead, the kept grind target *)
(* and the memory of the two sequences hold, it selects one again and again.   *)
BotKeepsFighting ==
  \A C \in SUBSET Mobs \ {{}} : <>[](Candidates = C) => []<>(target # None)
=============================================================================
