----------------------------- MODULE UnitHealth -----------------------------
(***************************************************************************)
(* The health of units as the client believes it (client/world.go).  The   *)
(* world server reports health with its values updates, some time after it *)
(* changed.  To see a death at once the client applies the damage of each  *)
(* SMSG_ATTACKERSTATEUPDATE to its own copy, and counts a kill or its own  *)
(* death when the copy is used up; it counts its death also from a health  *)
(* of 0 and from SMSG_CORPSE_RECLAIM_DELAY.                                *)
(*                                                                         *)
(* The server is external.  It sends what happens on one FIFO stream, and  *)
(* nothing at all for the damage of spells.  Each handler of the read loop *)
(* is one action.  The behaviour tree, on its own goroutine, marks dead a  *)
(* target it found not alive a moment before.  Not part of this module:    *)
(* the target and combat flags the handlers also set, and the entry that   *)
(* an attack answered with DEAD_TARGET marks.                              *)
(***************************************************************************)
EXTENDS Naturals, Sequences

CONSTANTS
  Self,       \* the character, w.charGUID
  Creatures,  \* the other units
  MaxHealth,  \* bound: health of a unit
  MaxReports  \* bound: messages the server sends

ASSUME UnitsAssumption == Self \notin Creatures
ASSUME BoundsAssumption == MaxHealth \in Nat \ {0} /\ MaxReports \in Nat

Units == Creatures \cup {Self}
Healths == 0 .. MaxHealth
Damages == 1 .. MaxHealth

VARIABLES
  hp,         \* external: the health of each unit
  lootable,   \* external: the dead units this player may loot
  ghost,      \* external: the player has released its spirit
  visible,    \* external: the units the server shows to this player
  told,       \* external: per unit, the health and the lootable flag last reported
  dead,       \* external: how often the player has died
  reports,    \* messages sent and not yet read
  reported,   \* messages sent so far, for the bound
  tracked,    \* the units in w.objects
  cache,      \* per unit, the values that tell life from death
  health,     \* w.health
  kills,      \* b.kills, per victim
  deaths,     \* b.deaths
  judged,     \* the mobs the behaviour tree found not alive and has not marked yet
  unseen,     \* history: the units damaged without a packet since their last report
  gained,     \* history: the units that gained health since their last report
  misled      \* history: the units damaged after a gain and before its report

healthServerVars ==
  <<hp, lootable, ghost, visible, told, dead, reported, unseen, gained, misled>>
readVars == <<tracked, cache, health, kills, deaths>>
clientVars == <<readVars, judged>>
healthVars == <<healthServerVars, reports, clientVars>>

(* A values update carries some fields of a unit: its health, its flags and its
   dynamic flags.  The server never sets the dead flags the client sets. *)
Fields == {"health", "flags", "dynamic"}

Messages ==
       [kind : {"hit"}, by : Units, unit : Units, damage : Damages]
  \cup [kind : {"values", "create"}, unit : Units, fields : SUBSET Fields,
        health : Healths, lootable : BOOLEAN]
  \cup [kind : {"out"}, unit : Creatures]
  \cup [kind : {"reclaim"}]

\* UNIT_FIELD_HEALTH, UnitFlagDead in the flags, and whether the dynamic flags hold
\* the dead or the lootable flag.
Entries == [health : Healths, flag : BOOLEAN, dynamic : BOOLEAN]

NoEntry == [health |-> 0, flag |-> FALSE, dynamic |-> FALSE]

\* The character stands in the world with full health, and sees nobody yet.
HealthInit ==
  /\ hp = [u \in Units |-> MaxHealth]
  /\ lootable = {}
  /\ ghost = FALSE
  /\ visible = {Self}
  /\ told = [u \in Units |-> [health |-> MaxHealth, lootable |-> FALSE]]
  /\ dead = 0
  /\ reports = <<>>
  /\ reported = 0
  /\ tracked = {Self}
  /\ cache = [u \in Units |->
                IF u = Self THEN [NoEntry EXCEPT !.health = MaxHealth] ELSE NoEntry]
  /\ health = MaxHealth
  /\ kills = [u \in Units |-> 0]
  /\ deaths = 0
  /\ judged = {}
  /\ unseen = {}
  /\ gained = {}
  /\ misled = {}

-----------------------------------------------------------------------------
(***************************************************************************)
(* The server (external).                                                  *)
(***************************************************************************)

\* Nothing changes that no message is left to tell of, for the bound.
Reportable == reported < MaxReports

Report(messages) ==
  /\ Reportable
  /\ reported + Len(messages) <= MaxReports
  /\ reported' = reported + Len(messages)
  /\ reports' = reports \o messages

Living(u) == hp[u] > 0 /\ ~(u = Self /\ ghost)

Minus(a, b) == IF a > b THEN a - b ELSE 0

\* Damage d reaches u, with the messages first, then those of its death.
Wound(u, d, first) ==
  /\ u \in visible
  /\ Living(u)
  /\ hp' = [hp EXCEPT ![u] = Minus(@, d)]
  /\ lootable' \in IF u \in Creatures /\ hp'[u] = 0 THEN {lootable, lootable \cup {u}}
                                              ELSE {lootable}
  /\ dead' = IF u = Self /\ hp'[u] = 0 THEN dead + 1 ELSE dead
  /\ Report(IF u = Self /\ hp'[u] = 0 THEN Append(first, [kind |-> "reclaim"]) ELSE first)
  /\ misled' = misled \cup ({u} \cap gained)
  /\ UNCHANGED <<ghost, visible, told, gained>>

\* A melee hit: SMSG_ATTACKERSTATEUPDATE.
ServerHit(a, u, d) ==
  /\ a # u
  /\ Living(a)
  /\ Wound(u, d, <<[kind |-> "hit", by |-> a, unit |-> u, damage |-> d]>>)
  /\ UNCHANGED unseen

\* The damage of a spell, a fall or a command: no packet this client reads.
ServerDamage(u, d) ==
  /\ Wound(u, d, <<>>)
  /\ unseen' = unseen \cup {u}

\* A gain of health, reported only later.
ServerHeal(u, d) ==
  /\ Reportable
  /\ u \in visible
  /\ Living(u)
  /\ hp[u] + d <= MaxHealth
  /\ hp' = [hp EXCEPT ![u] = @ + d]
  /\ gained' = gained \cup {u}
  /\ UNCHANGED <<lootable, ghost, visible, told, dead, reports, reported, unseen, misled>>

State(u) == [health |-> hp[u], lootable |-> u \in lootable]

\* The values update of one unit: what changed since the last one, and the flags
\* whenever the unit entered or left combat.
ServerReport(u) ==
  /\ u \in visible
  /\ \E flags \in SUBSET {"flags"} :
       LET fields == flags \cup {f \in {"health"} : hp[u] # told[u].health}
                           \cup {f \in {"dynamic"} : (u \in lootable) # told[u].lootable}
       IN  /\ fields # {}
           /\ Report(<<[kind |-> "values", unit |-> u, fields |-> fields,
                      health |-> hp[u], lootable |-> u \in lootable]>>)
           /\ IF "health" \in fields
              THEN unseen' = unseen \ {u} /\ gained' = gained \ {u}
              ELSE UNCHANGED <<unseen, gained>>
  /\ told' = [told EXCEPT ![u] = State(u)]
  /\ UNCHANGED <<hp, lootable, ghost, visible, dead, misled>>

\* CMSG_REPOP_REQUEST was received: the ghost has one point of health.
ServerRelease ==
  /\ hp[Self] = 0
  /\ ghost' = TRUE
  /\ hp' = [hp EXCEPT ![Self] = 1]
  /\ gained' = gained \cup {Self}
  /\ Report(<<[kind |-> "reclaim"]>>)
  /\ UNCHANGED <<lootable, visible, told, dead, unseen, misled>>

ServerResurrect ==
  /\ Reportable
  /\ ~Living(Self)
  /\ ghost' = FALSE
  /\ hp' \in {[hp EXCEPT ![Self] = h] : h \in Damages}
  /\ gained' = gained \cup {Self}
  /\ UNCHANGED <<lootable, visible, told, dead, reports, reported, unseen, misled>>

\* A unit leaves the player's sight, or its corpse decays.
ServerHide(u) ==
  /\ u \in visible
  /\ visible' = visible \ {u}
  /\ Report(<<[kind |-> "out", unit |-> u]>>)
  /\ UNCHANGED <<hp, lootable, ghost, told, dead, unseen, gained, misled>>

\* A unit comes into sight; one that was dead may have respawned.
ServerShow(u) ==
  /\ u \notin visible
  /\ visible' = visible \cup {u}
  /\ \/ UNCHANGED <<hp, lootable>>
     \/ /\ hp[u] = 0
        /\ hp' = [hp EXCEPT ![u] = MaxHealth]
        /\ lootable' = lootable \ {u}
  /\ told' = [told EXCEPT ![u] = State(u)']
  /\ Report(<<[kind |-> "create", unit |-> u, fields |-> Fields,
             health |-> hp'[u], lootable |-> u \in lootable']>>)
  /\ unseen' = unseen \ {u}
  /\ gained' = gained \ {u}
  /\ misled' = misled \ {u}
  /\ UNCHANGED <<ghost, dead>>

HealthServerStep ==
  /\ \/ \E u \in Units, d \in Damages :
          \/ \E a \in Units : ServerHit(a, u, d)
          \/ ServerDamage(u, d)
          \/ ServerHeal(u, d)
     \/ \E u \in Units : ServerReport(u)
     \/ ServerRelease
     \/ ServerResurrect
     \/ \E u \in Creatures : ServerHide(u) \/ ServerShow(u)
  /\ UNCHANGED clientVars

-----------------------------------------------------------------------------
(***************************************************************************)
(* The cache.                                                              *)
(***************************************************************************)

\* WorldObject.IsAlive, for an entry whose maximal health is known.
IsAlive(u) == ~cache[u].flag /\ ~cache[u].dynamic /\ cache[u].health > 0

DeadEntry == [health |-> 0, flag |-> TRUE, dynamic |-> TRUE]

\* MarkObjectDead.
MarkObjectDead(entries, u) == IF u \in tracked THEN [entries EXCEPT ![u] = DeadEntry]
                                               ELSE entries

\* Mutant: damage that just uses up the health leaves the unit alive.
ApplyLocalDamageKeepsOne(entries, u, d) ==
  IF u \notin tracked THEN entries
  ELSE IF entries[u].health >= d
       THEN [entries EXCEPT ![u].health = IF @ > d THEN @ - d ELSE 1]
       ELSE MarkObjectDead(entries, u)

\* ApplyLocalDamage.
ApplyLocalDamage(entries, u, d) ==
  IF u \notin tracked THEN entries
  ELSE IF entries[u].health > d
       THEN [entries EXCEPT ![u].health = @ - d]
       ELSE MarkObjectDead(entries, u)

\* readValuesUpdate, field by field in the order of the indices.  Dynamic flags that
\* say lootable also zero the health.
WithValues(entry, m) ==
  LET corpse == "dynamic" \in m.fields /\ m.lootable
  IN  [health  |-> IF corpse THEN 0
                   ELSE IF "health" \in m.fields THEN m.health ELSE entry.health,
       flag    |-> entry.flag /\ "flags" \notin m.fields,
       dynamic |-> IF "dynamic" \in m.fields THEN m.lootable ELSE entry.dynamic]

-----------------------------------------------------------------------------
(***************************************************************************)
(* The read loop.                                                          *)
(***************************************************************************)

Arrives(kind) ==
  /\ reports # <<>>
  /\ Head(reports).kind = kind
  /\ reports' = Tail(reports)
  /\ UNCHANGED <<healthServerVars, judged>>

\* The victim of a hit by this player dies of it, as far as the cache tells.
Kills(m) ==
  /\ m.by = Self
  /\ m.unit \in tracked
  /\ cache[m.unit].health > 0
  /\ m.damage >= cache[m.unit].health

\* Mutant: the character's death by a hit leaves its health as it was.
AttackerStateUpdateKeepsHealth ==
  /\ Arrives("hit")
  /\ LET m == Head(reports)
         dies == m.unit = Self /\ health > 0 /\ m.damage >= health
     IN  /\ kills' = IF Kills(m) THEN [kills EXCEPT ![m.unit] = @ + 1] ELSE kills
         /\ cache' = ApplyLocalDamage(IF Kills(m) THEN MarkObjectDead(cache, m.unit)
                                                  ELSE cache, m.unit, m.damage)
         /\ health' = IF m.unit = Self /\ ~dies THEN Minus(health, m.damage) ELSE health
         /\ deaths' = IF dies THEN deaths + 1 ELSE deaths
  /\ UNCHANGED tracked

\* handleAttackerStateUpdate: the kill is predicted from the health before the hit and
\* OnKill marks the victim dead; then the damage is applied to the victim's entry; if
\* the victim is the character, its health follows and its death is counted.
AttackerStateUpdate ==
  /\ Arrives("hit")
  /\ LET m == Head(reports)
         dies == m.unit = Self /\ health > 0 /\ m.damage >= health
     IN  /\ kills' = IF Kills(m) THEN [kills EXCEPT ![m.unit] = @ + 1] ELSE kills
         /\ cache' = ApplyLocalDamage(IF Kills(m) THEN MarkObjectDead(cache, m.unit)
                                                  ELSE cache, m.unit, m.damage)
         /\ health' = IF m.unit = Self THEN Minus(health, m.damage) ELSE health
         /\ deaths' = IF dies THEN deaths + 1 ELSE deaths
  /\ UNCHANGED tracked

\* The values block of m reaches the entry of its unit, and the character's own
\* health, whose fall to 0 is a death.
TakeValues(m) ==
  /\ cache' = [cache EXCEPT ![m.unit] = WithValues(@, m)]
  /\ IF m.unit = Self /\ "health" \in m.fields
     THEN /\ health' = m.health
          /\ deaths' = IF m.health = 0 /\ health > 0 THEN deaths + 1 ELSE deaths
     ELSE UNCHANGED <<health, deaths>>
  /\ UNCHANGED kills

\* UPDATETYPE_VALUES: skipped for a unit that is not tracked.
ValuesUpdate ==
  /\ Arrives("values")
  /\ IF Head(reports).unit \in tracked \cup {Self}
     THEN /\ tracked' = tracked \cup {Head(reports).unit}
          /\ TakeValues(Head(reports))
     ELSE UNCHANGED readVars

\* UPDATETYPE_CREATE_OBJECT.
CreateObject ==
  /\ Arrives("create")
  /\ tracked' = tracked \cup {Head(reports).unit}
  /\ TakeValues(Head(reports))

\* removeObject.
RemoveObject ==
  /\ Arrives("out")
  /\ tracked' = tracked \ {Head(reports).unit}
  /\ cache' = [cache EXCEPT ![Head(reports).unit] = NoEntry]
  /\ UNCHANGED <<health, kills, deaths>>

\* Mutant: the health is left to the values update.
CorpseReclaimDelayWaits ==
  /\ Arrives("reclaim")
  /\ UNCHANGED readVars

\* handleCorpseReclaimDelay: sent only to the dead, so the health is forced to 0.
CorpseReclaimDelay ==
  /\ Arrives("reclaim")
  /\ health' = 0
  /\ deaths' = IF health > 0 THEN deaths + 1 ELSE deaths
  /\ UNCHANGED <<tracked, cache, kills>>

HealthReadStep ==
  \/ AttackerStateUpdate
  \/ ValuesUpdate
  \/ CreateObject
  \/ RemoveObject
  \/ CorpseReclaimDelay

\* The behaviour tree finds its target not alive, on a copy of the entry ...
JudgeTarget(u) ==
  /\ u \in tracked
  /\ ~IsAlive(u)
  /\ judged' = judged \cup {u}
  /\ UNCHANGED <<healthServerVars, reports, readVars>>

\* ... and marks the entry it has by then.
MarkTarget(u) ==
  /\ u \in judged
  /\ judged' = judged \ {u}
  /\ cache' = MarkObjectDead(cache, u)
  /\ UNCHANGED <<healthServerVars, reports, tracked, health, kills, deaths>>

HealthNext == HealthServerStep \/ HealthReadStep \/ \E u \in Creatures : JudgeTarget(u) \/ MarkTarget(u)

HealthSpec == HealthInit /\ [][HealthNext]_healthVars

-----------------------------------------------------------------------------
(***************************************************************************)
(* Properties                                                              *)
(***************************************************************************)

HealthTypeOK ==
  /\ hp \in [Units -> Healths]
  /\ lootable \subseteq Creatures
  /\ ghost \in BOOLEAN
  /\ visible \subseteq Units
  /\ told \in [Units -> [health : Healths, lootable : BOOLEAN]]
  /\ dead \in Nat
  /\ reports \in Seq(Messages)
  /\ reported \in Nat
  /\ tracked \subseteq Units
  /\ cache \in [Units -> Entries]
  /\ health \in Healths
  /\ kills \in [Units -> Nat]
  /\ deaths \in Nat
  /\ judged \subseteq Creatures
  /\ unseen \subseteq Units
  /\ gained \subseteq Units
  /\ misled \subseteq Units

\* Once the stream is read, the client never takes a unit for healthier than it is,
\* unless the unit was damaged without a packet: a death by melee is seen at once,
\* whoever dealt the blow, without waiting for the values update.
DeathIsSeenAtOnce ==
  reports = <<>> =>
    /\ \A u \in tracked \ unseen : cache[u].health <= hp[u]
    /\ Self \notin unseen => health <= hp[Self]

\* A character that lies dead knows it once the stream is read, however it died:
\* DieMust and WaitDead do not spin.
CorpseIsKnown == reports = <<>> /\ hp[Self] = 0 => health = 0

\* The three packets that tell of the character's death count it once between them,
\* unless it was damaged after a gain of health the server had not reported yet.
DeathIsCountedOnce ==
  /\ deaths <= dead \/ Self \in misled
  /\ reports = <<>> => deaths = dead \/ Self \in misled

\* A predicted death only stands in for the next values update: when one reports that
\* a mob lives (a positive health, and nothing to loot), the client takes it for alive.
ReportSettlesPrediction ==
  [][\A u \in Creatures :
       (/\ ValuesUpdate
        /\ Head(reports).unit = u
        /\ u \in tracked
        /\ "health" \in Head(reports).fields
        /\ Head(reports).health > 0
        /\ ~Head(reports).lootable)
       => IsAlive(u)']_healthVars

=============================================================================
