----------------------------- MODULE AuraTable -----------------------------
(***************************************************************************)
(* The auras of the tracked objects (client/world.go).  Every WorldObject  *)
(* holds, under aurasMu, a map from aura slot to spell with the stacks and *)
(* the durations of the slots, and beside it the set of spells that        *)
(* HasAura and GetActiveAuras answer from.  The read loop applies          *)
(* SMSG_AURA_UPDATE and SMSG_AURA_UPDATE_ALL one slot at a time and takes  *)
(* the lock once per slot, so a reader can look between any two slots.     *)
(*                                                                         *)
(* The server is external: it may change the auras of what the player sees *)
(* in any way, and it tells the client of each change on one FIFO stream.  *)
(***************************************************************************)
EXTENDS Naturals, Sequences, FiniteSetsExt

CONSTANTS
  Guids,
  Slots,
  Spells,
  NoSpell,       \* spell id 0
  Auras,         \* the auras the server applies
  MaxMessages    \* bound: aura and visibility messages the server sends

ASSUME SpellAssumption == NoSpell \notin Spells
ASSUME AurasAssumption ==
  Auras \subseteq [spell : Spells, charges : Nat, timed : BOOLEAN]

NoAura == [spell |-> NoSpell, charges |-> 0, timed |-> FALSE]
AuraLists == [Slots -> Auras \cup {NoAura}]
Bare == [s \in Slots |-> NoAura]

VARIABLES
  told,      \* per object, the list the server last described to the client
  visible,   \* external: the objects the server shows to this player
  sent,      \* messages sent so far, for the bound
  net,       \* messages sent and not yet read
  tracked,   \* the objects in w.objects
  table,     \* per object, its aura state
  work,      \* the message being applied, with the slots still to come
  seen       \* history: per object, the list described by the messages applied

serverVars == <<told, visible, sent>>
vars == <<serverVars, net, tracked, table, work, seen>>

(* A message names the object it is about.  It stands for a packet that    *)
(* carries, for each slot in "carries", that slot of the list now[guid];   *)
(* "now" also records what the client has been told once it is applied.    *)
Messages ==
  [kind : {"update", "all", "out", "world"}, guid : Guids,
   carries : SUBSET Slots, now : [Guids -> AuraLists]]

Idle == [kind |-> "idle"]

\* The aura state of one object.  A slot with no entry holds NoSpell and 0 stacks;
\* "timed" is the domain of auraSlotDuration and auraSlotMaxDuration.
Tables ==
  [active : SUBSET Spells, slots : [Slots -> Spells \cup {NoSpell}],
   stacks : [Slots -> Nat], timed : SUBSET Slots]

EmptyTable ==
  [active |-> {}, slots |-> [s \in Slots |-> NoSpell],
   stacks |-> [s \in Slots |-> 0], timed |-> {}]

Init ==
  /\ told = [g \in Guids |-> Bare]
  /\ visible = {}
  /\ sent = 0
  /\ net = <<>>
  /\ tracked = {}
  /\ table = [g \in Guids |-> EmptyTable]
  /\ work = Idle
  /\ seen = [g \in Guids |-> Bare]

-----------------------------------------------------------------------------
(***************************************************************************)
(* The state of one object.                                                *)
(***************************************************************************)

\* The spells held by a slot other than s.
HeldElsewhere(t, s) == {t.slots[q] : q \in Slots \ {s}}

\* A stack byte of 0 stands for one application.
StackCount(aura) == IF aura.charges = 0 THEN 1 ELSE aura.charges

\* Mutant: the old spell leaves the set although another slot holds it.
SetAuraForgetsOthers(t, s, aura) ==
  LET active == t.active \ ({t.slots[s]} \ {aura.spell})
  IN  IF aura.spell = NoSpell
      THEN [active |-> active,
            slots  |-> [t.slots EXCEPT ![s] = NoSpell],
            stacks |-> [t.stacks EXCEPT ![s] = 0],
            timed  |-> t.timed \ {s}]
      ELSE [active |-> active \cup {aura.spell},
            slots  |-> [t.slots EXCEPT ![s] = aura.spell],
            stacks |-> [t.stacks EXCEPT ![s] = StackCount(aura)],
            timed  |-> IF aura.timed THEN t.timed \cup {s} ELSE t.timed \ {s}]

\* Mutant: a replaced or removed spell stays in the set.
SetAuraKeepsReplaced(t, s, aura) ==
  LET active == t.active
  IN  IF aura.spell = NoSpell
      THEN [active |-> active,
            slots  |-> [t.slots EXCEPT ![s] = NoSpell],
            stacks |-> [t.stacks EXCEPT ![s] = 0],
            timed  |-> t.timed \ {s}]
      ELSE [active |-> active \cup {aura.spell},
            slots  |-> [t.slots EXCEPT ![s] = aura.spell],
            stacks |-> [t.stacks EXCEPT ![s] = StackCount(aura)],
            timed  |-> IF aura.timed THEN t.timed \cup {s} ELSE t.timed \ {s}]

\* setAuraForSlot; NoAura is a call with spell id 0.
SetAura(t, s, aura) ==
  LET active == t.active \ ({t.slots[s]} \ (HeldElsewhere(t, s) \cup {aura.spell}))
  IN  IF aura.spell = NoSpell
      THEN [active |-> active,
            slots  |-> [t.slots EXCEPT ![s] = NoSpell],
            stacks |-> [t.stacks EXCEPT ![s] = 0],
            timed  |-> t.timed \ {s}]
      ELSE [active |-> active \cup {aura.spell},
            slots  |-> [t.slots EXCEPT ![s] = aura.spell],
            stacks |-> [t.stacks EXCEPT ![s] = StackCount(aura)],
            timed  |-> IF aura.timed THEN t.timed \cup {s} ELSE t.timed \ {s}]

HasAura(g, spell) == spell \in table[g].active

SlotsWith(t, spell) == {s \in Slots : t.slots[s] = spell}

AuraStacks(g, spell) ==
  Max({0} \cup {table[g].stacks[s] : s \in SlotsWith(table[g], spell)})

\* The slots whose duration AuraDuration may return: it ranges over a Go map, in no
\* fixed order, and returns the first duration it meets.
AuraDurationFrom(g, spell) == SlotsWith(table[g], spell) \cap table[g].timed

-----------------------------------------------------------------------------
(***************************************************************************)
(* The server (external).                                                  *)
(***************************************************************************)

Send(kind, g, carries, now) ==
  /\ sent < MaxMessages
  /\ sent' = sent + 1
  /\ told' = now
  /\ net' = Append(net, [kind |-> kind, guid |-> g, carries |-> carries, now |-> now])

\* Some slots of a visible object change, in one SMSG_AURA_UPDATE.
ServerUpdate(g) ==
  /\ g \in visible
  /\ \E list \in AuraLists :
       LET changed == {s \in Slots : list[s] # told[g][s]}
       IN  /\ changed # {}
           /\ Send("update", g, changed, [told EXCEPT ![g] = list])
  /\ UNCHANGED visible

\* A full list, for an object that enters the player's sight or is refreshed in it.
ServerList(g) ==
  /\ \E list \in AuraLists :
       Send("all", g, {s \in Slots : list[s] # NoAura}, [told EXCEPT ![g] = list])
  /\ visible' = visible \cup {g}

\* Out of range, or destroyed.
ServerRemove(g) ==
  /\ g \in visible
  /\ Send("out", g, {}, [told EXCEPT ![g] = Bare])
  /\ visible' = visible \ {g}

\* SMSG_NEW_WORLD; the player sees nothing until the new map describes it.
ServerNewWorld(g) ==
  /\ visible # {}
  /\ Send("world", g, {}, [h \in Guids |-> Bare])
  /\ visible' = {}

ServerStep ==
  /\ \E g \in Guids :
       ServerUpdate(g) \/ ServerList(g) \/ ServerRemove(g) \/ ServerNewWorld(g)
  /\ UNCHANGED <<tracked, table, work, seen>>

-----------------------------------------------------------------------------
(***************************************************************************)
(* The read loop.                                                          *)
(***************************************************************************)

\* A handler runs to its end before the next message is read.
Read(kind) ==
  /\ work = Idle
  /\ net # <<>>
  /\ Head(net).kind = kind
  /\ net' = Tail(net)
  /\ UNCHANGED serverVars

\* handleAuraUpdate: the object is looked up or created, then slots follow.
AuraUpdate ==
  /\ Read("update")
  /\ tracked' = tracked \cup {Head(net).guid}
  /\ work' = Head(net)
  /\ UNCHANGED <<table, seen>>

\* Mutant: the list is merged into what the object already holds.
AuraUpdateAllMerges ==
  /\ Read("all")
  /\ tracked' = tracked \cup {Head(net).guid}
  /\ work' = Head(net)
  /\ UNCHANGED <<table, seen>>

\* handleAuraUpdateAll: likewise, after clearAuras.
AuraUpdateAll ==
  /\ Read("all")
  /\ tracked' = tracked \cup {Head(net).guid}
  /\ table' = [table EXCEPT ![Head(net).guid] = EmptyTable]
  /\ work' = Head(net)
  /\ UNCHANGED seen

\* One turn of the loop of either handler: parseAuraSlotUpdate, setAuraForSlot.
ApplySlot ==
  /\ work # Idle
  /\ \E s \in work.carries :
       /\ table' = [table EXCEPT ![work.guid] = SetAura(@, s, work.now[work.guid][s])]
       /\ work' = [work EXCEPT !.carries = @ \ {s}]
  /\ UNCHANGED <<serverVars, net, tracked, seen>>

\* The packet is exhausted.
HandlerReturns ==
  /\ work # Idle
  /\ work.carries = {}
  /\ work' = Idle
  /\ seen' = work.now
  /\ UNCHANGED <<serverVars, net, tracked, table>>

\* Mutant: the object stays in the cache, bare.
RemoveObjectKeeps ==
  /\ Read("out")
  /\ table' = [table EXCEPT ![Head(net).guid] = EmptyTable]
  /\ seen' = Head(net).now
  /\ UNCHANGED <<tracked, work>>

\* removeObject clears the auras and drops the object under objectsMu.
RemoveObject ==
  /\ Read("out")
  /\ tracked' = tracked \ {Head(net).guid}
  /\ table' = [table EXCEPT ![Head(net).guid] = EmptyTable]
  /\ seen' = Head(net).now
  /\ UNCHANGED work

\* handleNewWorld replaces the whole map.
NewWorld ==
  /\ Read("world")
  /\ tracked' = {}
  /\ table' = [g \in Guids |-> EmptyTable]
  /\ seen' = Head(net).now
  /\ UNCHANGED work

ReadLoopStep ==
  \/ AuraUpdate
  \/ AuraUpdateAll
  \/ ApplySlot
  \/ HandlerReturns
  \/ RemoveObject
  \/ NewWorld

Next == ServerStep \/ ReadLoopStep

Spec == Init /\ [][Next]_vars

-----------------------------------------------------------------------------
(***************************************************************************)
(* Properties                                                              *)
(***************************************************************************)

TypeOK ==
  /\ told \in [Guids -> AuraLists]
  /\ visible \subseteq Guids
  /\ sent \in Nat
  /\ net \in Seq(Messages)
  /\ tracked \subseteq Guids
  /\ table \in [Guids -> Tables]
  /\ work \in Messages \cup {Idle}
  /\ seen \in [Guids -> AuraLists]

\* The redundant maps of an object agree whenever aurasMu is free: the set HasAura
\* answers from is the spells the slots hold, an occupied slot has a stack count of
\* at least one, and only an occupied slot has a duration.
Agree(t) ==
  /\ t.active = {t.slots[s] : s \in Slots} \ {NoSpell}
  /\ \A s \in Slots : t.stacks[s] = 0 <=> t.slots[s] = NoSpell
  /\ \A s \in t.timed : t.slots[s] # NoSpell

MapsAgree == \A g \in Guids : Agree(table[g])

\* What the maps of an object say of slot s when the server's list has aura there.
Shows(t, s, aura) ==
  /\ t.slots[s] = aura.spell
  /\ aura # NoAura => t.stacks[s] = StackCount(aura)
  /\ s \in t.timed <=> aura.timed

\* While an incremental update is applied, a slot it does not carry shows what the
\* server last said of it, and HasAura answers for its spell: replacing or removing
\* one of several applications of a spell never hides the others.
UpdateLeavesOthers ==
  work # Idle /\ work.kind = "update" =>
    \A s \in Slots :
      LET aura == work.now[work.guid][s]
      IN  aura = seen[work.guid][s] /\ aura # NoAura =>
            HasAura(work.guid, aura.spell) /\ Shows(table[work.guid], s, aura)

\* Once everything sent has been applied, the queries answer from the server's list:
\* HasAura, AuraStacks and AuraDuration see exactly the slots that hold the spell
\* there.
MirrorsServer ==
  net = <<>> /\ work = Idle =>
    \A g \in Guids, spell \in Spells :
      LET holders == {s \in Slots : told[g][s].spell = spell}
      IN  /\ HasAura(g, spell) <=> holders # {}
          /\ AuraStacks(g, spell) = Max({0} \cup {StackCount(told[g][s]) : s \in holders})
          /\ AuraDurationFrom(g, spell) = {s \in holders : told[g][s].timed}

\* Likewise the cache then holds the objects the player sees and no other: a late aura
\* message never brings back an object that was removed.
CacheIsWhatIsSeen == net = <<>> /\ work = Idle => tracked = visible

=============================================================================
