----------------------------- MODULE PacketHooks -----------------------------
(***************************************************************************)
(* What the read loop stores and whom it tells (client/hooks.go, trade.go, *)
(* loot_roll.go, battleground.go and the group handlers of world.go).      *)
(*                                                                         *)
(* Each packet is first shown to the hooks for raw packets.  Its handler   *)
(* then stores what it says under a mutex of its own and calls the hooks   *)
(* of its family, from a copy made under cbMu and with no lock held: any   *)
(* caller adds and cancels hooks, and clears what is stored, between two   *)
(* calls.  A step is a section under one mutex, or the call of one hook.   *)
(* A packet is its number in the stream; what it says is kept only as far  *)
(* as the handlers tell it apart.  The single legacy callbacks (OnPacket,  *)
(* OnTradeStatus, ...), called after the hooks, are not part of it.        *)
(***************************************************************************)
EXTENDS Naturals, FiniteSets, SequencesExt

CONSTANTS
  Hooks,        \* calls of an Add...Hook function
  Notices,      \* families whose packets are told and not stored
  Streams,      \* bound: the sets of packet kinds a session may be sent
  MaxRolls,     \* bound: loot rolls of the session
  RollBound,    \* how many rolls are remembered, 32
  MaxPackets    \* bound: packets read

\* The kinds of packets that have hooks.
Families == {"packet", "trade", "battlefield", "start", "won", "passed", "group"} \cup Notices

ASSUME RollAssumption == RollBound \in Nat \ {0} /\ MaxRolls \in Nat
ASSUME PacketsAssumption == MaxPackets \in Nat
ASSUME NoticesAssumption ==
  Notices \cap {"packet", "short", "joined", "trade", "battlefield", "start", "won", "passed", "group"} = {}

\* A roll (an item GUID and a slot) is its number in the order they are started.
Rolls == 1 .. MaxRolls

VARIABLES
  read,        \* packets read so far
  packet,      \* the packet in hand
  phase,       \* what is left of it: "handle", "copy" the hooks, "call" them
  toCall,      \* the copied hooks not called yet
  registered,  \* the registry of each family
  hook,        \* per call of Add...Hook: "new", "on", "off"
  family,      \* the family each of them adds to
  stream,      \* the kinds of packets of this session
  trade,       \* the packet lastTradeStatus is from, and tradeOpen
  statuses,    \* the packets battlefieldStatuses are from
  joined,      \* the packet lastBattlegroundJoinResult is from, 0 when unseen
  group,       \* the packet w.group is from
  rolls,       \* w.activeRolls
  state,       \* external: per roll, "new", "open", "decided"
  owed,        \* history: the hooks the packet in hand is to be shown to
  entitled,    \* history: those and the ones added since it was read
  called,      \* history: the hooks called for the packet in hand
  drained,     \* history: the packets read at the last drain
  due,         \* history: the rolls started, not decided and not cleared
  later        \* history: per roll, the rolls started after it

loopVars == <<read, packet, phase, toCall, state, called>>
rollVars == <<rolls, due, later>>
fieldVars == <<statuses, joined, drained>>
storeVars == <<trade, group, fieldVars, rollVars>>
hookVars == <<registered, hook, family, stream, owed, entitled>>
hooksVars == <<loopVars, storeVars, hookVars>>

Nothing == [family |-> "packet", roll |-> 0, opens |-> FALSE, decisive |-> FALSE]

HooksInit ==
  /\ read = 0 /\ packet = Nothing /\ phase = "call" /\ toCall = <<>>
  /\ registered = [f \in Families |-> <<>>]
  /\ hook = [h \in Hooks |-> "new"]
  /\ stream \in Streams
  /\ family \in [Hooks -> {"packet"} \cup (stream \cap Families)]
  /\ trade = [at |-> 0, open |-> FALSE]
  /\ statuses = <<>> /\ joined = 0 /\ group = 0 /\ rolls = <<>>
  /\ state = [r \in Rolls |-> "new"]
  /\ owed = {} /\ entitled = {} /\ called = <<>>
  /\ drained = 0 /\ due = <<>> /\ later = [r \in Rolls |-> 0]

-----------------------------------------------------------------------------
(* The callers. *)

\* The filters compare ids, which no two entries share: one entry leaves at most.
Without(s, x) == IF x \in ToSet(s) THEN RemoveAt(s, CHOOSE i \in DOMAIN s : s[i] = x) ELSE s

Belongs(h, p) == family[h] \in {"packet", p.family}

AddHook(h) ==
  /\ hook[h] = "new"
  /\ hook' = [hook EXCEPT ![h] = "on"]
  /\ registered' = [registered EXCEPT ![family[h]] = Append(@, h)]
  /\ entitled' = entitled \cup {h}
  /\ UNCHANGED <<loopVars, storeVars, family, stream, owed>>

Unregister(h) ==
  /\ hook[h] = "on"
  /\ hook' = [hook EXCEPT ![h] = "off"]
  /\ registered' = [registered EXCEPT ![family[h]] = Without(@, h)]
  /\ owed' = owed \ {h}
  /\ UNCHANGED <<read, packet, phase, state, called, storeVars, family, stream, entitled>>

\* The filter of the cancel function works in the array of the registry: the entries
\* of a copy that shared the array would move.
CancelShared(h) ==
  /\ Unregister(h)
  /\ LET old == registered[family[h]]
         array == registered'[family[h]] \o <<old[Len(old)]>>
     IN  toCall' = IF family[h] = packet.family /\ phase = "call" /\ Len(toCall) < Len(array)
                   THEN SubSeq(array, Len(array) - Len(toCall) + 1, Len(array)) ELSE toCall

(* The cancel function, which sync.Once lets through one time. *)
CancelHook(h) == Unregister(h) /\ UNCHANGED toCall

ClearActiveLootRolls ==
  /\ rolls' = <<>> /\ due' = <<>>
  /\ UNCHANGED <<loopVars, hookVars, trade, group, fieldVars, later>>

DrainBattlefieldStatuses ==
  /\ statuses' = <<>> /\ joined' = 0 /\ drained' = read
  /\ UNCHANGED <<loopVars, hookVars, trade, group, rollVars>>

CallerStep ==
  \/ \E h \in Hooks : AddHook(h) \/ CancelHook(h)
  \/ ClearActiveLootRolls
  \/ DrainBattlefieldStatuses

-----------------------------------------------------------------------------
(* The read loop. *)

(* What the server may send next: a roll is started once, and decided while it *)
(* is open.  A trade status opens or closes the window, or does neither.       *)
Sendable ==
  [family : {"trade"}, roll : {0}, opens : BOOLEAN, decisive : {TRUE}]
  \cup [family : {"trade", "battlefield", "joined", "group", "short"} \cup Notices,
        roll : {0}, opens : {FALSE}, decisive : {FALSE}]
  \cup [family : {"start"},
        roll : {r \in Rolls : state[r] = "new" /\ (r > 1 => state[r - 1] # "new")},
        opens : {FALSE}, decisive : {FALSE}]
  \cup [family : {"won", "passed"}, roll : {r \in Rolls : state[r] = "open"},
        opens : {FALSE}, decisive : {FALSE}]

Between == phase = "call" /\ toCall = <<>>

(* handlePacket begins with the hooks for raw packets. *)
ReadPacket ==
  /\ Between /\ read < MaxPackets
  /\ read' = read + 1 /\ phase' = "handle"
  /\ packet' \in {p \in Sendable : p.family \in stream}
  /\ state' = [r \in Rolls |-> IF r # packet'.roll THEN state[r]
                              ELSE IF packet'.family = "start" THEN "open" ELSE "decided"]
  /\ toCall' = registered["packet"] /\ called' = <<>>
  /\ owed' = {h \in Hooks : hook[h] = "on" /\ Belongs(h, packet')}
  /\ entitled' = {h \in Hooks : hook[h] = "on"}
  /\ UNCHANGED <<storeVars, registered, hook, family, stream>>

CallHook ==
  /\ toCall # <<>>
  /\ called' = Append(called, Head(toCall))
  /\ toCall' = Tail(toCall)
  /\ UNCHANGED <<read, packet, phase, state, storeVars, hookVars>>

Handling(f) ==
  /\ phase = "handle" /\ toCall = <<>> /\ packet.family = f
  /\ UNCHANGED <<read, packet, toCall, state, called, hookVars>>

Then(p) == phase' = p

(* A packet too short for what it announces is dropped. *)
HandleShort ==
  /\ Handling("short") /\ Then("call")
  /\ UNCHANGED storeVars

HandleTradeStatusDecisive ==
  /\ Handling("trade") /\ Then("copy")
  /\ trade' = IF packet.decisive THEN [at |-> read, open |-> packet.opens] ELSE trade
  /\ UNCHANGED <<group, fieldVars, rollVars>>

HandleTradeStatus ==
  /\ Handling("trade") /\ Then("copy")
  /\ trade' = [at |-> read, open |-> IF packet.decisive THEN packet.opens ELSE trade.open]
  /\ UNCHANGED <<group, fieldVars, rollVars>>

HandleBattlefieldStatus ==
  /\ Handling("battlefield") /\ Then("copy")
  /\ statuses' = Append(statuses, read)
  /\ UNCHANGED <<trade, joined, drained, group, rollVars>>

HandleGroupJoinedBattleground ==
  /\ Handling("joined") /\ Then("call")
  /\ joined' = read
  /\ UNCHANGED <<trade, statuses, drained, group, rollVars>>

(* handleGroupList and handleGroupDestroyed. *)
HandleGroupList ==
  /\ Handling("group") /\ Then("copy")
  /\ group' = read
  /\ UNCHANGED <<trade, fieldVars, rollVars>>

Oldest(s) == IF Len(s) > RollBound THEN SubSeq(s, 1, RollBound) ELSE s

Newest(s) == IF Len(s) > RollBound THEN SubSeq(s, Len(s) - RollBound + 1, Len(s)) ELSE s

HandleLootStartRoll ==
  /\ Handling("start") /\ Then("copy")
  /\ rolls' = Newest(Append(rolls, packet.roll))
  /\ due' = Append(due, packet.roll)
  /\ later' = [r \in Rolls |-> IF r \in ToSet(due) THEN later[r] + 1 ELSE 0]
  /\ UNCHANGED <<trade, fieldVars, group>>

(* handleLootRollWon and handleLootAllPassed. *)
HandleLootDecided ==
  /\ \E f \in {"won", "passed"} : Handling(f)
  /\ Then("copy")
  /\ rolls' = Without(rolls, packet.roll)
  /\ due' = Without(due, packet.roll)
  /\ UNCHANGED <<trade, fieldVars, group, later>>

(* A vote, an invitation, a decline, an opened corpse, the start or the result  *)
(* of a cast.                                                                   *)
HandleNotice ==
  /\ \E f \in Notices : Handling(f)
  /\ Then("copy")
  /\ UNCHANGED storeVars

CopyHooks(f) ==
  /\ phase = "copy" /\ packet.family = f /\ Then("call")
  /\ toCall' = registered[f]
  /\ UNCHANGED <<read, packet, state, called, storeVars, hookVars>>

InvokeTradeStatusHooks == CopyHooks("trade")
InvokeBattlefieldStatusHooks == CopyHooks("battlefield")
InvokeLootStartRollHooks == CopyHooks("start")
InvokeLootRollWonHooks == CopyHooks("won")
InvokeLootAllPassedHooks == CopyHooks("passed")
InvokeGroupListHooks == CopyHooks("group")
InvokeNoticeHooks == \E f \in Notices : CopyHooks(f)

LoopStep ==
  \/ ReadPacket \/ CallHook
  \/ HandleShort \/ HandleTradeStatus \/ HandleBattlefieldStatus
  \/ HandleGroupJoinedBattleground \/ HandleGroupList
  \/ HandleLootStartRoll \/ HandleLootDecided \/ HandleNotice
  \/ InvokeTradeStatusHooks \/ InvokeBattlefieldStatusHooks \/ InvokeLootStartRollHooks
  \/ InvokeLootRollWonHooks \/ InvokeLootAllPassedHooks \/ InvokeGroupListHooks
  \/ InvokeNoticeHooks

HooksNext == CallerStep \/ LoopStep

HooksSpec == HooksInit /\ [][HooksNext]_hooksVars

-----------------------------------------------------------------------------
HooksTypeOK ==
  /\ read \in 0 .. MaxPackets
  /\ packet.roll \in Rolls \cup {0} /\ packet.opens \in BOOLEAN /\ packet.decisive \in BOOLEAN
  /\ packet.family \in Families \cup {"joined", "short"}
  /\ packet.family = "start" => packet.roll \in Rolls
  /\ phase \in {"handle", "copy", "call"}
  /\ toCall \in Seq(Hooks) /\ called \in Seq(Hooks)
  /\ registered \in [Families -> Seq(Hooks)]
  /\ hook \in [Hooks -> {"new", "on", "off"}] /\ family \in [Hooks -> Families]
  /\ owed \subseteq Hooks /\ entitled \subseteq Hooks
  /\ trade \in [at : 0 .. MaxPackets, open : BOOLEAN]
  /\ statuses \in Seq(0 .. MaxPackets)
  /\ joined \in 0 .. MaxPackets /\ group \in 0 .. MaxPackets /\ drained \in 0 .. MaxPackets
  /\ rolls \in Seq(Rolls) /\ Len(rolls) <= RollBound
  /\ due \in Seq(Rolls) /\ later \in [Rolls -> Nat]
  /\ state \in [Rolls -> {"new", "open", "decided"}]

(* Each packet is shown to every hook that was there when it was read and is   *)
(* not cancelled meanwhile, to each once, and to none that was cancelled before *)
(* or is of another family - however others, or a hook that is being called,   *)
(* add and cancel hooks during the calls.                                      *)
HooksSeeAll ==
  /\ IsInjective(called)
  /\ \A h \in ToSet(called) : h \in entitled /\ Belongs(h, packet)
  /\ Between => owed \subseteq ToSet(called)

(* Whoever is told of a packet finds it stored: the trade status, the group,   *)
(* the start of a roll, and the battlefield status; unless the callers dropped *)
(* it meanwhile.                                                               *)
StoredBeforeTold ==
  \A h \in ToSet(called) :
    CASE family[h] = "trade" -> trade.at = read
      [] family[h] = "group" -> group = read
      [] family[h] = "battlefield" -> read \in ToSet(statuses) \/ drained = read
      [] family[h] = "start" -> packet.roll \in ToSet(rolls) \/ packet.roll \notin ToSet(due)
      [] OTHER -> TRUE

(* The cache of loot rolls holds the newest of the rolls that are still open,  *)
(* in the order they were started, and loses one to its bound only when as     *)
(* many were started after it as the bound allows.                             *)
OpenRollsAreListed ==
  /\ \E k \in 0 .. Len(due) : rolls = SubSeq(due, k + 1, Len(due))
  /\ \A r \in ToSet(due) : later[r] < RollBound => r \in ToSet(rolls)
=============================================================================
