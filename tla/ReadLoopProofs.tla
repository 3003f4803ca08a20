------------------------- MODULE ReadLoopProofs -------------------------
(***************************************************************************)
(* Proofs about what the read loop stores: AuraTable, for any objects,     *)
(* slots, spells and auras and any number of messages, and SpellBook, for  *)
(* any spells and any number of packets.                                   *)
(*                                                                         *)
(* The argument replays the stream.  Chain says that each message in       *)
(* flight describes what the one before it described, changed as its kind  *)
(* allows; Progress says how much of the message in hand is in the maps.   *)
(* Together they tell what the maps show after every slot.  For the        *)
(* objects of the cache, the spells and the cooldowns only the last packet *)
(* that tells of an item matters: Delivers says so of one item.            *)
(***************************************************************************)
EXTENDS AuraTable, SpellBook, TLAPS

-----------------------------------------------------------------------------
(***************************************************************************)
(* A set that a FIFO stream keeps up to date.                              *)
(***************************************************************************)

\* If x is in truth, then it is in view once the packets of q are handled, where a packet
\* of adds puts it there and a packet of drops takes it away: it is there or some packet
\* adds it, and every packet that drops it is followed by one that adds it.
Delivers(q, adds, drops, x, truth, view) ==
  x \in truth =>
    /\ x \in view \/ \E i \in 1 .. Len(q) : q[i] \in adds
    /\ \A i \in 1 .. Len(q) : q[i] \in drops => \E j \in i + 1 .. Len(q) : q[j] \in adds

\* A packet is sent that tells of what it changes.
LEMMA DeliversSent ==
  ASSUME NEW P, NEW q \in Seq(P), NEW p \in P, NEW adds, NEW drops, NEW x,
         NEW truth, NEW truth2, NEW view,
         Delivers(q, adds, drops, x, truth, view),
         x \in truth2 => p \notin drops /\ (p \in adds \/ x \in truth)
  PROVE  Delivers(Append(q, p), adds, drops, x, truth2, view)
<1> DEFINE r == Append(q, p)
<1>1. /\ Len(r) = Len(q) + 1 /\ r[Len(q) + 1] = p /\ Len(q) \in Nat
      /\ \A i \in 1 .. Len(q) : r[i] = q[i]
  OBVIOUS
<1> HIDE DEF r
<1>2. CASE p \in adds
  <2>1. x \in truth2 => \A i \in 1 .. Len(r) : r[i] \in drops => i # Len(r)
    BY <1>1
  <2> QED
    BY <1>1, <1>2, <2>1 DEF Delivers, r
<1>3. CASE p \notin adds
  BY <1>1, <1>3 DEF Delivers, r
<1> QED
  BY <1>2, <1>3

\* The first packet is handled.
LEMMA DeliversRead ==
  ASSUME NEW P, NEW q \in Seq(P), q # <<>>, NEW adds, NEW drops, NEW x,
         NEW truth, NEW view, NEW view2,
         Delivers(q, adds, drops, x, truth, view),
         Head(q) \in adds => x \in view2,
         Head(q) \notin drops /\ x \in view => x \in view2
  PROVE  Delivers(Tail(q), adds, drops, x, truth, view2)
<1> DEFINE r == Tail(q)
<1>1. /\ Len(q) = Len(r) + 1 /\ q[1] = Head(q) /\ Len(r) \in Nat
      /\ \A i \in 1 .. Len(r) : r[i] = q[i + 1]
  OBVIOUS
<1>2. \A i \in 1 .. Len(q) : i = 1 \/ (i - 1 \in 1 .. Len(r) /\ r[i - 1] = q[i])
  BY <1>1
<1> HIDE DEF r
<1> SUFFICES ASSUME x \in truth
             PROVE  /\ x \in view2 \/ \E i \in 1 .. Len(r) : r[i] \in adds
                    /\ \A i \in 1 .. Len(r) : r[i] \in drops =>
                         \E j \in i + 1 .. Len(r) : r[j] \in adds
  BY DEF Delivers, r
<1>3. x \in view2 \/ \E i \in 1 .. Len(r) : r[i] \in adds
  <2>1. CASE Head(q) \in drops
    <3>1. PICK j \in 2 .. Len(q) : q[j] \in adds
      BY <1>1, <2>1 DEF Delivers
    <3> QED
      BY <1>1, <1>2, <3>1
  <2>2. CASE Head(q) \notin drops /\ x \notin view
    <3>1. PICK j \in 1 .. Len(q) : q[j] \in adds
      BY <2>2 DEF Delivers
    <3> QED
      BY <1>1, <1>2, <3>1
  <2> QED
    BY <2>1, <2>2
<1>4. ASSUME NEW i \in 1 .. Len(r), r[i] \in drops
      PROVE  \E j \in i + 1 .. Len(r) : r[j] \in adds
  <2>1. i + 1 \in 1 .. Len(q) /\ q[i + 1] \in drops
    BY <1>1, <1>4
  <2>2. PICK j \in i + 2 .. Len(q) : q[j] \in adds
    BY <2>1, <1>1 DEF Delivers
  <2> QED
    BY <1>1, <1>2, <2>2
<1> QED
  BY <1>3, <1>4

-----------------------------------------------------------------------------
(***************************************************************************)
(* The auras.                                                              *)
(***************************************************************************)

\* What the client has been told once the message in hand is applied.
InHand == IF work = Idle THEN seen ELSE work.now

\* What it has been told when message i of the queue is reached, hand being what it has
\* been told before the queue.
Before(hand, queue, i) == IF i = 1 THEN hand ELSE queue[i - 1].now

\* Message m describes prev, changed as its kind allows.
Follows(prev, m) ==
  /\ \A g \in Guids : m.kind # "world" /\ g # m.guid => m.now[g] = prev[g]
  /\ \A s \in Slots : m.kind = "update" /\ s \notin m.carries =>
       m.now[m.guid][s] = prev[m.guid][s]
  /\ \A s \in Slots : m.kind = "all" /\ s \notin m.carries => m.now[m.guid][s] = NoAura
  /\ m.kind = "out" => m.now[m.guid] = Bare
  /\ m.kind = "world" => m.now = [h \in Guids |-> Bare]

Chain ==
  /\ \A i \in 1 .. Len(net) : Follows(Before(InHand, net, i), net[i])
  /\ told = Before(InHand, net, Len(net) + 1)

\* The aura that slot s of object g shows while a message is applied.
Showing(g, s) ==
  IF work = Idle THEN seen[g][s]
  ELSE IF g # work.guid THEN seen[g][s]
  ELSE IF s \notin work.carries THEN work.now[g][s]
  ELSE IF work.kind = "update" THEN seen[g][s]
  ELSE NoAura

Progress ==
  /\ \A g \in Guids, s \in Slots : Shows(table[g], s, Showing(g, s))
  /\ work # Idle =>
       /\ work.kind \in {"update", "all"}
       /\ \A g \in Guids \ {work.guid} : work.now[g] = seen[g]

IInv == TypeOK /\ Chain /\ MapsAgree /\ Progress

-----------------------------------------------------------------------------
(***************************************************************************)
(* The state of one object.                                                *)
(***************************************************************************)

\* The empty maps agree, and show no aura.
LEMMA EmptyIsBare ==
  /\ EmptyTable \in Tables
  /\ Agree(EmptyTable)
  /\ \A s \in Slots : Shows(EmptyTable, s, NoAura) /\ Bare[s] = NoAura
  /\ Bare \in AuraLists
BY SpellAssumption DEF EmptyTable, Tables, Agree, Shows, NoAura, Bare, AuraLists

\* setAuraForSlot keeps the maps in agreement, shows the aura in its slot and changes
\* no other slot.
LEMMA SetAuraWorks ==
  ASSUME NEW t \in Tables, Agree(t), NEW s \in Slots, NEW aura \in Auras \cup {NoAura}
  PROVE  /\ SetAura(t, s, aura) \in Tables
         /\ Agree(SetAura(t, s, aura))
         /\ Shows(SetAura(t, s, aura), s, aura)
         /\ \A q \in Slots \ {s}, x \in Auras \cup {NoAura} :
              Shows(t, q, x) => Shows(SetAura(t, s, aura), q, x)
<1> DEFINE u == SetAura(t, s, aura)
<1>1. /\ aura.spell \in Spells \cup {NoSpell}
      /\ aura.spell = NoSpell <=> aura = NoAura
      /\ StackCount(aura) \in Nat \ {0}
      /\ aura = NoAura => aura.timed = FALSE
  <2>1. CASE aura \in Auras
    <3>1. aura.spell \in Spells /\ aura.charges \in Nat
      BY <2>1, AurasAssumption
    <3> QED
      BY <3>1, SpellAssumption DEF NoAura, StackCount
  <2>2. CASE aura = NoAura
    BY <2>2 DEF NoAura, StackCount
  <2> QED
    BY <2>1, <2>2
<1>2. /\ u.slots = [t.slots EXCEPT ![s] = aura.spell]
      /\ u.stacks = [t.stacks EXCEPT ![s] = IF aura = NoAura THEN 0 ELSE StackCount(aura)]
      /\ u.timed = IF aura # NoAura /\ aura.timed THEN t.timed \cup {s} ELSE t.timed \ {s}
  BY <1>1 DEF SetAura
<1>3. u.active = {u.slots[q] : q \in Slots} \ {NoSpell}
  <2> DEFINE held == HeldElsewhere(t, s)
  <2>1. t.active = (held \cup {t.slots[s]}) \ {NoSpell}
    BY DEF Agree, HeldElsewhere, Tables
  <2>2. {u.slots[q] : q \in Slots} = held \cup {aura.spell}
    BY <1>2 DEF HeldElsewhere, Tables
  <2>3. u.active = LET active == t.active \ ({t.slots[s]} \ (held \cup {aura.spell}))
                   IN  IF aura.spell = NoSpell THEN active ELSE active \cup {aura.spell}
    BY DEF SetAura
  <2> QED
    BY <2>1, <2>2, <2>3
<1>4. u \in Tables
  <2>1. u.active \subseteq Spells
    BY <1>1, <1>2, <1>3 DEF Tables
  <2>2. /\ u.slots \in [Slots -> Spells \cup {NoSpell}]
        /\ u.stacks \in [Slots -> Nat]
        /\ u.timed \subseteq Slots
    BY <1>1, <1>2 DEF Tables
  <2> QED
    BY <2>1, <2>2 DEF SetAura, Tables
<1>5. Agree(u)
  BY <1>1, <1>2, <1>3 DEF Agree, Tables
<1>6. Shows(u, s, aura)
  BY <1>1, <1>2 DEF Shows, Tables, NoAura
<1>7. ASSUME NEW q \in Slots \ {s}, NEW x \in Auras \cup {NoAura}, Shows(t, q, x)
      PROVE  Shows(u, q, x)
  BY <1>2, <1>7 DEF Shows, Tables
<1> QED
  BY <1>4, <1>5, <1>6, <1>7

-----------------------------------------------------------------------------
(***************************************************************************)
(* The stream.                                                             *)
(***************************************************************************)

\* A message is never mistaken for the absence of one.
LEMMA MessagesAreNotIdle == \A m \in Messages : m # Idle
BY DEF Messages, Idle

\* The types of what is in hand and at the head of the stream.
LEMMA StreamTypes ==
  ASSUME TypeOK
  PROVE  /\ InHand \in [Guids -> AuraLists]
         /\ net # <<>> => Head(net) \in Messages /\ Head(net) = net[1]
         /\ work # Idle => work \in Messages
<1>1. net # <<>> => Head(net) \in Messages /\ Head(net) = net[1]
  BY DEF TypeOK
<1>2. work # Idle => work \in Messages /\ work.now \in [Guids -> AuraLists]
  BY DEF TypeOK, Messages
<1> QED
  BY <1>1, <1>2 DEF InHand, TypeOK

\* Sending a message that follows what the client was told extends the chain.
LEMMA SendExtends ==
  ASSUME IInv,
         NEW kind \in {"update", "all", "out", "world"}, NEW g \in Guids,
         NEW carries \in SUBSET Slots, NEW now \in [Guids -> AuraLists],
         Send(kind, g, carries, now),
         Follows(told, [kind |-> kind, guid |-> g, carries |-> carries, now |-> now]),
         visible' \subseteq Guids,
         UNCHANGED <<tracked, table, work, seen>>
  PROVE  IInv'
<1> DEFINE m == [kind |-> kind, guid |-> g, carries |-> carries, now |-> now]
<1>1. m \in Messages /\ net' = Append(net, m) /\ told' = now /\ net \in Seq(Messages)
  BY DEF Send, Messages, IInv, TypeOK
<1>2. TypeOK'
  BY <1>1 DEF Send, IInv, TypeOK
<1>3. /\ Len(net') = Len(net) + 1 /\ Len(net) \in Nat
      /\ \A i \in 1 .. Len(net) : net'[i] = net[i]
      /\ net'[Len(net) + 1] = m
  BY <1>1
<1>4. InHand' = InHand
  BY DEF InHand
<1>5. \A i \in 1 .. Len(net) + 1 : Before(InHand', net', i) = Before(InHand, net, i)
  <2> SUFFICES ASSUME NEW i \in 1 .. Len(net) + 1
               PROVE  (IF i = 1 THEN InHand' ELSE net'[i - 1].now)
                        = IF i = 1 THEN InHand ELSE net[i - 1].now
    BY DEF Before
  <2>1. i # 1 => i - 1 \in 1 .. Len(net)
    BY <1>3
  <2> QED
    BY <2>1, <1>3, <1>4
<1>6. \A i \in 1 .. Len(net) + 1 : Follows(Before(InHand', net', i), net'[i])
  <2> SUFFICES ASSUME NEW i \in 1 .. Len(net) + 1
               PROVE  Follows(Before(InHand', net', i), net'[i])
    OBVIOUS
  <2>1. CASE i = Len(net) + 1
    BY <2>1, <1>3, <1>5 DEF IInv, Chain
  <2>2. CASE i \in 1 .. Len(net)
    BY <2>2, <1>3, <1>5 DEF IInv, Chain
  <2> QED
    BY <2>1, <2>2, <1>3
<1>7. told' = Before(InHand', net', Len(net') + 1)
  <2>1. Len(net') + 1 # 1 /\ (Len(net') + 1) - 1 = Len(net) + 1
    BY <1>3
  <2>2. Before(InHand', net', Len(net') + 1) = net'[Len(net) + 1].now
    BY <2>1 DEF Before
  <2> QED
    BY <2>2, <1>1, <1>3
<1>8. Chain'
  BY <1>3, <1>6, <1>7 DEF Chain, Follows
<1>9. MapsAgree' /\ Progress'
  BY DEF IInv, MapsAgree, Progress, Showing
<1> QED
  BY <1>2, <1>8, <1>9 DEF IInv

\* Taking the first message in hand shortens the chain.
LEMMA ReadShortens ==
  ASSUME TypeOK, Chain, net # <<>>, net' = Tail(net), told' = told,
         InHand' = Head(net).now
  PROVE  Chain'
<1>1. /\ Len(net) \in Nat \ {0}
      /\ Len(net') = Len(net) - 1
      /\ \A i \in 1 .. Len(net') : net'[i] = net[i + 1]
      /\ Head(net) = net[1]
  BY DEF TypeOK
<1>2. \A i \in 1 .. Len(net) : Before(InHand', net', i) = Before(InHand, net, i + 1)
  <2> SUFFICES ASSUME NEW i \in 1 .. Len(net)
               PROVE  (IF i = 1 THEN InHand' ELSE net'[i - 1].now)
                        = IF i + 1 = 1 THEN InHand ELSE net[(i + 1) - 1].now
    BY DEF Before
  <2>1. i + 1 # 1 /\ (i + 1) - 1 = i
    BY <1>1
  <2>2. CASE i = 1
    BY <2>1, <2>2, <1>1
  <2>3. CASE i # 1
    <3>1. i - 1 \in 1 .. Len(net') /\ (i - 1) + 1 = i
      BY <2>3, <1>1
    <3> QED
      BY <3>1, <2>1, <2>3, <1>1
  <2> QED
    BY <2>2, <2>3
<1>3. \A i \in 1 .. Len(net') : Follows(Before(InHand', net', i), net'[i])
  <2> SUFFICES ASSUME NEW i \in 1 .. Len(net')
               PROVE  Follows(Before(InHand', net', i), net'[i])
    OBVIOUS
  <2>1. i \in 1 .. Len(net) /\ i + 1 \in 1 .. Len(net)
    BY <1>1
  <2> QED
    BY <2>1, <1>1, <1>2 DEF Chain
<1>4. told' = Before(InHand', net', Len(net') + 1)
  <2>1. Len(net') + 1 = Len(net) /\ Len(net) \in 1 .. Len(net)
    BY <1>1
  <2> QED
    BY <2>1, <1>2 DEF Chain
<1> QED
  BY <1>3, <1>4 DEF Chain, Follows

-----------------------------------------------------------------------------
(***************************************************************************)
(* Each action preserves the invariant.                                    *)
(***************************************************************************)

LEMMA InvInit == Init => IInv
<1> SUFFICES ASSUME Init PROVE IInv
  OBVIOUS
<1>1. TypeOK
  BY EmptyIsBare DEF Init, TypeOK, Messages
<1>2. Chain
  BY DEF Init, Chain, Before, InHand
<1>3. MapsAgree /\ Progress
  BY EmptyIsBare DEF Init, MapsAgree, Progress, Showing, Idle
<1> QED
  BY <1>1, <1>2, <1>3 DEF IInv

LEMMA InvServer == ASSUME IInv, ServerStep PROVE IInv'
<1>1. told \in [Guids -> AuraLists] /\ visible \subseteq Guids
  BY DEF IInv, TypeOK
<1>2. UNCHANGED <<tracked, table, work, seen>>
  BY DEF ServerStep
<1>3. PICK g \in Guids :
        ServerUpdate(g) \/ ServerList(g) \/ ServerRemove(g) \/ ServerNewWorld(g)
  BY DEF ServerStep
<1>4. CASE ServerUpdate(g)
  <2>1. PICK list \in AuraLists :
          Send("update", g, {s \in Slots : list[s] # told[g][s]}, [told EXCEPT ![g] = list])
    BY <1>4 DEF ServerUpdate
  <2> DEFINE now == [told EXCEPT ![g] = list]
             carries == {s \in Slots : list[s] # told[g][s]}
  <2>2. now \in [Guids -> AuraLists] /\ carries \in SUBSET Slots /\ visible' \subseteq Guids
    BY <1>1, <1>4 DEF ServerUpdate
  <2>3. Follows(told, [kind |-> "update", guid |-> g, carries |-> carries, now |-> now])
    BY <1>1 DEF Follows
  <2> HIDE DEF now, carries
  <2> QED
    BY <1>2, <2>1, <2>2, <2>3, SendExtends DEF now, carries
<1>5. CASE ServerList(g)
  <2>1. PICK list \in AuraLists :
          Send("all", g, {s \in Slots : list[s] # NoAura}, [told EXCEPT ![g] = list])
    BY <1>5 DEF ServerList
  <2> DEFINE now == [told EXCEPT ![g] = list]
             carries == {s \in Slots : list[s] # NoAura}
  <2>2. now \in [Guids -> AuraLists] /\ carries \in SUBSET Slots /\ visible' \subseteq Guids
    BY <1>1, <1>5 DEF ServerList
  <2>3. Follows(told, [kind |-> "all", guid |-> g, carries |-> carries, now |-> now])
    BY <1>1 DEF Follows
  <2> HIDE DEF now, carries
  <2> QED
    BY <1>2, <2>1, <2>2, <2>3, SendExtends DEF now, carries
<1>6. CASE ServerRemove(g)
  <2> DEFINE now == [told EXCEPT ![g] = Bare]
  <2>1. Send("out", g, {}, now) /\ visible' \subseteq Guids
    BY <1>1, <1>6 DEF ServerRemove
  <2>2. now \in [Guids -> AuraLists]
    BY <1>1, EmptyIsBare
  <2>3. Follows(told, [kind |-> "out", guid |-> g, carries |-> {}, now |-> now])
    BY <1>1 DEF Follows
  <2> HIDE DEF now
  <2> QED
    BY <1>2, <2>1, <2>2, <2>3, SendExtends
<1>7. CASE ServerNewWorld(g)
  <2> DEFINE now == [h \in Guids |-> Bare]
  <2>1. Send("world", g, {}, now) /\ visible' \subseteq Guids
    BY <1>7 DEF ServerNewWorld
  <2>2. now \in [Guids -> AuraLists]
    BY EmptyIsBare
  <2>3. Follows(told, [kind |-> "world", guid |-> g, carries |-> {}, now |-> now])
    BY <1>1 DEF Follows
  <2> HIDE DEF now
  <2> QED
    BY <1>2, <2>1, <2>2, <2>3, SendExtends
<1> QED
  BY <1>3, <1>4, <1>5, <1>6, <1>7

\* What every message read from the stream brings about.
LEMMA ReadFacts ==
  ASSUME IInv, NEW kind, Read(kind)
  PROVE  /\ work = Idle /\ net # <<>> /\ net' = Tail(net) /\ told' = told
         /\ Head(net) \in Messages /\ Head(net).kind = kind /\ Head(net) # Idle
         /\ Follows(seen, Head(net))
         /\ net' \in Seq(Messages) /\ visible' = visible /\ sent' = sent
         /\ \A g \in Guids, s \in Slots : Shows(table[g], s, seen[g][s])
<1>1. work = Idle /\ net # <<>> /\ net' = Tail(net) /\ Head(net).kind = kind
  BY DEF Read
<1>2. Head(net) \in Messages /\ Head(net) # Idle /\ Head(net) = net[1]
  BY <1>1, StreamTypes, MessagesAreNotIdle DEF IInv
<1>3. net' \in Seq(Messages) /\ 1 \in 1 .. Len(net)
  BY <1>1 DEF IInv, TypeOK
<1>4. Follows(seen, Head(net))
  BY <1>1, <1>2, <1>3 DEF IInv, Chain, Before, InHand
<1>5. \A g \in Guids, s \in Slots : Shows(table[g], s, seen[g][s])
  BY <1>1 DEF IInv, Progress, Showing
<1> QED
  BY <1>1, <1>2, <1>3, <1>4, <1>5 DEF Read, serverVars

LEMMA InvAuraUpdate == ASSUME IInv, AuraUpdate PROVE IInv'
<1> DEFINE m == Head(net)
<1>1. Read("update") /\ work' = m /\ UNCHANGED <<table, seen>>
      /\ tracked' = tracked \cup {m.guid}
  BY DEF AuraUpdate
<1>2. /\ m \in Messages /\ m.kind = "update" /\ m # Idle /\ Follows(seen, m)
      /\ \A g \in Guids, s \in Slots : Shows(table[g], s, seen[g][s])
  BY <1>1, ReadFacts
<1>3. TypeOK'
  BY <1>1, <1>2, ReadFacts DEF IInv, TypeOK, Messages
<1>4. Chain'
  <2>1. InHand' = m.now
    BY <1>1, <1>2 DEF InHand
  <2> QED
    BY <1>1, <2>1, ReadFacts, ReadShortens DEF IInv
<1>5. MapsAgree'
  BY <1>1 DEF IInv, MapsAgree
<1>6. Progress'
  <2>1. \A g \in Guids \ {m.guid} : m.now[g] = seen[g]
    BY <1>2 DEF Follows
  <2>2. \A s \in Slots : s \notin m.carries => m.now[m.guid][s] = seen[m.guid][s]
    BY <1>2 DEF Follows
  <2>3. \A g \in Guids, s \in Slots : Showing(g, s)' = seen[g][s]
    BY <1>1, <1>2, <2>2 DEF Showing
  <2> QED
    BY <1>1, <1>2, <2>1, <2>3 DEF Progress
<1> QED
  BY <1>3, <1>4, <1>5, <1>6 DEF IInv

LEMMA InvAuraUpdateAll == ASSUME IInv, AuraUpdateAll PROVE IInv'
<1> DEFINE m == Head(net)
<1>1. Read("all") /\ work' = m /\ seen' = seen /\ tracked' = tracked \cup {m.guid}
      /\ table' = [table EXCEPT ![m.guid] = EmptyTable]
  BY DEF AuraUpdateAll
<1>2. /\ m \in Messages /\ m.kind = "all" /\ m # Idle /\ Follows(seen, m)
      /\ \A g \in Guids, s \in Slots : Shows(table[g], s, seen[g][s])
  BY <1>1, ReadFacts
<1>3. /\ m.guid \in Guids
      /\ \A g \in Guids : table'[g] = IF g = m.guid THEN EmptyTable ELSE table[g]
  BY <1>1, <1>2 DEF IInv, TypeOK, Messages
<1>4. TypeOK'
  BY <1>1, <1>2, ReadFacts, EmptyIsBare DEF IInv, TypeOK, Messages
<1>5. Chain'
  <2>1. InHand' = m.now
    BY <1>1, <1>2 DEF InHand
  <2> QED
    BY <1>1, <2>1, ReadFacts, ReadShortens DEF IInv
<1>6. MapsAgree'
  BY <1>3, EmptyIsBare DEF IInv, MapsAgree
<1>7. Progress'
  <2>1. \A g \in Guids \ {m.guid} : m.now[g] = seen[g]
    BY <1>2 DEF Follows
  <2>2. \A s \in Slots : s \notin m.carries => m.now[m.guid][s] = NoAura
    BY <1>2 DEF Follows
  <2>3. \A g \in Guids, s \in Slots :
          Showing(g, s)' = IF g = m.guid THEN NoAura ELSE seen[g][s]
    BY <1>1, <1>2, <2>2 DEF Showing
  <2>4. \A g \in Guids, s \in Slots : Shows(table'[g], s, Showing(g, s)')
    BY <1>2, <1>3, <2>3, EmptyIsBare
  <2> QED
    BY <1>1, <1>2, <2>1, <2>4 DEF Progress, Shows
<1> QED
  BY <1>4, <1>5, <1>6, <1>7 DEF IInv

LEMMA InvApplySlot == ASSUME IInv, ApplySlot PROVE IInv'
<1> DEFINE o == work.guid
<1>1. /\ work # Idle /\ work \in Messages
      /\ UNCHANGED <<told, visible, sent, net, tracked, seen>>
  BY StreamTypes DEF ApplySlot, serverVars, IInv
<1>2. PICK s \in work.carries :
        /\ table' = [table EXCEPT ![o] = SetAura(@, s, work.now[o][s])]
        /\ work' = [work EXCEPT !.carries = @ \ {s}]
  BY DEF ApplySlot
<1>3. /\ o \in Guids /\ s \in Slots /\ work.carries \subseteq Slots
      /\ work.now \in [Guids -> AuraLists]
      /\ work.now[o][s] \in Auras \cup {NoAura}
      /\ table[o] \in Tables /\ Agree(table[o])
  BY <1>1, <1>2 DEF Messages, AuraLists, IInv, TypeOK, MapsAgree
<1> DEFINE new == SetAura(table[o], s, work.now[o][s])
<1>4. /\ new \in Tables /\ Agree(new) /\ Shows(new, s, work.now[o][s])
      /\ \A q \in Slots \ {s}, x \in Auras \cup {NoAura} :
           Shows(table[o], q, x) => Shows(new, q, x)
  BY <1>3, SetAuraWorks
<1>5. \A g \in Guids : table'[g] = IF g = o THEN new ELSE table[g]
  BY <1>2, <1>3 DEF IInv, TypeOK
<1>6. /\ work' \in Messages /\ work'.kind = work.kind /\ work'.guid = o
      /\ work'.now = work.now /\ work'.carries = work.carries \ {s}
  BY <1>1, <1>2 DEF Messages
<1>7. work' # Idle
  BY <1>6, MessagesAreNotIdle
<1> HIDE DEF new
<1>8. TypeOK'
  <2>1. table' \in [Guids -> Tables]
    BY <1>2, <1>3, <1>4 DEF new, IInv, TypeOK
  <2> QED
    BY <2>1, <1>1, <1>6 DEF IInv, TypeOK
<1>9. Chain'
  <2>1. InHand' = InHand
    BY <1>1, <1>6, <1>7 DEF InHand
  <2> QED
    BY <2>1, <1>1 DEF IInv, Chain, Before, Follows
<1>10. MapsAgree'
  BY <1>4, <1>5 DEF IInv, MapsAgree
<1>11. Progress'
  <2>1. ASSUME NEW g \in Guids, NEW q \in Slots
        PROVE  Shows(table'[g], q, Showing(g, q)')
    <3>1. Shows(table[g], q, Showing(g, q)) /\ Showing(g, q) \in Auras \cup {NoAura}
      BY <1>1, <1>3 DEF IInv, Progress, Showing, TypeOK, AuraLists
    <3>2. CASE g # o
      <4>1. Showing(g, q)' = Showing(g, q)
        BY <3>2, <1>1, <1>6, <1>7 DEF Showing
      <4> QED
        BY <4>1, <3>1, <3>2, <1>5
    <3>3. CASE g = o /\ q = s
      <4>1. Showing(g, q)' = work.now[o][s]
        BY <3>3, <1>2, <1>6, <1>7 DEF Showing
      <4> QED
        BY <4>1, <3>3, <1>4, <1>5
    <3>4. CASE g = o /\ q # s
      <4>1. Showing(g, q)' = Showing(g, q)
        BY <3>4, <1>1, <1>6, <1>7 DEF Showing
      <4> QED
        BY <4>1, <3>1, <3>4, <1>4, <1>5
    <3> QED
      BY <3>2, <3>3, <3>4
  <2>2. /\ work'.kind \in {"update", "all"}
        /\ \A g \in Guids \ {work'.guid} : work'.now[g] = seen'[g]
    BY <1>1, <1>6 DEF IInv, Progress
  <2> QED
    BY <2>1, <2>2 DEF Progress, Shows
<1> QED
  BY <1>8, <1>9, <1>10, <1>11 DEF IInv

LEMMA InvHandlerReturns == ASSUME IInv, HandlerReturns PROVE IInv'
<1>1. /\ work # Idle /\ work \in Messages /\ work.carries = {} /\ work' = Idle
      /\ seen' = work.now
      /\ UNCHANGED <<told, visible, sent, net, tracked, table>>
  BY StreamTypes DEF HandlerReturns, serverVars, IInv
<1>2. TypeOK'
  BY <1>1 DEF IInv, TypeOK, Messages
<1>3. Chain'
  <2>1. InHand' = InHand
    BY <1>1 DEF InHand
  <2> QED
    BY <2>1, <1>1 DEF IInv, Chain, Before, Follows
<1>4. Progress'
  <2>1. \A g \in Guids, s \in Slots : Showing(g, s)' = Showing(g, s)
    BY <1>1 DEF Showing, IInv, Progress
  <2> QED
    BY <1>1, <2>1 DEF IInv, Progress
<1>5. MapsAgree'
  BY <1>1 DEF IInv, MapsAgree
<1> QED
  BY <1>2, <1>3, <1>4, <1>5 DEF IInv

LEMMA InvRemoveObject == ASSUME IInv, RemoveObject PROVE IInv'
<1> DEFINE m == Head(net)
<1>1. /\ Read("out") /\ tracked' = tracked \ {m.guid} /\ seen' = m.now /\ work' = work
      /\ table' = [table EXCEPT ![m.guid] = EmptyTable]
  BY DEF RemoveObject
<1>2. /\ m \in Messages /\ m.kind = "out" /\ Follows(seen, m) /\ work' = Idle
      /\ \A g \in Guids, s \in Slots : Shows(table[g], s, seen[g][s])
  BY <1>1, ReadFacts
<1>3. /\ m.guid \in Guids
      /\ \A g \in Guids : table'[g] = IF g = m.guid THEN EmptyTable ELSE table[g]
  BY <1>1, <1>2 DEF IInv, TypeOK, Messages
<1>4. TypeOK'
  BY <1>1, <1>2, ReadFacts, EmptyIsBare DEF IInv, TypeOK, Messages
<1>5. Chain'
  <2>1. InHand' = m.now
    BY <1>1, <1>2 DEF InHand
  <2> QED
    BY <1>1, <2>1, ReadFacts, ReadShortens DEF IInv
<1>6. MapsAgree'
  BY <1>3, EmptyIsBare DEF IInv, MapsAgree
<1>7. Progress'
  <2>1. \A g \in Guids : seen'[g] = IF g = m.guid THEN Bare ELSE seen[g]
    BY <1>1, <1>2 DEF Follows
  <2>2. \A g \in Guids, s \in Slots : Shows(table'[g], s, seen'[g][s])
    BY <1>2, <1>3, <2>1, EmptyIsBare
  <2> QED
    BY <1>2, <2>2 DEF Progress, Showing, Shows
<1> QED
  BY <1>4, <1>5, <1>6, <1>7 DEF IInv

LEMMA InvNewWorld == ASSUME IInv, NewWorld PROVE IInv'
<1> DEFINE m == Head(net)
<1>1. /\ Read("world") /\ tracked' = {} /\ seen' = m.now /\ work' = work
      /\ table' = [g \in Guids |-> EmptyTable]
  BY DEF NewWorld
<1>2. m \in Messages /\ m.kind = "world" /\ Follows(seen, m) /\ work' = Idle
  BY <1>1, ReadFacts
<1>3. TypeOK'
  BY <1>1, <1>2, ReadFacts, EmptyIsBare DEF IInv, TypeOK, Messages
<1>4. Chain'
  <2>1. InHand' = m.now
    BY <1>1, <1>2 DEF InHand
  <2> QED
    BY <1>1, <2>1, ReadFacts, ReadShortens DEF IInv
<1>5. MapsAgree'
  BY <1>1, EmptyIsBare DEF IInv, MapsAgree
<1>6. Progress'
  <2>1. \A g \in Guids : seen'[g] = Bare
    BY <1>1, <1>2 DEF Follows
  <2>2. \A g \in Guids, s \in Slots : Shows(table'[g], s, seen'[g][s])
    BY <1>1, <2>1, EmptyIsBare
  <2> QED
    BY <1>2, <2>2 DEF Progress, Showing, Shows
<1> QED
  BY <1>3, <1>4, <1>5, <1>6 DEF IInv

LEMMA InvNext == IInv /\ [Next]_vars => IInv'
<1> SUFFICES ASSUME IInv, [Next]_vars PROVE IInv'
  OBVIOUS
<1>1. CASE Next
  BY <1>1, InvServer, InvAuraUpdate, InvAuraUpdateAll, InvApplySlot, InvHandlerReturns,
     InvRemoveObject, InvNewWorld DEF Next, ReadLoopStep
<1>2. CASE UNCHANGED vars
  BY <1>2 DEF vars, serverVars, IInv, TypeOK, Chain, Before, InHand, Follows, MapsAgree,
     Progress, Showing
<1> QED
  BY <1>1, <1>2

\* The maps agree, and the messages on the way lead the client's table to the server's.
THEOREM InvHolds == Spec => []IInv
BY InvInit, InvNext, PTL DEF Spec

-----------------------------------------------------------------------------
(***************************************************************************)
(* The theorems.                                                           *)
(***************************************************************************)

\* The state keeps its types: no spell id 0 enters the set of active auras.
THEOREM TypeCorrect == Spec => []TypeOK
BY InvHolds, PTL DEF IInv

\* The set HasAura answers from and the maps by slot never drift apart, whatever the
\* server sends and wherever the read loop is in a packet (setAuraForSlot, clearAuras).
THEOREM MapsStayInAgreement == Spec => []MapsAgree
BY InvHolds, PTL DEF IInv

\* While handleAuraUpdate applies a packet, no reader misses an aura the packet leaves
\* alone, though another application of the same spell is being replaced or removed.
THEOREM UpdatesAreLocal == Spec => []UpdateLeavesOthers
<1>1. ASSUME IInv, work # Idle, work.kind = "update", NEW s \in Slots,
             work.now[work.guid][s] = seen[work.guid][s],
             work.now[work.guid][s] # NoAura
      PROVE  /\ HasAura(work.guid, work.now[work.guid][s].spell)
             /\ Shows(table[work.guid], s, work.now[work.guid][s])
  <2>1. /\ work.guid \in Guids /\ Agree(table[work.guid])
        /\ work.now[work.guid][s] \in Auras
    BY <1>1, StreamTypes DEF Messages, AuraLists, IInv, MapsAgree
  <2>2. Shows(table[work.guid], s, work.now[work.guid][s])
    BY <1>1, <2>1 DEF IInv, Progress, Showing
  <2>3. work.now[work.guid][s].spell # NoSpell
    BY <2>1, SpellAssumption, AurasAssumption
  <2> QED
    BY <2>1, <2>2, <2>3 DEF Agree, HasAura, Shows
<1>2. IInv => UpdateLeavesOthers
  BY <1>1 DEF UpdateLeavesOthers
<1> QED
  BY <1>2, InvHolds, PTL

\* When the stream is drained, HasAura, AuraStacks and AuraDuration answer from the
\* auras the server last described: no packet is lost on, or left over in, the maps.
THEOREM DrainedMirrorsServer == Spec => []MirrorsServer
<1>1. ASSUME IInv, net = <<>>, work = Idle, NEW g \in Guids, NEW spell \in Spells
      PROVE  LET holders == {s \in Slots : told[g][s].spell = spell}
             IN  /\ HasAura(g, spell) <=> holders # {}
                 /\ AuraStacks(g, spell) = Max({0} \cup {StackCount(told[g][s]) : s \in holders})
                 /\ AuraDurationFrom(g, spell) = {s \in holders : told[g][s].timed}
  <2> DEFINE holders == {s \in Slots : told[g][s].spell = spell}
             t == table[g]
  <2>1. told = seen
    BY <1>1 DEF IInv, Chain, Before, InHand
  <2>2. \A s \in Slots : Shows(t, s, told[g][s])
    BY <1>1, <2>1 DEF IInv, Progress, Showing
  <2>3. SlotsWith(t, spell) = holders
    BY <2>2 DEF SlotsWith, Shows
  <2>4. HasAura(g, spell) <=> holders # {}
    BY <1>1, <2>3, SpellAssumption DEF HasAura, IInv, MapsAgree, Agree, SlotsWith
  <2>5. AuraDurationFrom(g, spell) = {s \in holders : told[g][s].timed}
    BY <2>2, <2>3 DEF AuraDurationFrom, Shows
  <2>6. \A s \in holders : t.stacks[s] = StackCount(told[g][s])
    BY <2>2, SpellAssumption DEF Shows, NoAura
  <2>7. AuraStacks(g, spell) = Max({0} \cup {StackCount(told[g][s]) : s \in holders})
    <3>1. {t.stacks[s] : s \in holders} = {StackCount(told[g][s]) : s \in holders}
      BY <2>6
    <3> QED
      BY <2>3, <3>1 DEF AuraStacks
  <2> QED
    BY <2>4, <2>5, <2>7
<1>2. IInv => MirrorsServer
  BY <1>1 DEF MirrorsServer
<1> QED
  BY <1>2, InvHolds, PTL

-----------------------------------------------------------------------------
(***************************************************************************)
(* The objects the cache holds.                                            *)
(***************************************************************************)

\* The messages that bring object g into the cache, and those that take it out.
Adds(g) == {m \in Messages : m.kind \in {"update", "all"} /\ m.guid = g}
Removes(g) == {m \in Messages : m.kind = "world" \/ (m.kind = "out" /\ m.guid = g)}

\* What the player sees arrives in the cache, and what it does not see leaves it.
CacheFollows ==
  \A g \in Guids :
    /\ Delivers(net, Adds(g), Removes(g), g, visible, tracked)
    /\ Delivers(net, Removes(g), Adds(g), g, Guids \ visible, Guids \ tracked)

\* The messages of the server.
LEMMA CacheServer == ASSUME TypeOK, TypeOK', CacheFollows, ServerStep PROVE CacheFollows'
<1>1. PICK g \in Guids :
        ServerUpdate(g) \/ ServerList(g) \/ ServerRemove(g) \/ ServerNewWorld(g)
  BY DEF ServerStep
<1>2. /\ net \in Seq(Messages) /\ net' \in Seq(Messages) /\ tracked' = tracked
      /\ visible \subseteq Guids
  BY DEF TypeOK, ServerStep
<1>3. PICK m : /\ net' = Append(net, m) /\ m.guid = g
               /\ \/ m.kind \in {"update", "all"} /\ visible' = visible \cup {g}
                  \/ m.kind = "out" /\ visible' = visible \ {g}
                  \/ m.kind = "world" /\ visible' = {}
  <2>1. CASE ServerUpdate(g)
    BY <2>1 DEF ServerUpdate, Send
  <2>2. CASE ServerList(g)
    BY <2>2 DEF ServerList, Send
  <2>3. CASE ServerRemove(g)
    BY <2>3 DEF ServerRemove, Send
  <2>4. CASE ServerNewWorld(g)
    BY <2>4 DEF ServerNewWorld, Send
  <2> QED
    BY <1>1, <2>1, <2>2, <2>3, <2>4
<1>4. m \in Messages
  <2>1. net'[Len(net) + 1] = m /\ Len(net) + 1 \in 1 .. Len(net')
    BY <1>2, <1>3
  <2> QED
    BY <1>2, <2>1
<1>5. ASSUME NEW h \in Guids
      PROVE  /\ Delivers(net', Adds(h), Removes(h), h, visible', tracked')
             /\ Delivers(net', Removes(h), Adds(h), h, Guids \ visible', Guids \ tracked')
  <2>1. /\ h \in visible' => m \notin Removes(h) /\ (m \in Adds(h) \/ h \in visible)
        /\ h \in Guids \ visible' =>
             m \notin Adds(h) /\ (m \in Removes(h) \/ h \in Guids \ visible)
    BY <1>3, <1>4 DEF Adds, Removes
  <2>2. /\ Delivers(net, Adds(h), Removes(h), h, visible, tracked)
        /\ Delivers(net, Removes(h), Adds(h), h, Guids \ visible, Guids \ tracked)
    BY DEF CacheFollows
  <2>3. Delivers(net', Adds(h), Removes(h), h, visible', tracked')
    BY <1>2, <1>3, <1>4, <2>1, <2>2, DeliversSent
  <2>4. Delivers(net', Removes(h), Adds(h), h, Guids \ visible', Guids \ tracked')
    BY <1>2, <1>3, <1>4, <2>1, <2>2, DeliversSent
  <2> QED
    BY <2>3, <2>4
<1> QED
  BY <1>5 DEF CacheFollows, Adds, Removes

\* The handlers of the read loop.
LEMMA CacheRead ==
  ASSUME TypeOK, CacheFollows, AuraUpdate \/ AuraUpdateAll \/ RemoveObject \/ NewWorld
  PROVE  CacheFollows'
<1> DEFINE m == Head(net)
<1>1. /\ net \in Seq(Messages) /\ net # <<>> /\ net' = Tail(net) /\ m \in Messages
      /\ visible' = visible /\ tracked \subseteq Guids
      /\ \/ m.kind \in {"update", "all"} /\ tracked' = tracked \cup {m.guid}
         \/ m.kind = "out" /\ tracked' = tracked \ {m.guid}
         \/ m.kind = "world" /\ tracked' = {}
  <2>1. net \in Seq(Messages) /\ net # <<>> /\ net' = Tail(net) /\ visible' = visible
    BY DEF TypeOK, AuraUpdate, AuraUpdateAll, RemoveObject, NewWorld, Read, serverVars
  <2>2. \/ m.kind \in {"update", "all"} /\ tracked' = tracked \cup {m.guid}
        \/ m.kind = "out" /\ tracked' = tracked \ {m.guid}
        \/ m.kind = "world" /\ tracked' = {}
    BY DEF AuraUpdate, AuraUpdateAll, RemoveObject, NewWorld, Read
  <2>3. m \in Messages
    BY <2>1
  <2> QED
    BY <2>1, <2>2, <2>3 DEF TypeOK
<1> HIDE DEF m
<1>2. ASSUME NEW h \in Guids
      PROVE  /\ Delivers(net', Adds(h), Removes(h), h, visible', tracked')
             /\ Delivers(net', Removes(h), Adds(h), h, Guids \ visible', Guids \ tracked')
  <2>1. /\ m \in Adds(h) => h \in tracked'
        /\ m \notin Removes(h) /\ h \in tracked => h \in tracked'
        /\ m \in Removes(h) => h \in Guids \ tracked'
        /\ m \notin Adds(h) /\ h \in Guids \ tracked => h \in Guids \ tracked'
    BY <1>1 DEF Adds, Removes
  <2>2. /\ Delivers(net, Adds(h), Removes(h), h, visible, tracked)
        /\ Delivers(net, Removes(h), Adds(h), h, Guids \ visible, Guids \ tracked)
    BY DEF CacheFollows
  <2>3. Delivers(net', Adds(h), Removes(h), h, visible', tracked')
    BY <1>1, <2>1, <2>2, DeliversRead DEF m
  <2>4. Delivers(net', Removes(h), Adds(h), h, Guids \ visible', Guids \ tracked')
    BY <1>1, <2>1, <2>2, DeliversRead DEF m
  <2> QED
    BY <2>3, <2>4
<1> QED
  BY <1>2 DEF CacheFollows, Adds, Removes

\* Every step.
LEMMA CacheNext == TypeOK /\ TypeOK' /\ CacheFollows /\ [Next]_vars => CacheFollows'
<1>1. ASSUME CacheFollows, ApplySlot \/ HandlerReturns \/ UNCHANGED vars PROVE CacheFollows'
  BY <1>1 DEF ApplySlot, HandlerReturns, vars, serverVars, CacheFollows, Adds, Removes
<1> QED
  BY <1>1, CacheServer, CacheRead DEF Next, ReadLoopStep

\* When the stream is drained the cache holds what the player sees: however creations,
\* removals and updates follow one another, no aura packet leaves an object behind that
\* was removed (handleAuraUpdate and handleAuraUpdateAll create what they do not find).
THEOREM DrainedCacheIsWhatIsSeen == Spec => []CacheIsWhatIsSeen
<1>1. Init => CacheFollows
  BY DEF Init, CacheFollows, Delivers
<1>2. ASSUME TypeOK, CacheFollows PROVE CacheIsWhatIsSeen
  <2> SUFFICES ASSUME net = <<>> PROVE tracked = visible
    BY DEF CacheIsWhatIsSeen
  <2>1. \A g \in Guids : g \in tracked <=> g \in visible
    <3>1. 1 .. Len(net) = {}
      OBVIOUS
    <3> QED
      BY <1>2, <3>1 DEF CacheFollows, Delivers
  <2> QED
    BY <1>2, <2>1 DEF TypeOK
<1> QED
  BY <1>1, <1>2, CacheNext, TypeCorrect, PTL DEF Spec

-----------------------------------------------------------------------------
(***************************************************************************)
(* The spells and their cooldowns.                                         *)
(***************************************************************************)

\* The spells the client shows as active.
Active == {s \in BookSpells : knownSpells[s] = "active"}

\* The packets that bring spell s into the book, and those that take it out.
Grants(s) ==
  {p \in SpellPackets : \/ p.kind = "initial" /\ s \in p.spells
                        \/ p.kind = "learned" /\ p.spell = s
                        \/ p.kind = "superceded" /\ p.new = s}
Revokes(s) ==
  {p \in SpellPackets : \/ p.kind = "removed" /\ p.spell = s
                        \/ p.kind = "superceded" /\ p.old = s /\ p.new # s}

\* Those that put it on cooldown, and those that end the cooldown.
Cools(s) == {p \in SpellPackets : p.kind = "cooldown" /\ p.mine /\ s \in p.spells}
Frees(s) == {p \in SpellPackets : p.kind \in {"event", "clear"} /\ p.mine /\ p.spell = s}

\* What the server lists, what it does not list and what it cools arrives.
Listed == \A s \in BookSpells : Delivers(wire, Grants(s), Revokes(s), s, book, Active)
Unlisted == \A s \in BookSpells :
  Delivers(wire, Revokes(s), Grants(s), s, BookSpells \ book, BookSpells \ Active)
Cooled == \A s \in BookSpells :
  Delivers(wire, Cools(s), Frees(s), s, cooling \ early, cooldowns)

SpellInv == SpellTypeOK /\ Listed /\ Unlisted /\ Cooled

-----------------------------------------------------------------------------
\* The login sends the whole book.
LEMMA SpellInitially == SpellInit => SpellInv
<1> SUFFICES ASSUME SpellInit PROVE SpellInv
  OBVIOUS
<1> DEFINE p == [kind |-> "initial", spells |-> book]
<1>1. p \in SpellPackets /\ wire = <<p>> /\ Len(wire) = 1 /\ wire[1] = p
  BY DEF SpellInit, SpellPackets
<1>2. SpellTypeOK
  BY <1>1, BookAssumption DEF SpellInit, SpellTypeOK
<1>3. \A s \in BookSpells : /\ s \in book <=> p \in Grants(s)
                            /\ p \notin Revokes(s)
                            /\ s \in BookSpells \ Active
  BY <1>1, <1>2 DEF SpellInit, Grants, Revokes, Active
<1>4. Listed /\ Unlisted
  BY <1>1, <1>3, SMT DEF Listed, Unlisted, Delivers
<1>5. Cooled
  BY DEF SpellInit, Cooled, Delivers
<1> QED
  BY <1>2, <1>4, <1>5 DEF SpellInv

\* The server sends a packet that tells of all it changes.
LEMMA ServerTells ==
  ASSUME SpellInv, NEW p \in SpellPackets, SendSpell(p), UNCHANGED <<knownSpells, cooldowns>>,
         book' \in SUBSET BookSpells, cooling' \in SUBSET BookSpells, early' \in SUBSET cooling',
         \A s \in BookSpells : s \in book' => p \notin Revokes(s) /\ (p \in Grants(s) \/ s \in book),
         \A s \in BookSpells :
           s \notin book' => p \notin Grants(s) /\ (p \in Revokes(s) \/ s \notin book),
         \A s \in BookSpells : s \in cooling' \ early' =>
           p \notin Frees(s) /\ (p \in Cools(s) \/ s \in cooling \ early)
  PROVE  SpellInv'
<1>1. wire \in Seq(SpellPackets) /\ wire' = Append(wire, p) /\ Active' = Active
  BY DEF SpellInv, SpellTypeOK, SendSpell, Active
<1>2. SpellTypeOK'
  <2>1. sentPackets' \in 0 .. MaxSpellPackets
    BY BookAssumption DEF SpellInv, SpellTypeOK, SendSpell
  <2>2. wire' \in Seq(SpellPackets)
    BY <1>1
  <2> QED
    BY <2>1, <2>2 DEF SpellInv, SpellTypeOK
<1>3. ASSUME NEW s \in BookSpells
      PROVE  /\ Delivers(wire', Grants(s), Revokes(s), s, book', Active')
             /\ Delivers(wire', Revokes(s), Grants(s), s, BookSpells \ book', BookSpells \ Active')
             /\ Delivers(wire', Cools(s), Frees(s), s, cooling' \ early', cooldowns')
  <2>1. /\ Delivers(wire, Grants(s), Revokes(s), s, book, Active)
        /\ Delivers(wire, Revokes(s), Grants(s), s, BookSpells \ book, BookSpells \ Active)
        /\ Delivers(wire, Cools(s), Frees(s), s, cooling \ early, cooldowns)
    BY DEF SpellInv, Listed, Unlisted, Cooled
  <2>2. Delivers(wire', Grants(s), Revokes(s), s, book', Active')
    BY <1>1, <2>1, DeliversSent
  <2>3. Delivers(wire', Revokes(s), Grants(s), s, BookSpells \ book', BookSpells \ Active')
    BY <1>1, <2>1, DeliversSent
  <2>4. Delivers(wire', Cools(s), Frees(s), s, cooling' \ early', cooldowns')
    BY <1>1, <2>1, DeliversSent
  <2> QED
    BY <2>2, <2>3, <2>4
<1> QED
  BY <1>2, <1>3 DEF SpellInv, Listed, Unlisted, Cooled, Grants, Revokes, Cools, Frees

\* The read loop handles a packet as it says.
LEMMA ClientFollows ==
  ASSUME SpellInv, NEW p, wire # <<>>, p = Head(wire), wire' = Tail(wire), UNCHANGED serverSpellVars,
         knownSpells' \in [BookSpells -> {"unknown", "active", "inactive"}],
         cooldowns' \in SUBSET BookSpells,
         \A s \in BookSpells :
           /\ p \in Grants(s) \/ (p \notin Revokes(s) /\ s \in Active) => s \in Active'
           /\ p \in Revokes(s) \/ (p \notin Grants(s) /\ s \notin Active) => s \notin Active'
           /\ p \in Cools(s) \/ (p \notin Frees(s) /\ s \in cooldowns) => s \in cooldowns'
  PROVE  SpellInv'
<1>1. wire \in Seq(SpellPackets) /\ book' = book /\ cooling' = cooling /\ early' = early
      /\ sentPackets' = sentPackets
  BY DEF SpellInv, SpellTypeOK, serverSpellVars
<1>2. SpellTypeOK'
  <2>1. wire' \in Seq(SpellPackets)
    BY <1>1
  <2> QED
    BY <1>1, <2>1 DEF SpellInv, SpellTypeOK
<1>3. ASSUME NEW s \in BookSpells
      PROVE  /\ Delivers(wire', Grants(s), Revokes(s), s, book', Active')
             /\ Delivers(wire', Revokes(s), Grants(s), s, BookSpells \ book', BookSpells \ Active')
             /\ Delivers(wire', Cools(s), Frees(s), s, cooling' \ early', cooldowns')
  <2>1. /\ Delivers(wire, Grants(s), Revokes(s), s, book, Active)
        /\ Delivers(wire, Revokes(s), Grants(s), s, BookSpells \ book, BookSpells \ Active)
        /\ Delivers(wire, Cools(s), Frees(s), s, cooling \ early, cooldowns)
    BY DEF SpellInv, Listed, Unlisted, Cooled
  <2>2. Delivers(wire', Grants(s), Revokes(s), s, book', Active')
    BY <1>1, <2>1, DeliversRead
  <2>3. Delivers(wire', Revokes(s), Grants(s), s, BookSpells \ book', BookSpells \ Active')
    BY <1>1, <2>1, DeliversRead
  <2>4. Delivers(wire', Cools(s), Frees(s), s, cooling' \ early', cooldowns')
    BY <1>1, <2>1, DeliversRead
  <2> QED
    BY <2>2, <2>3, <2>4
<1> QED
  BY <1>2, <1>3 DEF SpellInv, Listed, Unlisted, Cooled, Grants, Revokes, Cools, Frees

\* The steps of the server.
LEMMA ServerSpellStepKeeps == ASSUME SpellInv, ServerSpellStep PROVE SpellInv'
<1> USE DEF Grants, Revokes, Cools, Frees, SpellPackets
<1>0. UNCHANGED <<knownSpells, cooldowns>> /\ SpellTypeOK
  BY DEF ServerSpellStep, SpellInv
<1>1. ASSUME NEW s \in BookSpells, ServerLearns(s) PROVE SpellInv'
  <2> DEFINE p == [kind |-> "learned", spell |-> s]
  <2>1. p \in SpellPackets /\ p.kind = "learned" /\ p.spell = s /\ SendSpell(p)
    BY <1>1 DEF ServerLearns
  <2> HIDE DEF p
  <2> QED
    BY <1>0, <1>1, <2>1, ServerTells DEF ServerLearns, SpellTypeOK
<1>2. ASSUME NEW s \in BookSpells, ServerRemoves(s) PROVE SpellInv'
  <2> DEFINE p == [kind |-> "removed", spell |-> s]
  <2>1. p \in SpellPackets /\ p.kind = "removed" /\ p.spell = s /\ SendSpell(p)
    BY <1>2 DEF ServerRemoves
  <2> HIDE DEF p
  <2> QED
    BY <1>0, <1>2, <2>1, ServerTells DEF ServerRemoves, SpellTypeOK
<1>3. ASSUME NEW s \in BookSpells, ServerReady(s) PROVE SpellInv'
  <2>1. ASSUME NEW k \in {"event", "clear"}, SendSpell([kind |-> k, mine |-> TRUE, spell |-> s])
        PROVE  SpellInv'
    <3> DEFINE p == [kind |-> k, mine |-> TRUE, spell |-> s]
    <3>1. p \in SpellPackets /\ p.kind \in {"event", "clear"} /\ p.spell = s /\ SendSpell(p)
      BY <2>1
    <3> HIDE DEF p
    <3> QED
      BY <1>0, <1>3, <3>1, ServerTells DEF ServerReady, SpellTypeOK
  <2>2. CASE UNCHANGED <<wire, sentPackets>>
    <3>1. SpellTypeOK' /\ book' = book /\ cooling' \ early' \subseteq cooling \ early
      BY <1>0, <1>3, <2>2 DEF ServerReady, SpellTypeOK
    <3> QED
      BY <1>0, <2>2, <3>1 DEF SpellInv, Listed, Unlisted, Cooled, Delivers, Active
  <2> QED
    BY <1>3, <2>1, <2>2 DEF ServerReady
<1>4. ASSUME NEW s \in BookSpells, ServerClearsPet(s) PROVE SpellInv'
  <2> DEFINE p == [kind |-> "clear", mine |-> FALSE, spell |-> s]
  <2>1. p \in SpellPackets /\ p.kind = "clear" /\ p.mine = FALSE /\ SendSpell(p)
    BY <1>4 DEF ServerClearsPet
  <2> HIDE DEF p
  <2> QED
    BY <1>0, <1>4, <2>1, ServerTells DEF ServerClearsPet, SpellTypeOK
<1>5. ASSUME NEW old \in BookSpells, NEW new \in BookSpells, ServerRanksUp(old, new) PROVE SpellInv'
  <2> DEFINE p == [kind |-> "superceded", old |-> old, new |-> new]
  <2>1. p \in SpellPackets /\ p.kind = "superceded" /\ p.old = old /\ p.new = new /\ SendSpell(p)
    BY <1>5 DEF ServerRanksUp
  <2> HIDE DEF p
  <2> QED
    BY <1>0, <1>5, <2>1, ServerTells DEF ServerRanksUp, SpellTypeOK
<1>6. ASSUME ServerSendsBook PROVE SpellInv'
  <2> DEFINE p == [kind |-> "initial", spells |-> book]
  <2>1. p \in SpellPackets /\ p.kind = "initial" /\ p.spells = book /\ SendSpell(p)
    BY <1>0, <1>6 DEF ServerSendsBook, SpellTypeOK
  <2> HIDE DEF p
  <2> QED
    BY <1>0, <1>6, <2>1, ServerTells DEF ServerSendsBook, SpellTypeOK
<1>7. ASSUME NEW mine \in BOOLEAN, ServerCools(mine) PROVE SpellInv'
  <2>1. PICK ss \in SUBSET BookSpells :
          /\ SendSpell([kind |-> "cooldown", mine |-> mine, spells |-> ss])
          /\ IF mine THEN cooling' = cooling \cup ss /\ early' = early \ ss
                     ELSE UNCHANGED <<cooling, early>>
    BY <1>7 DEF ServerCools
  <2> DEFINE p == [kind |-> "cooldown", mine |-> mine, spells |-> ss]
  <2>2. /\ p \in SpellPackets /\ p.kind = "cooldown" /\ p.mine = mine /\ p.spells = ss
        /\ SendSpell(p)
    BY <2>1
  <2>3. book' = book
    BY <1>7 DEF ServerCools
  <2> HIDE DEF p
  <2>4. CASE mine
    BY <1>0, <2>1, <2>2, <2>3, <2>4, ServerTells DEF SpellTypeOK
  <2>5. CASE ~mine
    BY <1>0, <2>1, <2>2, <2>3, <2>5, ServerTells DEF SpellTypeOK
  <2> QED
    BY <2>4, <2>5
<1> QED
  BY <1>1, <1>2, <1>3, <1>4, <1>5, <1>6, <1>7 DEF ServerSpellStep

\* The handlers that change the spells, and those that change the cooldowns.
LEMMA ReadSpellsKeeps ==
  ASSUME SpellInv, InitialSpells \/ LearnedSpell \/ SupercededSpell \/ RemovedSpell
  PROVE  SpellInv'
<1> DEFINE p == Head(wire)
<1>1. /\ wire # <<>> /\ wire' = Tail(wire) /\ UNCHANGED serverSpellVars /\ cooldowns' = cooldowns
      /\ p \in SpellPackets /\ p = Carried
      /\ p.kind \notin {"cooldown", "event", "clear"}
  BY DEF SpellInv, SpellTypeOK, InitialSpells, LearnedSpell, SupercededSpell, RemovedSpell, Arrived, Carried
<1>2. SpellTypeOK /\ \A s \in BookSpells : p \notin Cools(s) /\ p \notin Frees(s)
  BY <1>1 DEF SpellInv, Cools, Frees
<1> HIDE DEF p
<1>3. /\ knownSpells' \in [BookSpells -> {"unknown", "active", "inactive"}]
      /\ \A s \in BookSpells :
           /\ p \in Grants(s) => knownSpells'[s] = "active"
           /\ p \in Revokes(s) => knownSpells'[s] # "active"
           /\ p \notin Grants(s) /\ p \notin Revokes(s) => knownSpells'[s] = knownSpells[s]
  <2> USE DEF SpellPackets, Grants, Revokes
  <2>1. CASE InitialSpells
    BY <1>1, <1>2, <2>1 DEF InitialSpells, Arrived, SpellTypeOK, p
  <2>2. CASE LearnedSpell
    BY <1>1, <1>2, <2>2 DEF LearnedSpell, Arrived, SpellTypeOK, p
  <2>3. CASE SupercededSpell
    BY <1>1, <1>2, <2>3 DEF SupercededSpell, Arrived, SpellTypeOK, p
  <2>4. CASE RemovedSpell
    BY <1>1, <1>2, <2>4 DEF RemovedSpell, Arrived, SpellTypeOK, p
  <2> QED
    BY <2>1, <2>2, <2>3, <2>4
<1>4. \A s \in BookSpells : ~(p \in Grants(s) /\ p \in Revokes(s))
  BY DEF Grants, Revokes
<1>5. \A s \in BookSpells :
        /\ p \in Grants(s) \/ (p \notin Revokes(s) /\ s \in Active) => s \in Active'
        /\ p \in Revokes(s) \/ (p \notin Grants(s) /\ s \notin Active) => s \notin Active'
  BY <1>3, <1>4 DEF Active
<1> QED
  BY <1>1, <1>2, <1>3, <1>5, ClientFollows DEF SpellTypeOK, p

LEMMA ReadCooldownsKeeps == ASSUME SpellInv, SpellCooldown \/ ClearCooldown PROVE SpellInv'
<1> DEFINE p == Head(wire)
<1>1. /\ wire # <<>> /\ wire' = Tail(wire) /\ UNCHANGED serverSpellVars
      /\ knownSpells' = knownSpells /\ Active' = Active
      /\ p \in SpellPackets /\ p = Carried
      /\ p.kind \in {"cooldown", "event", "clear"}
  BY DEF SpellInv, SpellTypeOK, SpellCooldown, ClearCooldown, Arrived, Carried, Active
<1>2. SpellTypeOK /\ \A s \in BookSpells : p \notin Grants(s) /\ p \notin Revokes(s)
  BY <1>1 DEF SpellInv, Grants, Revokes
<1> HIDE DEF p
<1>3. /\ cooldowns' \in SUBSET BookSpells
      /\ \A s \in BookSpells :
           p \in Cools(s) \/ (p \notin Frees(s) /\ s \in cooldowns) => s \in cooldowns'
  <2> USE DEF SpellPackets, Cools, Frees
  <2>1. CASE SpellCooldown
    BY <1>1, <1>2, <2>1 DEF SpellCooldown, Arrived, SpellTypeOK, p
  <2>2. CASE ClearCooldown
    BY <1>1, <1>2, <2>2 DEF ClearCooldown, Arrived, SpellTypeOK, p
  <2> QED
    BY <2>1, <2>2
<1> QED
  BY <1>1, <1>2, <1>3, ClientFollows DEF SpellTypeOK, p

\* Every step.
LEMMA SpellStepKeeps == SpellInv /\ [SpellNext]_spellVars => SpellInv'
<1> SUFFICES ASSUME SpellInv, [SpellNext]_spellVars PROVE SpellInv'
  OBVIOUS
<1>1. ASSUME NEW s \in BookSpells, Expire(s) PROVE SpellInv'
  BY <1>1 DEF Expire, serverSpellVars, SpellInv, SpellTypeOK, Listed, Unlisted, Cooled, Delivers, Active
<1>2. CASE UNCHANGED spellVars
  BY <1>2 DEF spellVars, serverSpellVars, SpellInv, SpellTypeOK, Listed, Unlisted, Cooled, Delivers, Active,
              Grants, Revokes, Cools, Frees
<1> QED
  BY <1>1, <1>2, ServerSpellStepKeeps, ReadSpellsKeeps, ReadCooldownsKeeps DEF SpellNext

\* The spells and the cooldowns keep their types.
THEOREM SpellTypesHold == SpellSpec => []SpellTypeOK
<1>1. SpellInv => SpellTypeOK
  BY DEF SpellInv
<1> QED
  BY <1>1, SpellInitially, SpellStepKeeps, PTL DEF SpellSpec

\* Once the packets are read the book is the server's, and a spell the client takes for
\* ready is in it and not on cooldown, but for the cooldowns from before the login:
\* whatever order ranks, removals, cooldowns and their ends are sent in
\* (handleInitialSpells, handleSupercededSpell, handleSpellCooldown, handleClearCooldown).
THEOREM ReadySpellsAreReady == SpellSpec => []ReadyIsReady
<1>1. ASSUME SpellInv PROVE ReadyIsReady
  <2> SUFFICES ASSUME wire = <<>>
               PROVE  /\ \A s \in BookSpells : s \in book <=> s \in Active
                      /\ \A s \in cooling \ early : s \in cooldowns
    BY <1>1 DEF ReadyIsReady, IsSpellReady, Active, SpellInv, SpellTypeOK
  <2>1. 1 .. Len(wire) = {}
    OBVIOUS
  <2> QED
    BY <1>1, <2>1 DEF SpellInv, SpellTypeOK, Listed, Unlisted, Cooled, Delivers
<1> QED
  BY <1>1, SpellInitially, SpellStepKeeps, PTL DEF SpellSpec

=============================================================================
