------------------------------ MODULE SpellBook ------------------------------
(***************************************************************************)
(* The spells the client knows and their cooldowns (client/world.go),      *)
(* from the packets of the world server.  Each handler of the read loop is *)
(* one action: it changes one of the two maps under its mutex.  The server *)
(* is external, its packets a FIFO queue.  A cooldown entry whose time is  *)
(* over answers like no entry, so an entry is kept until it expires; it    *)
(* expires later than the cooldown of the server, whose time it counts     *)
(* from the arrival of the packet.                                         *)
(***************************************************************************)
EXTENDS Naturals, Sequences

CONSTANTS
  BookSpells,       \* spell ids
  MaxSpellPackets   \* bound: packets the server sends after the login

ASSUME BookAssumption == MaxSpellPackets \in Nat

VARIABLES
  book,        \* external: the spells the server lists for the character
  cooling,     \* external: the spells on cooldown
  early,       \* external: those on cooldown since before the login
  wire,        \* packets sent and not yet read
  sentPackets, \* packets sent, for the bound
  knownSpells, \* w.knownSpells: "unknown", "active", "inactive"
  cooldowns    \* w.cooldowns, without the expired entries

serverSpellVars == <<book, cooling, early, sentPackets>>
spellVars == <<serverSpellVars, wire, knownSpells, cooldowns>>

SpellPackets ==
  [kind : {"initial"}, spells : SUBSET BookSpells]
  \cup [kind : {"learned", "removed"}, spell : BookSpells]
  \cup [kind : {"superceded"}, old : BookSpells, new : BookSpells]
  \cup [kind : {"cooldown"}, mine : BOOLEAN, spells : SUBSET BookSpells]
  \cup [kind : {"event", "clear"}, mine : BOOLEAN, spell : BookSpells]

(* The login sends the whole book.  The cooldowns at the end of that packet *)
(* are not read.                                                            *)
SpellInit ==
  /\ book \in SUBSET BookSpells
  /\ cooling \in SUBSET book /\ early = cooling
  /\ wire = <<[kind |-> "initial", spells |-> book]>>
  /\ sentPackets = 0
  /\ knownSpells = [s \in BookSpells |-> "unknown"]
  /\ cooldowns = {}

-----------------------------------------------------------------------------
(* The server (external). *)

SendSpell(p) ==
  /\ sentPackets < MaxSpellPackets
  /\ sentPackets' = sentPackets + 1
  /\ wire' = Append(wire, p)

ServerLearns(s) ==
  /\ s \notin book /\ book' = book \cup {s}
  /\ SendSpell([kind |-> "learned", spell |-> s])
  /\ UNCHANGED <<cooling, early>>

\* A higher rank takes the place of a lower one, which the book no longer lists.
ServerRanksUp(old, new) ==
  /\ old \in book /\ new \notin book
  /\ book' = (book \ {old}) \cup {new}
  /\ SendSpell([kind |-> "superceded", old |-> old, new |-> new])
  /\ UNCHANGED <<cooling, early>>

ServerRemoves(s) ==
  /\ s \in book /\ book' = book \ {s}
  /\ SendSpell([kind |-> "removed", spell |-> s])
  /\ UNCHANGED <<cooling, early>>

\* A transfer to another map sends the book again.
ServerSendsBook ==
  /\ SendSpell([kind |-> "initial", spells |-> book])
  /\ UNCHANGED <<book, cooling, early>>

\* A cast starts cooldowns of the character, or of its pet.
ServerCools(mine) ==
  /\ \E ss \in SUBSET BookSpells \ {{}} :
       /\ SendSpell([kind |-> "cooldown", mine |-> mine, spells |-> ss])
       /\ IF mine THEN cooling' = cooling \cup ss /\ early' = early \ ss
                  ELSE UNCHANGED <<cooling, early>>
  /\ UNCHANGED book

\* The end of a cooldown is told, or its time runs out and nothing is sent.
ServerReady(s) ==
  /\ s \in cooling
  /\ cooling' = cooling \ {s} /\ early' = early \ {s}
  /\ \/ \E k \in {"event", "clear"} : SendSpell([kind |-> k, mine |-> TRUE, spell |-> s])
     \/ UNCHANGED <<wire, sentPackets>>
  /\ UNCHANGED book

ServerClearsPet(s) ==
  /\ SendSpell([kind |-> "clear", mine |-> FALSE, spell |-> s])
  /\ UNCHANGED <<book, cooling, early>>

ServerSpellStep ==
  /\ \/ \E s \in BookSpells : \/ ServerLearns(s) \/ ServerRemoves(s)
                              \/ ServerReady(s) \/ ServerClearsPet(s)
     \/ \E old, new \in BookSpells : ServerRanksUp(old, new)
     \/ ServerSendsBook
     \/ \E mine \in BOOLEAN : ServerCools(mine)
  /\ UNCHANGED <<knownSpells, cooldowns>>

-----------------------------------------------------------------------------
(* The read loop. *)

Arrived(k) == wire # <<>> /\ Head(wire).kind = k /\ wire' = Tail(wire)
Carried == Head(wire)

\* Adds what the packet lists and takes nothing away.
InitialSpells ==
  /\ Arrived("initial")
  /\ knownSpells' = [s \in BookSpells |->
                       IF s \in Carried.spells THEN "active" ELSE knownSpells[s]]
  /\ UNCHANGED <<serverSpellVars, cooldowns>>

LearnedSpell ==
  /\ Arrived("learned")
  /\ knownSpells' = [knownSpells EXCEPT ![Carried.spell] = "active"]
  /\ UNCHANGED <<serverSpellVars, cooldowns>>

SupercededSpellKnownOnly ==
  /\ Arrived("superceded")
  /\ knownSpells' = [knownSpells EXCEPT ![Carried.new] = "active"]
  /\ UNCHANGED <<serverSpellVars, cooldowns>>

SupercededSpell ==
  /\ Arrived("superceded")
  /\ knownSpells' = [knownSpells EXCEPT ![Carried.old] = "inactive", ![Carried.new] = "active"]
  /\ UNCHANGED <<serverSpellVars, cooldowns>>

RemovedSpell ==
  /\ Arrived("removed")
  /\ knownSpells' = [knownSpells EXCEPT ![Carried.spell] = "unknown"]
  /\ UNCHANGED <<serverSpellVars, cooldowns>>

\* The cooldowns of another unit are not the character's.
SpellCooldown ==
  /\ Arrived("cooldown")
  /\ cooldowns' = IF Carried.mine THEN cooldowns \cup Carried.spells ELSE cooldowns
  /\ UNCHANGED <<serverSpellVars, knownSpells>>

ClearCooldown ==
  /\ \/ Arrived("event")
     \/ Arrived("clear")
  /\ cooldowns' = IF Carried.mine THEN cooldowns \ {Carried.spell} ELSE cooldowns
  /\ UNCHANGED <<serverSpellVars, knownSpells>>

\* The time of an entry is over: not before the server's, nor while a renewal of it
\* has been read.
Expire(s) ==
  /\ s \in cooldowns \ cooling
  /\ cooldowns' = cooldowns \ {s}
  /\ UNCHANGED <<serverSpellVars, wire, knownSpells>>

IsSpellReady(s) == knownSpells[s] = "active" /\ s \notin cooldowns

SpellNext ==
  \/ ServerSpellStep
  \/ InitialSpells \/ LearnedSpell \/ SupercededSpell \/ RemovedSpell
  \/ SpellCooldown \/ ClearCooldown
  \/ \E s \in BookSpells : Expire(s)

SpellSpec == SpellInit /\ [][SpellNext]_spellVars

-----------------------------------------------------------------------------
SpellTypeOK ==
  /\ book \in SUBSET BookSpells /\ cooling \in SUBSET BookSpells
  /\ early \in SUBSET cooling
  /\ wire \in Seq(SpellPackets)
  /\ sentPackets \in 0 .. MaxSpellPackets
  /\ knownSpells \in [BookSpells -> {"unknown", "active", "inactive"}]
  /\ cooldowns \in SUBSET BookSpells

(* Once the packets are read the book is the server's, whatever ranks replaced *)
(* one another and however often it was sent; and a spell the client takes for *)
(* ready is: it is in the book and not on cooldown, unless since before the    *)
(* login, whose cooldowns the client does not read.                            *)
ReadyIsReady ==
  wire = <<>> =>
    /\ book = {s \in BookSpells : knownSpells[s] = "active"}
    /\ \A s \in BookSpells : IsSpellReady(s) => s \in book /\ s \notin cooling \ early
=============================================================================
