----------------------------- MODULE MCReadLoop -----------------------------
(***************************************************************************)
(* Instances of the modules of what the read loop stores, for TLC:         *)
(* AuraTable, SpellBook, PacketHooks and BotMovement, and of PacketStream, *)
(* which brings the packets.  A behaviour of this module is one of the     *)
(* five, chosen initially, while the variables of the others keep their    *)
(* initial values.                                                         *)
(***************************************************************************)
EXTENDS AuraTable, SpellBook, PacketHooks, BotMovement, PacketStream, TLC

CONSTANTS x1, x2, s1, s2, a, b, north, south, none

VARIABLE system   \* the module whose behaviour this is

\* Two forms of one spell, and another that comes without a stack byte.
TheAuras ==
  {[spell |-> a, charges |-> 2, timed |-> TRUE],
   [spell |-> a, charges |-> 0, timed |-> FALSE],
   [spell |-> b, charges |-> 0, timed |-> FALSE]}

\* What is stored together is sent in one session.
TheStreams == {{"start", "won", "passed"}, {"trade", "short"}, {"battlefield", "joined"},
               {"group", "notice"}}

\* The objects, the spells of the book, the hooks and the senders are the same model values, as no
\* behaviour has more than one of the four: one permutation serves them all (safety
\* runs only).
Symmetry == Permutations(Hooks)

ReadLoopInit ==
  /\ system \in {"auras", "spells", "hooks", "movement", "stream"}
  /\ Init /\ SpellInit /\ HooksInit /\ MovementInit /\ StreamInit
  \* The idle machines start in one state.
  /\ system # "spells" => book = {}
  /\ system # "hooks" => \A h \in Hooks : family[h] = "packet"
  /\ system # "hooks" => stream = {"trade", "short"}
  /\ system # "movement" => worldHeading = north
  /\ system # "stream" => plain

AurasStep == system = "auras" /\ Next
             /\ UNCHANGED <<system, spellVars, hooksVars, movementVars, streamVars>>
SpellsStep == system = "spells" /\ SpellNext
              /\ UNCHANGED <<system, vars, hooksVars, movementVars, streamVars>>
HooksStep == system = "hooks" /\ HooksNext
             /\ UNCHANGED <<system, vars, spellVars, movementVars, streamVars>>
MovementStep == system = "movement" /\ MovementNext
                /\ UNCHANGED <<system, vars, spellVars, hooksVars, streamVars>>
StreamStep == system = "stream" /\ StreamNext
              /\ UNCHANGED <<system, vars, spellVars, hooksVars, movementVars>>

ReadLoopSpec ==
  /\ ReadLoopInit
  /\ [][AurasStep \/ SpellsStep \/ HooksStep \/ MovementStep \/ StreamStep]_
       <<system, vars, spellVars, hooksVars, movementVars, streamVars>>

==============================================================================
