---------------------------- MODULE MCBotMovement ----------------------------
(***************************************************************************)
(* Instances of BotMovement for TLC.                                       *)
(***************************************************************************)
EXTENDS BotMovement, TLC

CONSTANTS north, south, none

\* Headings are only compared with each other.
Symmetry == Permutations(Headings)

=============================================================================
