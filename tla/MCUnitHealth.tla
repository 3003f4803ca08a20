---------------------------- MODULE MCUnitHealth ----------------------------
(***************************************************************************)
(* The character and one mob.                                              *)
(***************************************************************************)
EXTENDS UnitHealth

CONSTANTS hero, wolf

=============================================================================
