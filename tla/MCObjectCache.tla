--------------------------- MODULE MCObjectCache ---------------------------
(***************************************************************************)
(* Instances of ObjectCache for TLC: a mob and a player on a line of four  *)
(* places.  The character is teleported between two, three steps apart:    *)
(* an object may be in sight of both, or so far from the other that it is  *)
(* pruned.                                                                 *)
(***************************************************************************)
EXTENDS ObjectCache

CONSTANTS m1, p1

ThePlaces == 0 .. 3
TheHomes == {2, 5}

\* A creature on a vehicle that flies along a spline, with every optional field.
TheLayouts ==
  {[shape |-> "living",
    extras |-> {"unknown", "lowguid", "target", "transport", "vehicle", "rotation"},
    move |-> {"ontransport", "interpolated", "pitch", "falling", "elevation", "spline"},
    facing |-> "target", nodes |-> 3]}

\* UNIT_END and PLAYER_END.
TheMaskBlocks == [o \in Objects |-> IF o \in Mobs THEN 5 ELSE 42]

=============================================================================
