---------------------------- MODULE MCEngagement ----------------------------
(* Two mobs: one of them an enemy, which comes and goes, or both. *)
EXTENDS Engagement

CONSTANTS m1, m2

TheFactions == {{m1}, {m1, m2}}
TheRoaming == [hostiles \in TheFactions |-> IF hostiles = Mobs THEN {} ELSE {m1}]
=============================================================================
