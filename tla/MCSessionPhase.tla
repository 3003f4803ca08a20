--------------------------- MODULE MCSessionPhase ---------------------------
(***************************************************************************)
(* Instances of SessionPhase for TLC, and the claim that it implements     *)
(* TeleportWait.                                                           *)
(***************************************************************************)
EXTENDS SessionPhaseRefinement

CONSTANTS p1, p2, t1, t2

MCWanted == {"authed", "in_world"}

=============================================================================
