----------------------- MODULE SessionPhaseRefinement -----------------------
(***************************************************************************)
(* SessionPhase implements TeleportWait.  A wait is over in the abstract   *)
(* specification from the moment its result is decided: leaving the list   *)
(* of waiters afterwards is a stuttering step.                             *)
(***************************************************************************)
EXTENDS SessionPhase

TeleportStatus(t) ==
  IF pc[t] = "idle" THEN "idle"
  ELSE CASE result[t] = "none" -> "waiting"
         [] result[t] = "ok"   -> "ok"
         [] OTHER              -> "gave_up"

Abstract == INSTANCE TeleportWait WITH
  Callers   <- TeleportWaiters,
  completed <- teleportSeq,
  since     <- after,
  status    <- [t \in TeleportWaiters |-> TeleportStatus(t)]

\* The locks, channels and lossy sends of setPhase and WaitForTeleportAfter
\* implement the atomic wait of TeleportWait, including its promise that a call
\* whose teleport completed returns.
ImplementsTeleportWait == Abstract!Spec

=============================================================================
