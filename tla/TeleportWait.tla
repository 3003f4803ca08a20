---------------------------- MODULE TeleportWait ----------------------------
(***************************************************************************)
(* What WaitForTeleportAfter promises, without phases, channels or locks:  *)
(* teleports complete one at a time, a caller remembers how many had       *)
(* completed, and its wait succeeds exactly when another one has.          *)
(***************************************************************************)
EXTENDS Naturals

CONSTANT Callers

VARIABLES
  completed,  \* teleports completed so far
  since,      \* per caller, the count it remembered
  status      \* per caller: "idle", "waiting", "ok" or "gave_up"

waitVars == <<completed, since, status>>

Init ==
  /\ completed = 0
  /\ since = [c \in Callers |-> 0]
  /\ status = [c \in Callers |-> "idle"]

Complete ==
  /\ completed' = completed + 1
  /\ UNCHANGED <<since, status>>

Remember(c) ==
  /\ status[c] = "idle"
  /\ since' = [since EXCEPT ![c] = completed]
  /\ status' = [status EXCEPT ![c] = "waiting"]
  /\ UNCHANGED completed

Succeed(c) ==
  /\ status[c] = "waiting"
  /\ completed > since[c]
  /\ status' = [status EXCEPT ![c] = "ok"]
  /\ UNCHANGED <<completed, since>>

GiveUp(c) ==
  /\ status[c] = "waiting"
  /\ status' = [status EXCEPT ![c] = "gave_up"]
  /\ UNCHANGED <<completed, since>>

Next ==
  \/ Complete
  \/ \E c \in Callers : Remember(c) \/ Succeed(c) \/ GiveUp(c)

SafeSpec == Init /\ [][Next]_waitVars

Spec == SafeSpec /\ \A c \in Callers : WF_waitVars(Succeed(c))

=============================================================================
