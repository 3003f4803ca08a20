\* Two calls of WaitForTeleportAfter, two teleports, under the fairness of the scheduler.
SPECIFICATION Spec
CONSTANTS
  p1 = p1
  p2 = p2
  t1 = t1
  t2 = t2
  Wanted <- MCWanted
  PhaseWaiters = {}
  TeleportWaiters = {t1, t2}
  ChanCap = 1
  MaxTeleports = 2
CHECK_DEADLOCK FALSE
INVARIANTS
  NoLostTeleportWake
  RegistrationMatchesCalls
PROPERTIES
  ImplementsTeleportWait
