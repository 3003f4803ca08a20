\* One call of WaitForSessionPhase during two teleports; a channel of capacity four holds the
\* longest run of phases before in_world (the code has sixteen), under the scheduler's fairness.
\* Or two overlapping calls and three summon requests, so that one request finds a full
\* channel and one arrives during a cancellation.
SPECIFICATION CallsSpec
CONSTANTS
  c1 = c1
  c2 = c2
  Callers = {c1, c2}
  MaxRequests = 3
  p1 = p1
  p2 = p2
  t1 = t1
  t2 = t2
  Wanted <- MCWanted
  PhaseWaiters = {p1}
  TeleportWaiters = {}
  ChanCap = 4
  MaxTeleports = 2
CHECK_DEADLOCK FALSE
INVARIANTS
  ArmedCatches
  PhaseOkWitnessed
  NoStrandedPhaseWaiter
  AcksMatchTeleports
  LoginIsKept
PROPERTIES
  ArmedWaitEnds
  StopEndsEveryWait
