\* A Run with two names to try; two requests that overlap on a node with two bots, whose
\* launches may be a rollout, a repeated one, or one by hand under an id in use.
SPECIFICATION FleetSpec
CONSTANTS
  r1 = r1
  r2 = r2
  Requests = {r1, r2}
  NumBots = 2
  MaxLaunches = 2
  MaxAttempts = 2
SYMMETRY Symmetry
CHECK_DEADLOCK FALSE
INVARIANTS
  EndedHoldsNothing
  MoverEndsFirst
  InWorldIsVerified
  StopAllReachesAll
  UpdateAllReachesAll
PROPERTIES
  NothingIsLeftRunning
  ImplementsBotLife
