\* The four modes, with the seconds at a corpse scaled down so that the wait exceeds the
\* delay by what a request may take.
SPECIFICATION TreeSpec
CONSTANTS
  Modes = {"grind", "hogger", "dungeon", "idle"}
  Wait = 2
  Delay = 1
  Lag = 1
CHECK_DEADLOCK FALSE
INVARIANT DeadDoesNothingElse
PROPERTY DeathIsHandled
