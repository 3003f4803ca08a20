\* A bot that hunts, with a target when it dies.
SPECIFICATION TreeSpec
CONSTANTS
  Modes = {"grind"}
  Wait = 2
  Delay = 1
  Lag = 1
CHECK_DEADLOCK FALSE
INVARIANT DeadStandsStill
