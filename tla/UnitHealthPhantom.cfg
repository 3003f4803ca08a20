\* Two points of health: a hit can hurt, kill exactly, or more than kill.
SPECIFICATION HealthSpec
CONSTANTS
  hero = hero
  wolf = wolf
  Self = hero
  Creatures = {wolf}
  MaxHealth = 2
  MaxReports = 4
CHECK_DEADLOCK FALSE
PROPERTY
  ReportSettlesPrediction
