\* Two mobs, both enemies, or one that comes and goes beside one that is no enemy.
SPECIFICATION Spec
CONSTANTS
  None = None
  Mobs = {m1, m2}
  m1 = m1
  m2 = m2
  Factions <- TheFactions
  Roaming <- TheRoaming
  QueueBound = 1
CHECK_DEADLOCK FALSE
INVARIANTS
  OnlyExcusedAreWrittenOff
PROPERTIES
  CorpseIsLeftAlone
  CombatEnds
  BotKeepsFighting
