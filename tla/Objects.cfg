\* A mob and a player on a line of four places, and five packets; or the character and one
\* mob with two points of health, so that a hit can hurt, kill exactly, or more than kill,
\* and four messages.
SPECIFICATION ObjectsSpec
CONSTANTS
  m1 = m1
  p1 = p1
  Mobs = {m1}
  Players = {p1}
  Places <- ThePlaces
  Homes <- TheHomes
  Sight = 2
  Nowhere = Nowhere
  Keep = 4
  Step = 1
  Written <- TheLayouts
  MaskBlocks <- TheMaskBlocks
  MaxPackets = 5
  MaxQueue = 2
  hero = hero
  wolf = wolf
  Self = hero
  Creatures = {wolf}
  MaxHealth = 2
  MaxReports = 4
CHECK_DEADLOCK FALSE
INVARIANTS
  CacheIsWhatIsShown
  PoseIsFresh
  DeathIsSeenAtOnce
  CorpseIsKnown
  DeathIsCountedOnce
