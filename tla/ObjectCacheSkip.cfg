CONSTANTS
  m1 = m1
  p1 = p1
  Mobs = {m1}
  Players = {p1}
  Places <- ThePlaces
  Homes <- TheHomes
  Sight = 2
  Nowhere = Nowhere
  Keep = 4
  Step = 1
  Written <- TheLayouts
  MaskBlocks <- TheMaskBlocks
  MaxPackets = 4
  MaxQueue = 2
SPECIFICATION Spec
INVARIANTS
  EveryShownObjectIsCached
CHECK_DEADLOCK FALSE
