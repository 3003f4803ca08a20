\* Auras: two slots and three auras of two spells, so that both slots can hold one spell,
\* in two forms, and a slot can pass from a timed to a permanent aura; three messages on
\* two objects, so that an update meets a list, a removal or another update.
\* Spells: two, and three packets after the login.
\* Hooks: two, of any of the families of one session; three rolls, one more than are
\* remembered; four packets.
\* Movement: two relocations, two headings.
\* Stream: two senders and the read loop, two packets out and in, and a connection
\* that holds one.
SPECIFICATION ReadLoopSpec
CONSTANTS
  x1 = x1
  x2 = x2
  s1 = s1
  s2 = s2
  a = a
  b = b
  north = north
  south = south
  none = none
  Guids = {x1, x2}
  Slots = {s1, s2}
  Spells = {a, b}
  NoSpell = NoSpell
  Auras <- TheAuras
  MaxMessages = 3
  BookSpells = {x1, x2}
  MaxSpellPackets = 3
  Hooks = {x1, x2}
  Notices = {"notice"}
  Streams <- TheStreams
  MaxRolls = 3
  RollBound = 2
  MaxPackets = 4
  Headings = {north, south}
  NoHeading = none
  MaxRelocations = 2
  Senders = {x1, x2}
  Buffer = 1
  MaxSends = 2
  MaxArrivals = 2
SYMMETRY Symmetry
CHECK_DEADLOCK FALSE
INVARIANTS
  MapsAgree
  UpdateLeavesOthers
  MirrorsServer
  CacheIsWhatIsSeen
  ReadyIsReady
  HooksSeeAll
  StoredBeforeTold
  OpenRollsAreListed
  RelocationHolds
  FlagFollowsSnap
  FacingIsKept
  StreamsInStep
