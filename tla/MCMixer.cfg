CONSTANTS
  Publishers = {p1, p2}
  Sizes <- MCSizes
  ChunkSamples = 2
  MaxChunks = 2
  MaxSamples = 5
SPECIFICATION FairSpec
INVARIANTS
  SpokenOrder
  NothingLost
  CountIsExact
PROPERTY BufferedIsMixed
CHECK_DEADLOCK FALSE
