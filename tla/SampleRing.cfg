SPECIFICATION FairSpec
CONSTANTS
  Size = 3
  Modulus = 6
  Chunk = 2
  MaxBacklog = 4
  Racing = TRUE
INVARIANTS TypeOK RingValid CopiesOldest
PROPERTIES RefinesQueue PassEnds
