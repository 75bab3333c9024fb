SPECIFICATION MCSpec
CONSTANTS
  Cell = {c1, c2}
  Val = {ff, x}
  Blank = ff
  Missing = Missing
  Partial = Partial
  MaxTries = 2
  MaxWrites = 3
  MaxMixed = 2
  MaxFaults = 1
  MaxCycles = 1
INVARIANTS
  TypeOK
  StableSnapshotCoherent
  LossOnlyFromRacingStores
PROPERTIES
  DirtyClearedOnlyBySave
  RefinesSavedCard
  DirtyIsFlushed
