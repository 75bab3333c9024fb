SPECIFICATION Spec
CONSTANTS
  Cell = {c1, c2}
  Val = {ff, x}
  Blank = ff
  Missing = Missing
  Partial = Partial
  MaxMixed = 0
  MaxTries = 3
  MaxWrites = 2
  MaxFaults = 0
  MaxCycles = 0
INVARIANT CleanMeansSaved
