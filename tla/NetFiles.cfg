SPECIFICATION Spec
CONSTANTS
  Root = Root
  Folder880 = Folder880
  Ini = Ini
  f = f
  g = g
  RolandPN = RolandPN
  Folder <- MCFolder
  Child = {x, y}
  Tab = {t, u}
  Parts = 2
  None = None
  Missing = Missing
  Sent = Sent
  Garbled = Garbled
  Name <- MCNames
  KindOf <- MCKinds
  Img <- MCImgs
  Full = 1
  KernelMin = 2
  MaxBlocks = 2
  MaxUploads = 2
  MaxFaults = 2
INVARIANTS TypeOK InUseKept OneFailureTolerated PublishedWhole
PROPERTY RefinesFolders
SYMMETRY Symmetric
CHECK_DEADLOCK FALSE
