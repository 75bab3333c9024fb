SPECIFICATION Spec
CONSTANTS
  Root = Root
  Folder880 = Folder880
  Ini = Ini
  f = f
  g = g
  RolandPN = RolandPN
  Folder <- MCFolder
  Child = {x, y}
  Tab = {t}
  Parts = 2
  None = None
  Missing = Missing
  Sent = Sent
  Garbled = Garbled
  Name <- MCNames
  KindOf <- MCKinds
  Img <- MCImgs
  Full = 1
  KernelMin = 2
  MaxBlocks = 2
  MaxUploads = 1
  MaxFaults = 1
INVARIANT AcknowledgedChunksArrive
CHECK_DEADLOCK FALSE
