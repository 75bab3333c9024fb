SPECIFICATION Spec
CONSTANTS
  a = a
  b = b
  ini = ini
  Legacy = Legacy
  Edit = {e1}
  Blank = Blank
  None = None
  Missing = Missing
  Sent = Sent
  Garbled = Garbled
  Name <- MCNames
  KindOf <- MCKinds
  Img <- MCImgs
  Full = 1
  KernelMin = 2
  MaxBlocks = 2
  MaxUploads = 1
  MaxFaults = 2
PROPERTY FlushGoesHome
SYMMETRY Symmetric
