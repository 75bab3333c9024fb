SPECIFICATION Spec
CONSTANTS
  NumSR = 1
  SeqFrames = 1
  None = None
  Debounce = 1
  DoubleClick = 2
  LongPress = 4
  Keys = {"DATA", "ENTER"}
  Enter = "ENTER"
  MaxTurn = 1
  Long = 1
  DataLong = 1
  TapTicks = 1
  HoldTicks = 2
  MaxCalls = 4
  Firmware = {"patch"}
  Scenarios <- KeysOnly
  StableFrames = 1
  EmitFrames = 3
  Unknown = Unknown
  Byte = 4
  Ram <- RamOf4
  Level <- LevelOf
  IrqVector <- IrqAt
  TrapVector <- TrapAt
  Jobs <- OneJob
  Handlers <- AllHandlers
  StackTop <- TopOfRam
  Producers = {0, 1}
  Ring = 3
  MaxBytes = 3
  MaxResets = 1
  Frt = {1}
  Counts = 32
  Compare = {0, 2, 8}
  Callers = {"dial", "tone"}
  LineOf <- Irq0Line
  Parts = {"panel"}
INVARIANT SnapshotIsNative
