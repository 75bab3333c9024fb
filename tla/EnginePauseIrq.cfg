SPECIFICATION FairSpec
CONSTANTS
  Controllers = {"main", "irq"}
  Kinds = {"patch"}
PROPERTY WaitEnds
