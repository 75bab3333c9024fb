SPECIFICATION FairSpec
CONSTANTS
  Controllers = {"main", "midi"}
  Kinds = {"sr", "swap", "patch", "refused"}
INVARIANT Handshake
PROPERTIES WaitEndsUnlessResumed PauseEnds
