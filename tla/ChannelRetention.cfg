SPECIFICATION Spec
CONSTANTS
  ReplayWindow = 4
  MaxNumber = 7
  MaxStarts = 8
  MaxSkippedKeys = 4
  MaxChainMessages = 9
  KeyLifetime = 1
  Times = {0}
INVARIANT OwnedKeysRetained
CONSTRAINT OnlyLateCancellation
CHECK_DEADLOCK FALSE
