SPECIFICATION Spec
CONSTANTS
  ReplayWindow = 2
  MaxNumber = 5
  MaxStarts = 6
  MaxSkippedKeys = 2
  MaxChainMessages = 9
  KeyLifetime = 1
  Times = {0, 1, 2}
INVARIANTS WindowsHold LiveStartsAuthenticate KeysGone ResponsesOpenUnlessCancelled
CHECK_DEADLOCK FALSE
