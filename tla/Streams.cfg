SPECIFICATION MCSpec
CONSTANTS
  MaxRecordBytes = 5
  RecordOverhead = 2
  HeaderBytes = 0
  MaxRecords = 5
  MaxRequestBody = 5
  MaxResponseBody = 4
  Sizes = {0, 1, 2, 3, 4}
  MaxCalls = 6
  MaxProofBytes = 1
  MaxStreamBytes = 16
  PartBytes = 2
  ChunkBytes = 3
  None = None
  Streams <- MCEvents
INVARIANTS
  CompletionIsWhole
  KeyAppliedOnce
  WireBounded
  CompleteExactly
  TerminalWithheld
CHECK_DEADLOCK FALSE
