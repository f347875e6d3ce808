SPECIFICATION TransportSpec
CONSTANTS
  Nothing = Nothing
  c1 = c1
  c2 = c2
  r1 = r1
  Callers = {c1, c2}
  Requests = {r1}
  Options <- MCOptions
  Kinds <- MCKinds
  MaxCalls = 1
  MaxVersion = 2
INVARIANTS
  CloseStopsWorker
  SubmissionTruthful
  RefreshTruthful
PROPERTIES
  CallsReturn
