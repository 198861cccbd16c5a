SPECIFICATION Spec
CONSTANTS
  Requests <- MCAll
  ReplySizes <- MCSizes
  PayloadMax = 2
  Depth = 1
  Versions = {1, 2}
  MaxRequests = 2
  MaxReplies = 3
  MaxFaults = 2
  None = None
INVARIANTS RequestsWhole ResponsesWhole RepliesExact
PROPERTIES CleanWritesForwarded RepliesDrain
