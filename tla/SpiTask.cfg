SPECIFICATION Spec
CONSTANTS
  Requests <- MCRequests
  ReplySizes <- MCSizes
  CommandSize = 2
  ScanFloor = 2
  ScanUnits = 2
  MaxSkew = 1
  MaxUnits = 4
  Depth = 1
  MaxSends = 2
  MaxReplies = 3
  None = None
INVARIANTS PulledExact ForwardedWhole
