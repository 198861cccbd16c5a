SPECIFICATION Spec
CONSTANTS
  Depth = 2
  MaxEpoch = 2
  MaxUp = 3
  MaxDown = 0
  MaxLocal = 0
INVARIANT NoStaleUpload
