SPECIFICATION FairSpec
CONSTANTS
  Depth = 2
  MaxEpoch = 2
  MaxUp = 3
  MaxDown = 2
  MaxLocal = 1
INVARIANTS AtMostOneStale UploadExact DownInOrder
PROPERTIES UploadFlows DownFlows
