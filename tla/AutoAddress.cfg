SPECIFICATION FairSpec
CONSTANTS
  DhcpTime = 1
  TxTime = 1
  ProbeGap = 1
  ClaimTime = 1
  AnnounceGap = 1
  IdleTime = 3
  ProbeInterval = 2
  ProbeWindow = 1
  RetryPause = 2
  PauseEvery = 2
  MaxShift = 1
  Cycle = 3
INVARIANTS Defended OfferCurrent RateLimited
PROPERTIES ClaimProbed HealthyKept AddressFound IdleRetries
