SPECIFICATION FairSpec
CONSTANTS
  N <- MCN
  B <- MCB
  Byte <- MCByte
  Frames <- MCFrames
  Blockers = {}
  Triers = {}
  Overwriters = {bus}
  Consumers = {session}
INVARIANTS EvictionFindsRoom
PROPERTY PopReturns
