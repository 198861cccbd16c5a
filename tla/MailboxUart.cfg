SPECIFICATION FairSpec
CONSTANTS
  N <- MCN
  B <- MCB
  Byte <- MCByte
  Frames <- MCFrames
  Blockers = {core0}
  Triers = {core1rx}
  Overwriters = {}
  Consumers = {core1tx}
INVARIANTS Layout NoLostReady NoLostSpace
PROPERTIES Implements PushReturns
