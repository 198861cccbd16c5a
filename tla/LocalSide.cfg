SPECIFICATION LocalSpec
CONSTANTS
  Builds <- MCBuilds
  OldSettings <- MCOldSettings
  Hosts = {"0.0.0.0", "10.0.0.1"}
  Cidrs = {"10.0.0.2/24"}
  Ports = {"9000"}
  Lines <- MCLines
  MaxWords = 8
  MaxLines = 2
  MaxBoots = 2
  Magics <- MCMagics
  Capacity = 5
  MaxFails = 1
  Noises <- MCNoises
  FrameLists <- MCFrameLists
  CommandMax = 2
  PacketMax = 3
  Window = 1
  MaxNet = 1
  MaxEnds = 1
  Texts <- MCTexts
  MaxLed = 4
INVARIANTS BootsWhole RunsWhatBootsNext ReaderExact Resyncs UsbExact
PROPERTIES BoardStarts UsbFlows LedObeys
CHECK_DEADLOCK FALSE
