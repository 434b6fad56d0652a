SPECIFICATION Spec
CONSTANTS
  Sizes <- MCSizes
  BufferSize = 3
  Timeout = 2
  PacketGap = 6
  ByteGap = 1
  LoopPeriod = 1
INVARIANTS CleanPacketHandedWhole
PROPERTIES CleanPacketsHanded
