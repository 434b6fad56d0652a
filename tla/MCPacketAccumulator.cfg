SPECIFICATION MCSpec
CONSTANTS
  BufferSize = 4
  Bytes <- MCBytes
  Memory <- MCMemory
  Crc16 <- calculate_crc16
  MaxSince = 8
INVARIANTS TypeOK HeldTelegramIntact
PROPERTIES ImplementsTelegramStream
