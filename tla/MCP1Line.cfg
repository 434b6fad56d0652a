SPECIFICATION LineSpec
CONSTANTS
  BufferSize = 4
  Bytes <- MCBytes
  Memory <- MCMemory
  Crc16 <- MCCrc16
  Telegrams <- MCTelegrams
  NoiseBytes <- MCNoiseBytes
  MaxNoise = 2
INVARIANTS CleanFrameDelivered ExtraTelegramsCostNoise OncePerFrame
PROPERTIES DeliveredWasSent Resynchronises
