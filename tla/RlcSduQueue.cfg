CONSTANTS
  Capacity = 2
  ByteLimit = 3
  Word = 4
  PdcpSns = {0, 1, 2}
  Sizes = {1}
SPECIFICATION LiveSpec
INVARIANTS
  NoQueueError
  QuiescentStateExact
  ByteLimitRespected
PROPERTIES RefinesFifo SlotReleased
