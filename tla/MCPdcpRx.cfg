SPECIFICATION FairSpec
CONSTANTS
  Window = 4
  CountCard = 16
  Bearers <- MCBearers
  StartCounts = {6}
  Sent = {0, 6, 7, 9}
  Lost = 8
  MaxNotify = 11
  MaxHard = 12
  TaskIds = {1, 2}
  BufferSize = 1
  MaxBits = 1
  MaxKey = 1
INVARIANTS
  DeliveredOnce
  GapWatched
  StatusExact
  DrainedWhenSet
PROPERTIES
  AscendingDelivery
  ProcedureEnds
  GapCloses
