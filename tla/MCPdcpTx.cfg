CONSTANTS
  Window = 4
  CountCard = 16
  Bearers <- MCBearers
  MaxHard = 9
  Discard = 2
  BufferSize = 1
  MaxSdus = 3
  MaxTasks = 2
  MaxLate = 1
  MaxRounds = 1
SPECIFICATION Spec
INVARIANTS
  SubmittedInOrder
  CountOnce
  DiscardedInTime
  WaitingWatched
  HeadInWindow
