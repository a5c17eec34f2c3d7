SPECIFICATION LiveSpec
CONSTANTS
  Prohibit = TRUE
  MaxVersion = 4
  MaxUpdates = 2
INVARIANTS ReportsDisjoint RequestNotLost WakeupNotLost FlagHasTimer
PROPERTY RequestAnswered
CHECK_DEADLOCK FALSE
