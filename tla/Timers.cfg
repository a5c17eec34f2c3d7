SPECIFICATION LiveSpec
CONSTANTS
  Timer = {t1}
  Reserved = {}
  Durations = {0, 2}
  Word = 4
  MaxCmd = 3
  MaxAge = 4
INVARIANTS BuffersDisjoint CallbackFindsRunning TriggeredInTime
PROPERTIES KeepsContract RunEnds
CHECK_DEADLOCK FALSE
