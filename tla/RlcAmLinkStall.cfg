SPECIFICATION Spec
CONSTANTS
  Mod = 4
  WindowSize = 2
  Start = 3
  MaxRange = 255
  SoEnd = 99
  Lens <- Lens21
  Grants = {1, 2}
  PollPdu = 0
  PollByte = 0
  MaxRetx = 4
  MaxWindow = 0
  Discards = {}
  MaxSnPerReport = 2
  StatusSpaces = {100}
  MaxLoss = 1
  MaxEarly = 1
INVARIANT NoSilentStall
CHECK_DEADLOCK FALSE
