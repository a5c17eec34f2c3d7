SPECIFICATION LiveSpec
CONSTANTS
  Mod = 4
  WindowSize = 2
  Start = 3
  MaxRange = 255
  SoEnd = 99
  Lens <- Lens31
  Grants = {0, 1}
  PollPdu = 0
  PollByte = 0
  MaxRetx = 4
  MaxWindow = 0
  Discards = {}
  MaxSnPerReport = 2
  StatusSpaces = {100}
  MaxLoss = 2
  MaxEarly = 0
PROPERTY AllAcknowledged
