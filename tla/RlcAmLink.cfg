SPECIFICATION Spec
CONSTANTS
  Mod = 4
  WindowSize = 2
  Start = 3
  MaxRange = 255
  SoEnd = 99
  Lens <- Lens21111
  Grants = {1}
  PollPdu = 2
  PollByte = 1
  MaxRetx = 2
  MaxWindow = 0
  Discards = {2}
  MaxSnPerReport = 2
  StatusSpaces = {3, 100}
  MaxLoss = 1
  MaxEarly = 1
INVARIANTS DeliveredOnce AckedDelivered WindowsAgree TxSane NoProtocolFailure
CHECK_DEADLOCK FALSE
