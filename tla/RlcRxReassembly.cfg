SPECIFICATION Spec
CONSTANTS
  Mod = 4
  MaxRange = 2
  SoEnd = 99
  First = 2
  N = 3
  Sns = {2, 3, 0}
  SduLen = 3
INVARIANTS StoredExactly InventoryExact ReportExact TrimSound
CHECK_DEADLOCK FALSE
