SPECIFICATION LiveSpec
CONSTANTS
  Index = {0, 1}
  Dscp = {34, 46}
  Bearer <- Voice
  QosConfig = {1, 9}
INVARIANTS OneProfile UnmeasuredOnlyOvertaken
PROPERTY Converges
CHECK_DEADLOCK FALSE
