SPECIFICATION Spec
CONSTANTS
  None = None
  Symbol = {s1}
  Ticket = {t1}
  Foreign = {}
  MaxRisk = 1
  MaxSlip = 0
  Limits <- TwoPositions
  MaxSends = 1
  MaxRestarts = 1
PROPERTIES
  FoundIsLearned
