SPECIFICATION FairSpec
CONSTANTS
  None = None
  Symbol = {s1}
  Ticket = {t1}
  Foreign = {}
  MaxRisk = 1
  MaxSlip = 0
  Limits <- TwoPositions
  MaxSends = 2
  MaxRestarts = 0
PROPERTIES
  OpenIsTracked
  ClosedIsReported
  EntryEnds
