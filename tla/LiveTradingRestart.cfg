SPECIFICATION Spec
CONSTANTS
  None = None
  Symbol = {s1}
  Ticket = {t1, t2, f1}
  Foreign = {f1}
  MaxRisk = 1
  MaxSlip = 0
  Limits <- TwoPositions
  MaxSends = 1
  MaxRestarts = 2
CONSTRAINT Focused
SYMMETRY Interchangeable
INVARIANTS
  NeverCreditedTwice
  LearnedOnlyClosed
PROPERTIES
  Implements
