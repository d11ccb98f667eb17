SPECIFICATION Spec
CONSTANTS
  None = None
  Symbol = {s1, s2}
  Ticket = {t1, t2}
  Foreign = {}
  MaxRisk = 1
  MaxSlip = 1
  Limits <- EachLimitBinds
  MaxSends = 2
  MaxRestarts = 0
SYMMETRY Interchangeable
VIEW WhatIsRead
INVARIANTS
  OnePositionPerSymbol
  PositionCap
  RiskCapWithSlip
