CONSTANTS
  GateThread = {s1,s2}
  Deal = {d1}
  Margin = 1
  CooldownTime = 1
  MaxTime = 2
  NoTime = NoTime
SPECIFICATION GateSpec
INVARIANT NothingLost
CHECK_DEADLOCK FALSE
