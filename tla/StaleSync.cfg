CONSTANTS
  Deal = {d1}
  Margin = 1
  MaxTime = 2
  NoTime = NoTime
SPECIFICATION MonitorSpec
INVARIANT PeakFollowsFlows
CHECK_DEADLOCK FALSE
