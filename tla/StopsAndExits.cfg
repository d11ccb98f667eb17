CONSTANTS
  MaxPrice = 7
  Spread = 1
  Trades <- LongAndShort
  Settings <- EachRule
  MaxCrashes = 1
  Origin = 2
  FirstBar = 4
  MaxBar = 6
  Window = 1
  MaxGap = 2
  Hold = 1
  Warmup = 0
  TrainRows = 2
  RetrainEvery = 2
  MaxBridgeRestarts = 1
  Nothing = Nothing
SPECIFICATION ManagerSpec
INVARIANTS
  RiskNeverGrows EntryNotAhead BreakevenIsKept
  SignalsActedOnce EntryIsCurrent DecidedFromDisk
PROPERTIES KilledForGood BreakevenHappens ExitHappens
CHECK_DEADLOCK FALSE
