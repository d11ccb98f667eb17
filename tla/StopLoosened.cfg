SPECIFICATION StopSpec
CONSTANTS
  MaxPrice = 7
  Spread = 1
  Trades <- LongAndShort
  Settings <- EachRule
  MaxCrashes = 0
PROPERTIES
  OnlyTightened
