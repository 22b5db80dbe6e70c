\* The virtual trader, its ledger and its limits, over restarts and a new day;
\* and the profiles over three contents of config.json.
CONSTANTS
  Bids = {17, 21}
  Spread = 2
  Wide = 6
  Offset = 1
  Profit = 1
  Loss = 1
  InitialCash = 20
  LimitDiv = 6
  RateLimit = 1
  MaxExits = 2
  MaxDays = 1
  MaxStarts = 1
  DayLength = 2
  FirstList <- MCFirstList
  Lists <- MCLists
  DefaultValue = 1
  Short = 2
  Long = 2
  MaxEdits = 2
  MaxTime = 4
SPECIFICATION PartsSpec
INVARIANTS PartsTypeOK IntegrityQuiet OrderRateBounded LockedWhileHeld EvaluationsExact
PROPERTY LossLimitHolds
