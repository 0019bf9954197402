SPECIFICATION Spec
CONSTANTS
  btc = btc
  eth = eth
  Markets = {btc, eth}
  MaxConcurrent = 2
  DailyTradeLimit = 2
  LossLimit = 2
  StreakPause = 2
  CooldownTime = 1
  ReentryTime = 1
  MaxExposure = 3
  DayLength = 2
  OrderQty = 2
  PnlValues <- LossOrFlat
  Live = FALSE
  ReconcileOnStart = TRUE
  HaltOnMismatch = FALSE
  UniverseAuto = FALSE
  StartMarkets = {btc, eth}
  TopN = 1
  Looks <- OneLook
  MidnightInTick = FALSE
  MaxClock = 3
  MaxFaults = 0
  MaxCrashes = 0
  MaxUserActs = 0
  UserStart = {0}
INVARIANT DailyEntries
INVARIANT ExposureCap
PROPERTY ReentryHonoured
PROPERTY LossLimitHonoured
