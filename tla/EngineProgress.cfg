SPECIFICATION FairSpec
CONSTANTS
  btc = btc
  eth = eth
  Markets = {btc, eth}
  MaxConcurrent = 1
  DailyTradeLimit = 2
  LossLimit = 1
  StreakPause = 2
  CooldownTime = 1
  ReentryTime = 1
  MaxExposure = 2
  DayLength = 2
  OrderQty = 1
  PnlValues <- Flat
  Live = TRUE
  ReconcileOnStart = TRUE
  HaltOnMismatch = FALSE
  UniverseAuto = TRUE
  StartMarkets = {btc}
  TopN = 1
  Looks <- SomeLooks
  MidnightInTick = FALSE
  MaxClock = 0
  MaxFaults = 1
  MaxCrashes = 1
  MaxUserActs = 0
  UserStart = {0}
PROPERTY PositionsClose
PROPERTY RowsBacked
