SPECIFICATION Spec
CONSTANTS
  btc = btc
  Markets = {btc}
  MaxConcurrent = 1
  DailyTradeLimit = 2
  LossLimit = 1
  StreakPause = 2
  CooldownTime = 1
  ReentryTime = 1
  MaxExposure = 4
  DayLength = 2
  OrderQty = 2
  PnlValues <- LossOrFlat
  Live = TRUE
  ReconcileOnStart = TRUE
  HaltOnMismatch = FALSE
  UniverseAuto = FALSE
  StartMarkets = {btc}
  TopN = 1
  Looks <- OneLook
  MidnightInTick = FALSE
  MaxClock = 0
  MaxFaults = 0
  MaxCrashes = 1
  MaxUserActs = 0
  UserStart = {0}
PROPERTY LossLimitHonoured
