SPECIFICATION Spec
CONSTANTS
  btc = btc
  eth = eth
  Markets = {btc, eth}
  MaxConcurrent = 1
  DailyTradeLimit = 2
  LossLimit = 1
  StreakPause = 2
  CooldownTime = 1
  ReentryTime = 1
  MaxExposure = 4
  DayLength = 2
  OrderQty = 2
  PnlValues <- Flat
  Live = TRUE
  ReconcileOnStart = TRUE
  HaltOnMismatch = TRUE
  UniverseAuto = FALSE
  StartMarkets = {btc, eth}
  TopN = 1
  Looks <- OneLook
  MidnightInTick = FALSE
  MaxClock = 0
  MaxFaults = 1
  MaxCrashes = 1
  MaxUserActs = 1
  UserStart = {0}
INVARIANT TypeOK
INVARIANT Accounted
INVARIANT OwnerCoinsSafe
INVARIANT RowsBounded
PROPERTY TablesAreBook
PROPERTY HaltHonoured
