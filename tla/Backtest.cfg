SPECIFICATION WalkSpec
CONSTANTS
  RoundTrip = 2
  AtrFloor = 2
  AtrMax = 3
  TakeAtr = 2
  TrailAtr = 1
  MinTarget = 3
  MaxHoldBars = 2
  btc = btc
  Markets = {btc}
  Market = btc
  MaxConcurrent = 1
  DailyTradeLimit = 1
  LossLimit = 5
  StreakPause = 2
  CooldownTime = 2
  ReentryTime = 0
  MaxExposure = 100
  DayLength = 4
  Bars = 5
  Warmup = 1
  Mode = "breakout"
  Prices = {8, 12}
  Atrs = {1, 2}
  SignSets <- SomeSigns
  StopAtrs = {1, 2}
  BuySlip = 1
  BuyFee = 1
  SellCost = 0
  RiskKrw = 12
  MaxSize = 50
  EntryFloor = 10
  InitialKrw = 24
  Candles = 23
  TrainBars = 8
  StepBars = 5
  Breakouts = {10, 20}
INVARIANT DayEntries
INVARIANT BooksBalance
INVARIANT CashCovered
INVARIANT NextOpen
INVARIANT HeldAtMost
INVARIANT ReportAgrees
INVARIANT MajorityWins
