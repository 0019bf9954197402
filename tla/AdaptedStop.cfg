SPECIFICATION Spec
CONSTANTS
  RoundTrip = 1
  AtrFloor = 2
  AtrMax = 2
  TakeAtr = 2
  TrailAtr = 1
  MinTarget = 2
  MaxHoldBars = 2
  Prices = {8, 10, 13}
  Atrs = {1, 2, 3}
  SignSets <- SomeSigns
  FillSlips = {0, 1}
  BookEdges = {3}
  StopAtr = 2
  AdaptedStops = {1, 2}
  RiskKrw = 12
  Boosts = {10}
  MaxSize = 60
  MinOrder = 30
  EntryFloor = 35
  MaxBars = 4
  MaxFaults = 2
  MaxRestarts = 1
INVARIANT RiskAsSized
