SPECIFICATION Spec
CONSTANTS
  btc = btc
  eth = eth
  o1 = o1
  o2 = o2
  Markets = {btc, eth}
  Optimisers = {o1, o2}
  FoldReturns <- Returns
  MostFolds = 2
  MinFolds = 2
  Margin = 1
  ConsistencyPct = 60
  MaxPromotions = 3
INVARIANT EngineOnPromoted
INVARIANT FileWhole
PROPERTY ChampionsRise
