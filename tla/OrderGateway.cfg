SPECIFICATION FairTestSpec
CONSTANTS
  MaxRetries = 2
  MaxCalls = 2
  Quantities = {1, 2, 3}
  Tolerated = 400
INVARIANT AtMostOnce
INVARIANT HonestAnswer
INVARIANT NeverOversold
INVARIANT NothingLeftBehind
PROPERTY CallReturns
PROPERTY BrokerContract
CHECK_DEADLOCK FALSE
