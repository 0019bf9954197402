SPECIFICATION Spec
CONSTANTS
  engine = engine
  dashboard = dashboard
  Threads = {engine, dashboard}
  Capacity = 3
  Cost = 2
  Nap = 1
  Longest = 3
  Timeout = 6
  Penalties = {1, 3}
  MaxClock = 7
INVARIANT WindowBound
PROPERTY InTime
PROPERTY PenaltyHonoured
