SPECIFICATION FairSpec
CONSTANTS
  r1 = r1
  r2 = r2
  Requests = {r1, r2}
INVARIANT PageHonest
INVARIANT KillSurvives
PROPERTY KillRespected
PROPERTY SignalHeeded
