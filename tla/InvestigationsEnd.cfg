SPECIFICATION FairSpec
CONSTANTS
  MaxRuns = 2
  Workers = {w1, w2}
  Triggers = {"human", "membership"}
  Concurrency = 1
  Interval = 1
  DailyTokens = 2
  MaxTokens = 2
  TurnCosts = {1}
  MaxAttempts = 2
  Faults = {"crash", "db"}
  MaxChanges = 2
  MaxTime = 1
PROPERTIES EveryRunEnds
CHECK_DEADLOCK FALSE
