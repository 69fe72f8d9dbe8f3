SPECIFICATION Spec
CONSTANTS
  MaxRuns = 2
  Workers = {w1, w2}
  Triggers = {"human", "drawn", "membership"}
  Concurrency = 1
  Interval = 1
  DailyTokens = 2
  MaxTokens = 2
  TurnCosts = {1, 2}
  MaxAttempts = 2
  Faults = {"crash", "rescue", "db", "off"}
  MaxChanges = 2
  MaxTime = 1
INVARIANTS TypeOK WithinConcurrency FollowUpsSpaced PaidOnce FindingsPublishedOnce
SYMMETRY Symmetry
CHECK_DEADLOCK FALSE
