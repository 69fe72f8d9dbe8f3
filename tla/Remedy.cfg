SPECIFICATION FairSpec
CONSTANTS
  Approvers = {a1, a2}
  Executors = {w1, w2}
  Window = 2
  OutcomeDeadline = 1
  MaxAttempts = 3
  Faults = {"crash", "rescue", "db", "tamper"}
  MaxTime = 4
INVARIANTS TypeOK AtMostOnce EndingHonest StoryComplete
PROPERTIES KeepsPromise EveryRemedyEnds
CHECK_DEADLOCK FALSE
