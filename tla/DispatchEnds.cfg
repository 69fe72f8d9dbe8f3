SPECIFICATION FairSpec
CONSTANTS
  Workers = {w1}
  Contents = {c1}
  CanThread = TRUE
  CanAmend = TRUE
  Facts = {"change", "comment"}
  Answers = {"ok", "retry", "gone"}
  Faults = {"crash", "record"}
  Lease = 0
  MaxWait = 0
  Backoffs = {0}
  MaxReplies = 1
  MaxAttempts = 2
  MaxTime = 2
  MaxSeq = 2
  MaxNotes = 2
PROPERTIES EveryDeliveryEnds
CHECK_DEADLOCK FALSE
