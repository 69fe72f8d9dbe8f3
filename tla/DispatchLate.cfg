SPECIFICATION Spec
CONSTANTS
  Workers = {w1, w2}
  Contents = {c1, c2}
  CanThread = TRUE
  CanAmend = TRUE
  Facts = {"change", "digest"}
  Answers = {"ok", "retry", "gone"}
  Faults = {"stall", "retry", "record"}
  Lease = 0
  MaxWait = 0
  Backoffs = {0}
  MaxReplies = 1
  MaxAttempts = 2
  MaxTime = 2
  MaxSeq = 2
  MaxNotes = 2
SYMMETRY DispatchSymmetry
PROPERTIES HeadNeverRewinds DigestNeverAmended
CHECK_DEADLOCK FALSE
