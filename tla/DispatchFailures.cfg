SPECIFICATION Spec
CONSTANTS
  Workers = {w1, w2}
  Contents = {c1, c2}
  CanThread = TRUE
  CanAmend = TRUE
  Facts = {"change", "quiet", "comment"}
  Answers = {"ok", "retry", "fatal"}
  Faults = {"crash"}
  Lease = 0
  MaxWait = 0
  Backoffs = {0}
  MaxReplies = 1
  MaxAttempts = 2
  MaxTime = 2
  MaxSeq = 3
  MaxNotes = 2
SYMMETRY DispatchSymmetry
INVARIANTS HeadExact OneSender
PROPERTIES InOrder
CHECK_DEADLOCK FALSE
