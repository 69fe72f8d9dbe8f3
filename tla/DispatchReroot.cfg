SPECIFICATION Spec
CONSTANTS
  Workers = {w1}
  Contents = {c1, c2}
  CanThread = TRUE
  CanAmend = TRUE
  Facts = {"change", "quiet", "comment"}
  Answers = {"ok", "pointer", "gone"}
  Faults = {"rerun", "disable"}
  Lease = 0
  MaxWait = 0
  Backoffs = {0}
  MaxReplies = 0
  MaxAttempts = 2
  MaxTime = 1
  MaxSeq = 3
  MaxNotes = 2
INVARIANTS TypeOK WritesNewestCard
SYMMETRY DispatchSymmetry
CHECK_DEADLOCK FALSE
