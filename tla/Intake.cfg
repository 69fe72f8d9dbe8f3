SPECIFICATION FairSpec
CONSTANTS
  Alerts = {a1, a2}
  Workers = {w1, w2}
  Passes = {p1}
  MaxAttempts = 2
  UnreachableAfter = 2
  Faults = {"crash", "chunk", "lose", "repeat", "replay", "probe",
            "reject", "garbled", "bounds", "witness", "call"}
  Clocked = {a1}
  Deferred = {a1}
  MaxBatches = 1
  MaxChanges = 3
  MaxFaults = 1
INVARIANTS TypeOK ProcessedMeansApplied AcceptedIsOwed
PROPERTIES Converges DownIsNoticed
