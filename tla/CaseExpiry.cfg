SPECIFICATION Spec
CONSTANTS
  Sources = {s1, s2}
  Windows = {1}
  ResolveGrace = 0
  Silences = {0, 1}
  ExpireUnheard = TRUE
  Ends <- EndsEarly
  StampLag = 0
  MaxTime = 2
  MaxCases = 1
  MaxVersion = 2
  MaxBatch = 1
  MaxAcks = 0
  Writers = {"ingest", "reaper", "registry", "prober", "faults"}
SYMMETRY SourceSymmetry
INVARIANTS RowsSound
PROPERTIES NoExpiryUnseen SilentIsOverdue TimeoutStillProven
CHECK_DEADLOCK FALSE
