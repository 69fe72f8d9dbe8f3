SPECIFICATION Spec
CONSTANTS
  Sources = {s1}
  Windows = {0}
  ResolveGrace = 0
  Silences = {0}
  ExpireUnheard = FALSE
  Ends <- NoEnds
  StampLag = 0
  MaxTime = 0
  MaxCases = 1
  MaxVersion = 4
  MaxBatch = 2
  MaxAcks = 0
  Writers = {"ingest"}
INVARIANTS BatchNeverLosesToItself
CHECK_DEADLOCK FALSE
