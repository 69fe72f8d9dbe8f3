SPECIFICATION FairSpec
CONSTANTS
  Sources = {s1}
  Windows = {0, 1}
  ResolveGrace = 0
  Silences = {0}
  ExpireUnheard = TRUE
  Ends <- NoEnds
  StampLag = 0
  MaxTime = 2
  MaxCases = 1
  MaxVersion = 3
  MaxBatch = 1
  MaxAcks = 0
  Writers = {"ingest", "closer", "reaper", "policy", "registry"}
PROPERTIES ReceiptIsSpent OrphansEnd
CHECK_DEADLOCK FALSE
