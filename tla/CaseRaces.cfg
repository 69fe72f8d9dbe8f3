SPECIFICATION Spec
CONSTANTS
  Sources = {s1}
  Windows = {0, 1}
  ResolveGrace = 0
  Silences = {0}
  ExpireUnheard = FALSE
  Ends <- NoEnds
  StampLag = 1
  MaxTime = 1
  MaxCases = 2
  MaxVersion = 4
  MaxBatch = 2
  MaxAcks = 1
  Writers = {"ingest", "reconciler", "closer", "human", "policy", "faults"}
INVARIANTS TypeOK OneOpenEpisode LastWord ProjectionAgrees OneNoticePerEdge TimelineTellsTheStory VersionPinsTheRow
PROPERTIES TerminalIsTerminal ObservedNeverRewinds
CHECK_DEADLOCK FALSE
