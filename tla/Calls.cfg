SPECIFICATION SuiteSpec
CONSTANTS
  Turn = {t1, t2, t3, t4}
  Override = {t4}
  None = None
  MaxWords = 3
  MaxReconnects = 1
  Frames = 2
  MaxAudio = 2
  Tenant = {n1}
  SessionId = {id}
  MaxParts = 3
  MaxRecordings = 2
  MaxTurns = 2
\* turns and calls end, and the page's session stops at its bounds
CHECK_DEADLOCK FALSE
INVARIANTS
  CallsTypeOK
  DocumentUploadedOnce
  EachWordAskedOnce
  SpokenInFullOrRaised
  PageShowsWhatIs
PROPERTIES
  EverythingEnds
