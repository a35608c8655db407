SPECIFICATION EitherSpec
CONSTANTS
  Chunks = 3
  QueueMax = 2
  MaxReconnects = 2
  MaxMessages = 2
  ClosesStream = TRUE
  Configures = FALSE
  BudgetRefills = FALSE
  SourceMayFail = TRUE
  EOS = EOS
  Fatal = Fatal
  Flaky = Flaky
  Nothing = Nothing
\* a stream that is over stays over
CHECK_DEADLOCK FALSE
INVARIANTS
  TypeOK
  QueueIsRestOfSource
  LossBounded
  BudgetHolds
PROPERTIES
  RelaysAudio
  TranscriptionEnds
