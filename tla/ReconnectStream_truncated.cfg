SPECIFICATION EitherSpec
CONSTANTS
  Chunks = 2
  QueueMax = 2
  MaxReconnects = 1
  MaxMessages = 2
  ClosesStream = TRUE
  Configures = FALSE
  BudgetRefills = FALSE
  SourceMayFail = FALSE
  EOS = EOS
  Fatal = Fatal
  Flaky = Flaky
  Nothing = Nothing
\* a stream that is over stays over
CHECK_DEADLOCK FALSE
INVARIANTS
  CleanEndMeansExhausted
