SPECIFICATION SuiteSpec
CONSTANTS
  Budget = 10
  CharsPerToken = 4
  SummaryLine = 30
  Lengths = {7, 12, 16, 17, 44}
  MaxTurns = 5
  Path = {slow, fast}
  Tenant = {n1}
  Latencies = {1, 2, 9}
  Sizes = {0, 47}
  MaxRecorded = 3
  MaxDepth = 2
  Case = {c1, c2}
  Word = {w1, w2}
  Turn = {t1, t2}
  Customer = {m1, m2}
  SessionId = {id}
  None = None
  MaxParts = 1
  Article <- ArticlesCited
  InDocument <- ArticlesThere
SYMMETRY Symmetry
\* sessions and turns stop at their bounds, requests are handled once, one line is written, an evaluation ends
CHECK_DEADLOCK FALSE
INVARIANTS
  MemoryIsTheTail
  ObservedFaithfully
  GradedHonestly
  PromptAsksOwnQuestion
  TenantsIsolated
  RecordedTurnsRemembered
PROPERTIES
  KeepsContract
