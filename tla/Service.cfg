SPECIFICATION SuiteSpec
CONSTANTS
  RequestBurst = 1
  Key = {k1, k2, k3}
  PerMinute = 30
  Grain = 3
  Slip = 1
  Burst = 1
  MaxKeys = 2
  MaxTime = 4
  Request = {r1, r2}
  Subject = {u1, u2}
  Tenant = {n1, n2}
  Address = {a1}
  None = None
  Turn = {t1, t2}
  Registered = {mock}
  Unknown = typo
  MaxServed = 1
SYMMETRY Symmetry
\* requests and turns end, a start-up may fail, and served requests stop at the bound
CHECK_DEADLOCK FALSE
INVARIANTS
  ServiceTypeOK
  AdmissionBounded
  RetryAfterWithinASecond
  TurnRunsForItsCaller
  BudgetSpentByItsOwn
  ResponsesReadable
  FallbackHonest
  AssembledSafely
PROPERTIES
  ForgottenOnlyInACrowd
