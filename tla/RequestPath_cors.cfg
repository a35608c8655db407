SPECIFICATION Spec
CONSTANTS
  Request = {r1}
  Subject = {u1}
  Tenant = {n1}
  Address = {a1}
  None = None
  Burst = 1
\* a request ends
CHECK_DEADLOCK FALSE
INVARIANT
  ErrorsReadableByBrowsers
