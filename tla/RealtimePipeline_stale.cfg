SPECIFICATION Spec
CONSTANTS
  None = None
  Turn = {t1, t2}
  Session = {s1}
  MaxReconnects = 0
  MaxAudio = 1
\* every turn ends, and then nothing happens any more
CHECK_DEADLOCK FALSE
INVARIANTS
  BargeInCapturesUtterance
