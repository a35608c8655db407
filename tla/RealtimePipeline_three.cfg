SPECIFICATION Spec
CONSTANTS
  None = None
  Turn = {t1, t2, t3}
  Session = {s1, s2}
  MaxReconnects = 0
  MaxAudio = 1
SYMMETRY Symmetry
\* every turn ends, and then nothing happens any more
CHECK_DEADLOCK FALSE
INVARIANTS
  TypeOK
  RegistryHoldsLiveTurns
  OneTakeoverPerReply
PROPERTIES
  OnlyOwnerDeregisters
  MachineMovedOnlyByBargeIn
