SPECIFICATION FairSpec
CONSTANTS
  None = None
  Turn = {t1, t2}
  Session = {s1, s2}
  MaxReconnects = 1
  MaxAudio = 2
\* every turn ends, and then nothing happens any more
CHECK_DEADLOCK FALSE
INVARIANTS
  ActiveConnectionIsHeld
  ConnectionsReleased
  CountersHonest
  OwnTransitionsLegal
PROPERTIES
  KeepsContract
  RetriesEnd
  AbandonedTurnsReleased
