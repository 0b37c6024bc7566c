SPECIFICATION FairSpec
CONSTANTS
  Morph = {m1, m2, m3}
  Input = {i1}
  Queue = {q1, q2, q3}
  Event = {e1, e2}
  MaxEvents = 1
  Null = null
INVARIANTS
  TypeOK
  AreasExclude
  OnlyRacesUseFreed
  QueueIsCounted
PROPERTIES
  LeakStays
  SwitchKeepsItsMorph
  NobodyWaitsForever
CHECK_DEADLOCK FALSE
