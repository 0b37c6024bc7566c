SPECIFICATION FairSpec
CONSTANTS
  Activity = {a1, a2}
  View = {v1, v2}
  Mic = {m1, m2}
  Null = null
INVARIANTS
  TypeOK
  OnlyTheDestroyedRace
  BitmapIsNotShared
  NoCircularWait
PROPERTIES
  UiReturns
CHECK_DEADLOCK FALSE
