SPECIFICATION FairSpec
CONSTANTS
  MaxEvents = 2
  X = {0, 1}
  Size = {small, large}
  NoSize = nosize
INVARIANTS
  TypeOK
  CountIsLength
  MotionsAddUp
  SizeFollows
PROPERTIES
  DropsAreLate
  ResizeGetsLookedAt
