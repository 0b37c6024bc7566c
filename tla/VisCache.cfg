SPECIFICATION FairSpec
CONSTANTS
  ka = ka
  kb = kb
  kc = kc
  e1 = e1
  e2 = e2
  e3 = e3
  e4 = e4
  Null = null
  Entry <- MCEntry
  Key <- MCKey
  Hash <- MCHash
  Limits <- MCLimits
  Blocks <- MCBlocks
INVARIANTS
  TypeOK
  AnswersAreLive
  ListIsSound
  IndexStaysInTable
PROPERTIES
  NewestGoesFirst
  PutIsFound
  CallsReturn
