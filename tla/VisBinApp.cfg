SPECIFICATION Spec
CONSTANTS
  ActorName = {"scope", "goom", "nosuch"}
  Supported <- AppSupported
  BinDepth <- AllDepths
  MorphDepth <- CheckersDepth
  PreferLowest = FALSE
  Managed = FALSE
  Modes = {"TIME"}
  Steps = 1
  Eager = TRUE
  Actor = {a1, a2}
  Video = {actvideo, v1, v2, v3}
  Morph = {m1}
  ActVideo = actvideo
  Null = null
VIEW InReach
INVARIANTS
  SwitchOwnsItsObjects
PROPERTIES
  KeepsPromise
