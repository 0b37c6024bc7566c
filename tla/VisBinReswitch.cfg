SPECIFICATION Spec
CONSTANTS
  ActorName = {"scope", "goom", "madspin", "nosuch"}
  Supported <- GLSupported
  BinDepth <- AllDepths
  MorphDepth <- CheckersDepth
  PreferLowest = FALSE
  Managed = TRUE
  Modes = {"TIME", "STEPS"}
  Steps = 2
  Eager = TRUE
  Actor = {a1, a2}
  Video = {actvideo, v1, v2, v3}
  Morph = {m1}
  ActVideo = actvideo
  Null = null
INVARIANT NoUndefinedBehaviour
