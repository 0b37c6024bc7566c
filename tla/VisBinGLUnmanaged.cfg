SPECIFICATION Spec
CONSTANTS
  ActorName = {"scope", "goom", "madspin", "nosuch"}
  Supported <- GLSupported
  BinDepth <- AllDepths
  MorphDepth <- CheckersDepth
  PreferLowest = FALSE
  Managed = FALSE
  Modes = {"TIME", "STEPS"}
  Steps = 2
  Eager = FALSE
  Actor = {a1, a2}
  Video = {actvideo, v1, v2, v3}
  Morph = {m1}
  ActVideo = actvideo
  Null = null
INVARIANT DrawsSupportedDepth
