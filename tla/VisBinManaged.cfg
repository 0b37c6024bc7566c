SPECIFICATION FairSpec
CONSTANTS
  ActorName = {"scope", "goom", "madspin", "nosuch"}
  Supported <- GLSupported
  BinDepth <- AllDepths
  MorphDepth <- CheckersDepth
  PreferLowest = FALSE
  Managed = TRUE
  Modes = {"TIME", "STEPS"}
  Steps = 2
  Eager = FALSE
  Actor = {a1, a2}
  Video = {actvideo, v1, v2, v3}
  Morph = {m1}
  ActVideo = actvideo
  Null = null
INVARIANTS
  TypeOK
  PointersLive
  NothingLost
  SwitchOwnsItsObjects
  NoUndefinedBehaviour
  DrawsSupportedDepth
  DepthsAgree
  NeverWaitsForGL
PROPERTIES
  MorphReadsPrivateVideos
  SwitchEnds
