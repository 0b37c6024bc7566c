SPECIFICATION Spec
CONSTANT MaxDepthArg = 33
INVARIANTS
  NeighbourIsNearest
  LoopsMeetClosedForms
CHECK_DEADLOCK FALSE
