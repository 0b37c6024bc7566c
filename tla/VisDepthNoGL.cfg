SPECIFICATION Spec
CONSTANT MaxDepthArg = 33
INVARIANT HighestNoGLIsHighest
CHECK_DEADLOCK FALSE
