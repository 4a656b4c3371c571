CONSTANT MaxSources = 4
SPECIFICATION Spec
INVARIANT AllHandlesLive
CHECK_DEADLOCK FALSE
