SPECIFICATION Spec
CONSTANTS
    Cores <- FourCores
    CoreShare = 4
    MaxShareCore = 2
    MaxContainers = 4
INVARIANT ServesAsManyAsFit
INVARIANT PlanFitsCores
INVARIANT ChunksLoseNothing
INVARIANT EveryContainerIsServed
CHECK_DEADLOCK FALSE
