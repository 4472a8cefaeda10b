SPECIFICATION Spec
CONSTANTS
    a1 = a1
    a2 = a2
    small = small
    large = large
    Agents <- MCAgents
    Instances <- MCInstances
    Concurrency <- MCConcurrency
    MaxSpawns = 2
    MaxConcurrent = 1
    MaxObject <- MCObject
    MaxReader = 1
CHECK_DEADLOCK FALSE
INVARIANT StopReachesLoop
