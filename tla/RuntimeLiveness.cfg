CONSTANTS
    Exts = {x1}
    Hash <- MCHash
    Caps = {}
    MaxFrames = 4
    MaxImports = 1
    QueueCap = 1
    OutCap = 1
    IdWrap = 1
    Script <- LivenessScript
SPECIFICATION FairSpec
PROPERTIES
    EveryRequestAnswered
    DrainTerminates
    UnloadedWorkerStops
