CONSTANTS
    Exts = {x1}
    Hash <- MCHash
    Caps = {}
    MaxFrames = 3
    MaxImports = 1
    QueueCap = 1
    OutCap = 2
    IdWrap = 2
    Script <- ShutdownScript
SPECIFICATION Spec
INVARIANTS ShutdownAnsweredLast
