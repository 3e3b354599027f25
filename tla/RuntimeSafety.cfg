CONSTANTS
    Exts = {x1}
    Hash <- MCHash
    Caps = {}
    MaxFrames = 5
    MaxImports = 1
    QueueCap = 2
    OutCap = 2
    IdWrap = 4
    Script <- SafetyScript
SPECIFICATION Spec
INVARIANTS
    TypeOK
    NoLostReply
    CallbacksMatchWaiters
    AnswerMatchesQuestion
    ActivatedMeansRan
    QuietAfterDrain
PROPERTIES
    NeverRebound
    ImplementsContract
