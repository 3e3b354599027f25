CONSTANTS
    Client = "jetbrains"
    MaxRequests = 3
    MaxCalls = 3
SPECIFICATION FairSpec
INVARIANTS
    TypeOK
    SettledByOwnAnswer
    PendingMatchesOpen
    AnswerBeatsClose
PROPERTIES
    EveryRequestSettles
    CallsAnswered
