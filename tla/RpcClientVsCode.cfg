CONSTANTS
    Client = "vscode"
    MaxRequests = 4
    MaxCalls = 4
SPECIFICATION Spec
CONSTRAINT
    SetUpFirst
INVARIANTS
    SettledByOwnAnswer
