CONSTANTS
    None = None
    Requests = {"r1", "r2", "r3"}
    Users = {"ann", "bob", "cy", "dee"}
    Handles = {"ann", "bob", "dee", "lab", "tip", "new"}
    Slugs = {"s"}
    Versions = {1, 2}
    Sessions = {"d"}
    Codes = {"c1", "c2"}
    MaxNamespaces = 3
    MaxTokens = 2
    Account0 <- MCAccount
    Alias0 <- MCAlias
    Role0 <- MCRole
    Token0 <- MCToken
    Link0 <- MCLink
    Recovery0 <- MCRecovery
    Workloads <- MCWorkloads
SPECIFICATION Spec
INVARIANTS
    TypeOK
    PublishedOnce
    VersionsInstallable
    LatestIsHighest
    ClaimedOnce
    NamespacesKeepOwners
    OneShot
