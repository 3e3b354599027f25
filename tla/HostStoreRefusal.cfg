CONSTANTS
    Exts = {"e1", "e2"}
    Publishers = {"pub"}
    PublisherOf <- MCPublisherOf
    Versions = {1, 2, 3}
    Keys = {"k1", "k2"}
    Perms = {"read", "fetch", "toast"}
    Sensitive = {"read", "fetch"}
    Offered <- MCOffered
    NumFiles = 1
    MaxOps = 2
    MaxActive = 1
    Menu <- MCMenu
SPECIFICATION Spec
INVARIANTS
    RefusalLeavesNothing
