CONSTANTS
    None = None
    Commands = {"c1", "c2", "c3"}
    Exts = {"e1", "e2"}
    Perms = {"net", "fs"}
    Provided = {"net"}
    Callers = {"c1", "c2", "c3"}
    MaxProcs = 2
    MaxEdits = 2
    MaxReloads = 3
    CommandLists <- MCCommandLists
    CallLists <- MCCallLists
    FilesOf <- MCFilesOf
SPECIFICATION Spec
INVARIANTS
    TypeOK
    ComponentsAccounted
    RuntimeAccounted
    ShownIsWhole
PROPERTIES
    ServedInTime
