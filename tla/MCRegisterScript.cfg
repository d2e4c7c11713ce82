SPECIFICATION Spec
CONSTANTS
    f1 = f1
    f2 = f2
    f3 = f3
    d1 = d1
    d2 = d2
    p1 = p1
    p2 = p2
    Files = {f1, f2, f3}
    Dirs = {d1, d2}
    FolderOf <- TwoFolders
    Runs = {p1, p2}
    NoRun = NoRun
    MaxTroubles = 2
INVARIANT ScriptTypeOK
INVARIANT TimestampVouches
INVARIANT RegisteredReached
PROPERTY EveryFileRegistered
