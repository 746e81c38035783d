\* No seed; two overlapping flushAsync goroutines, two failing writes, a restart.
SPECIFICATION FairSpec
CONSTANTS
    Keys = {totp}
    Callers = {c1}
    Flushers = {f1, f2}
    NoProc = NoProc
    NoFile = NoFile
    Budget <- MCBudget
    u = 3
    s = 0
    w = 2
    d = 0
    x = 1
INVARIANT DirtyIsScheduled
PROPERTY UpdatesReachDisk
