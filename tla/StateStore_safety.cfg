\* Two callers, one flushAsync goroutine, two keys, one of every fault.
SPECIFICATION Spec
CONSTANTS
    Keys = {totp, cert}
    Callers = {c1, c2}
    Flushers = {f1}
    NoProc = NoProc
    NoFile = NoFile
    Budget <- MCBudget
    u = 2
    s = 1
    w = 1
    d = 1
    x = 1
SYMMETRY Alike
INVARIANTS
    TypeOK
    AckedIsSaved
PROPERTIES
    NeverGoesBack
    ImplementsDurableMap
