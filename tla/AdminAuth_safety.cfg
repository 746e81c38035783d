\* Two requests at a time, one login challenge, one restart or one failed write.
SPECIFICATION Spec
CONSTANTS
    Requests = {r1, r2}
    IPs = {ip1}
    p1 = p1
    p2 = p2
    s1 = s1
    s2 = s2
    k1 = k1
    Passwords = {p1, p2}
    Secrets = {s1}
    NoSecret = NoSecret
    Recovery = {k1}
    Backups <- MCStarts
    Starts <- MCStarts
    Initial = p1
    Slots = {c1}
    MaxAttempts = 1
    MaxTime = 3
    MaxTokens = 2
    MaxGeneration = 2
    Budget <- MCBudget
    f = 1
    x = 1
ACTION_CONSTRAINTS OneFault OneAtATime BesideOlder
SYMMETRY Alike
INVARIANTS
    TypeOK
    SessionsAreEarned
    PendingIsCurrent
    FirstCodeWorks
    CodesAreSingleUse
PROPERTIES
    ConfirmedIsCurrent
    ChangesAreVerified
