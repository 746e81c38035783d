\* A write of state.json fails, then the program restarts.
SPECIFICATION Spec
CONSTANTS
    Requests = {r1}
    IPs = {ip1}
    p1 = p1
    p2 = p2
    s1 = s1
    s2 = s2
    k1 = k1
    Passwords = {p1, p2}
    Secrets = {s1}
    NoSecret = NoSecret
    Recovery = {k1}
    Backups <- MCStarts
    Starts <- MCStarts
    Initial = p1
    Slots = {c1}
    MaxAttempts = 1
    MaxTime = 2
    MaxTokens = 2
    MaxGeneration = 2
    Budget <- MCBudget
    f = 1
    x = 1
INVARIANT CodesAreSingleUse
