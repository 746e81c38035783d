\* Two edits that overlap, and nothing fails.
SPECIFICATION Spec
CONSTANTS
    Requests = {q1, q2}
    Main = Main
    ra = ra
    rb = rb
    site = site
    l1 = l1
    l2 = l2
    p0 = p0
    Rules = {ra, rb}
    Listens = {l1, l2}
    NoRule = NoRule
    StartRules <- MCStart
    Edits <- MCEdits
    Limits <- MCLimits
    Sources = {"web", "forward"}
    Keys <- MCKeys
    KeysOf <- MCKeysOf
    Ports = {l1, l2, p0}
    None = None
    NoPort = NoPort
    Sections = {s1, s2, s3, s4}
    Faults <- MCFaults
    WebRules <- MCWebRules
    ed = 2
    fa = 0
    st = 0
    cm = 0
    rs = 0
    MaxEvents = 2
SYMMETRY Alike
INVARIANT ReloadIsCurrent
CHECK_DEADLOCK FALSE
