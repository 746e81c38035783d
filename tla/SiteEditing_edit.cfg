SPECIFICATION Spec

CONSTANTS
    a = a
    b = b
    r1 = r1
    r2 = r2
    s1 = s1
    s2 = s2
    NoRule = NoRule
    NoSlot = NoSlot
    Tabs <- TwoTabs
    RuleIds <- TwoRules
    FirstRules <- OneRule
    Slots <- TwoSlots
    Uses <- OneWayEach
    MaxSent = 3
    MaxOpens = 2
    MaxEdits = 4
    MaxUndone = 1
    MaxProbes = 2

CONSTRAINT FewEvents
ACTION_CONSTRAINT EarlyFailure
SYMMETRY Symmetry

INVARIANTS
    TypeOK
    EditsAreInformed
    AppliedOnce

PROPERTY
    DraftKept
