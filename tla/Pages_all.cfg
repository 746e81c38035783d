SPECIFICATION Spec

CONSTANTS
    s1 = s1
    Slots <- OneSlot
    Timer = timer
    MaxVersion = 1
    MaxJobs = 2
    MaxLost = 1

INVARIANTS
    TypeOK

PROPERTIES
    ListsCatchUp
    ProgressEnds

\* A page that was left, or whose operation has ended, may stop for good.
CHECK_DEADLOCK FALSE
