SPECIFICATION Spec

CONSTANTS
    s1 = s1
    s2 = s2
    hour = hour
    day = day
    site1 = site1
    site2 = site2
    NoSite = NoSite
    Timer = Timer
    User = User
    Health = Health
    Poll = Poll
    Slots <- TwoSlots
    Sites <- TwoSites
    Ranges <- TwoRanges
    MaxScans = 2
    MaxLost = 1

CONSTRAINT FewLost

INVARIANTS
    TypeOK
    NoOrphanScan
    HistoryIsTrue
    ChartIsChosen
    FollowsAsShown

PROPERTIES
    RestoreResultKept
    DeadSessionLeaves

\* A page that was left may stop for good.
CHECK_DEADLOCK FALSE
