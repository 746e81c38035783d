\* Two sites that share a pool that is edited once, or one site that is stopped
\* and started again.
SPECIFICATION Spec
CONSTANTS
    Requests = {q1, q2}
    Sites = {sa, sb}
    n1 = n1
    n2 = n2
    Nodes = {n1, n2}
    PoolNodes <- MCPoolNodes
    PoolLimit <- MCPoolLimit
    NodeLimit <- MCNodeLimit
    MaxHandlers = 3
    MaxServers = 2
    MaxStops = 1
SYMMETRY Alike
INVARIANTS
    TypeOK
    ServedAsMatched
    RetiredReleaseAll
    CountsAreExact
PROPERTIES
    BudgetsKept
CHECK_DEADLOCK FALSE
