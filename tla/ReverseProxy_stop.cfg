\* One site, stopped while its first request comes in.
SPECIFICATION Spec
CONSTANTS
    Requests = {q1, q2}
    Sites = {sa}
    n1 = n1
    n2 = n2
    Nodes = {n1, n2}
    PoolNodes <- MCPoolNodes
    PoolLimit <- MCPoolLimit
    NodeLimit <- MCNodeLimit
    MaxHandlers = 2
    MaxServers = 1
    MaxStops = 1
SYMMETRY Alike
INVARIANT StopRetainsNothing
CHECK_DEADLOCK FALSE
