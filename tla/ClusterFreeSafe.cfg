\* Any two nodes and two pods; one change of a cache during the check.
CONSTANTS
    n1 = n1
    n2 = n2
    Nodes = {n1, n2}
    Pods = {p1, p2}
    Resources <- MCResources
    NodeStates <- MCNodeStates
    PodStates <- MCPodStates
    Unbound = Unbound
    MaxChanges = 1
SPECIFICATION Spec
INVARIANTS
    TypeOK
    MaximaOfListed
    RoomForEach
    SafeWithOneWorker
\* The check ends.
CHECK_DEADLOCK FALSE
