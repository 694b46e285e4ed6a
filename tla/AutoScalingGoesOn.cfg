\* No symmetry: the properties are liveness properties.
CONSTANTS
    Namespaces = {n1}
    InitHard = 1
    MaxTime = 0
    MaxBoots = 1
    MaxEvents = 1
    MaxNotices = 2
    Requests = {r1, r2}
    NoRequest = NoRequest
SPECIFICATION SystemFairSpec
PROPERTIES
    GoroutinesGoOn
    EventReconciled
\* The clock, the notifications and the restarts are bounded: the model stops.
CHECK_DEADLOCK FALSE
