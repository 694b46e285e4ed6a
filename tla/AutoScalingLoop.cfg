\* One namespace, two minutes, a restart of the controller: the throttle grants
\* three POSTs of quotas.
CONSTANTS
    Namespaces = {n1}
    InitHard = 1
    MaxTime = 1
    MaxBoots = 1
    MaxEvents = 1
    MaxNotices = 1
    Requests = {r1, r2, r3}
    NoRequest = NoRequest
SPECIFICATION SystemSpec
SYMMETRY RequestSymmetry
INVARIANTS
    TypeOK
    GrowthBounded
    StepByStep
PROPERTIES
    ImplementsController
\* The clock, the notifications and the restarts are bounded: the model stops.
CHECK_DEADLOCK FALSE
