\* One namespace, one Event, one minute.
CONSTANTS
    Namespaces = {n1}
    InitHard = 1
    MaxTime = 1
    MaxBoots = 0
    MaxEvents = 1
    MaxNotices = 2
SPECIFICATION Spec
PROPERTIES
    NodeCooldown
CHECK_DEADLOCK FALSE
