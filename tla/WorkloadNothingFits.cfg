\* One quota Event.
CONSTANTS
    Namespaces = {n1}
    InitHard = 1
    MaxTime = 1
    MaxBoots = 0
    MaxEvents = 1
    MaxNotices = 1
SPECIFICATION Spec
PROPERTIES
    SkipsWhenNothingFits
CHECK_DEADLOCK FALSE
