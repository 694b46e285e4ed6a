\* Every quota has limits; one limits the requests just as tightly.
CONSTANTS
    InitQuotas <- MCQuotas
    PodSizes <- MCPodSizes
    MaxReplicas = 3
    Step = 5
SPECIFICATION FairSpec
INVARIANTS
    TypeOK
    RunningWithinQuota
PROPERTY WaitingAdmitted
