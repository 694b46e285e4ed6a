\* Two requests of every kind, one restart of the server.  No symmetry:
\* Answered is a liveness property.
CONSTANTS
    Requests = {r1, r2}
    Namespaces = {"team"}
    Repos <- MCRepos
    Files <- MCFiles
    Payloads <- AllPayloads
    InitTree <- MCInitTree
    MaxCrashes = 1
    NoBody = NoBody
SPECIFICATION FairSpec
INVARIANTS
    TypeOK
    LinearHistory
    RejectedByARival
    ConflictNeedsARival
    MirroredBeforeScaled
    SyncedIsDeployed
    CommitFollowsBase
    NodesWithinMaximum
PROPERTIES
    ServedAtomically
    HistoryKept
    Answered
\* Every request is served: the server has nothing left to do.
CHECK_DEADLOCK FALSE
