\* Two manifests of up to three documents, so up to four goroutines for the
\* two slots.
CONSTANTS
    Files = {f1, f2}
    Names <- MCNames
    Layouts <- MCLayouts
    Requests <- MCRequests
    Slots = 2
SPECIFICATION FairSpec
INVARIANTS
    TypeOK
    AtomicOnSingles
    CommittedWhole
PROPERTIES
    Joined
\* The edit ends.
CHECK_DEADLOCK FALSE
