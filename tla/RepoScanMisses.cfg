\* No file is broken; two workers, channels of one.
CONSTANTS
    Files = {f1, f2, f3}
    Contents <- GoodContents
    Workers = {w1, w2}
    FileCap = 1
    MatchCap = 1
SPECIFICATION Spec
SYMMETRY WorkerSymmetry
INVARIANTS
    AllMatchesReturned
\* The scan ends.
CHECK_DEADLOCK FALSE
