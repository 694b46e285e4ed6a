\* Channels smaller than the files and the matches.
CONSTANTS
    Files = {f1, f2, f3}
    Contents <- MCContents
    Workers = {w1, w2}
    FileCap = 1
    MatchCap = 1
SPECIFICATION FairSpec
INVARIANTS
    TypeOK
    MatchesConserved
    MissesExplained
    NoSendOnClosed
    StrandedByErrorOnly
PROPERTIES
    Returns
\* The scan ends.
CHECK_DEADLOCK FALSE
