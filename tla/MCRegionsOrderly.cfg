\* An orderly client, two storages in every tree of three regions, sizes up to
\* the edge of a 4 bit word.
CONSTANTS
    Region = {r1, r2, r3}
    Storage = {s1, s2}
    NULL = NULL
    Request <- ThreeRequests
    Levels <- MCLevels
    Bits = 4
    Alignments <- MCAlignments
SPECIFICATION OrderlySpec
INVARIANTS
    NoOrphans
    QueriesCountEveryStorage
PROPERTY ImplementsContract
CHECK_DEADLOCK FALSE
