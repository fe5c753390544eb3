\* Any client, two storages, three region addresses.
CONSTANTS
    Region = {r1, r2, r3}
    Storage = {s1, s2}
    NULL = NULL
    Request <- OneRequest
    Levels <- MCLevels
    Bits = 4
SPECIFICATION Spec
INVARIANTS
    TypeOK
    ListsOwned
    ChildrenLinked
    DownwardAcyclic
PROPERTIES
    FreedByOwnerOnly
CHECK_DEADLOCK FALSE
