\* Any client, one storage in a region with a parent.
CONSTANTS
    Region = {r1, r2}
    Storage = {s1}
    NULL = NULL
    Request <- OneRequest
    Levels <- MCLevels
    Bits = 4
SPECIFICATION Spec
INVARIANT FreedWithOwner
CHECK_DEADLOCK FALSE
