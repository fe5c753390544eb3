\* Calls with any arguments, two in a row; the other machines stand still.
CONSTANTS
    Members <- MCMembers
    Aliases <- MCAliases
    Lines <- MCLines
    Start <- MCStart
    MaxCalls = 2
    Inputs = {}
    MaxInputs = 0
    Modulus = 1
    MaxDepth = 1
    Wanted = {}
    x = x
    y = y
    z = z
    NoExpr = NoExpr
    Ids = {}
    MaxOpen = 1
    MaxMade = 0
SPECIFICATION AllSpec
INVARIANT EverySkippedRemains
CHECK_DEADLOCK FALSE
