\* Calls with any arguments, three in a row; sessions of three inputs; any
\* requests for types, until the stack overflows; three names in chains of up
\* to four scopes.
CONSTANTS
    Members <- MCMembers
    Aliases <- MCAliases
    Lines <- MCLines
    Start <- MCStart
    MaxCalls = 3
    Inputs <- MCInputs
    MaxInputs = 3
    Modulus = 8
    MaxDepth = 6
    Wanted <- AnyOf
    x = x
    y = y
    z = z
    NoExpr = NoExpr
    Ids = {x, y, z}
    MaxOpen = 4
    MaxMade = 5
SPECIFICATION AllSpec
INVARIANTS
    SuffixGivenKeepsTheRest
    ArgumentsNeverMisplaced
    RefsLead
    OwnedOnce
    AnswersTrue
    OrderlySessionsLive
    IndexLeadsHome
    FoundComplete
    NothingShadowed
PROPERTIES
    StoredStay
    GroundedRequestsReturn
    MeaningsStay
CHECK_DEADLOCK FALSE
