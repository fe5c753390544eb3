\* Sources of up to seven tokens; blocks of three returns; expressions of two
\* operators.
CONSTANTS
    Families <- MCFamilies
    Types <- MCTypes
    MaxReturns = 3
    Unit = 2
    GivenValues <- MCGivenValues
    MaxOps = 2
SPECIFICATION AllSpec
INVARIANTS
    OperandsInOrder
    FaultsOnlyAtLooseEnds
    BlockTypeIsJoin
    SizedCastLossless
    NaturalsExact
    IntegersExactOrWrapped
    ArbitraryStays
PROPERTY EveryCallConsumes
CHECK_DEADLOCK FALSE
