\* A request for a sized integer.
CONSTANTS
    Modulus = 32
    MaxDepth = 12
    Wanted <- SizedInt
SPECIFICATION SetSpec
PROPERTY EveryRequestReturns
CHECK_DEADLOCK FALSE
