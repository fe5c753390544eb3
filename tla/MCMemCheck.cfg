\* Two states that may share a pool, over a definition of a function, a
\* function without storage, one in error and an expression.
CONSTANTS
    Region = {r1, r2, r3, r4}
    Storage = {s1, s2}
    NULL = NULL
    Request <- MCRequest
    Levels <- MCLevels
    Bits = 6
    Alignments <- MCAlignments
    x = x
    zero = zero
    sum = sum
    f = f
    def = def
    g = g
    h = h
    p = p
    Expr <- MCExpr
    Kind <- MCKind
    Params <- MCParams
    Body <- MCBody
    Pseudo <- MCPseudo
    Bytes <- MCBytes
    Asked = {def, g, h, sum}
    State = {m1, m2}
SPECIFICATION MemCheckSpec
INVARIANTS
    NoFault
    AnswersExact
    KnownRegionsSized
    RootsTracked
SYMMETRY Addresses
CHECK_DEADLOCK FALSE
