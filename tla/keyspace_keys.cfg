\* KEYS after a key's instant has come and before anything read it.
CONSTANTS
    Keys <- MCKeys
    Vals <- MCVals
    Args <- ArgsNowAhead
    Ops <- AllOps
    TicksPerMs = 1
    MaxNow = 1
    MaxTx = 1
    MaxPanics = 0
    NaN = NaN
    Nil = Nil
    a = a
    b = b
    v1 = v1
SYMMETRY KeySymmetry
SPECIFICATION Spec
PROPERTY ImplementsKeyspace
