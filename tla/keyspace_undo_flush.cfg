\* SET, then FLUSHDB in a transaction that panics.
CONSTANTS
    Keys <- MCKeys
    Vals <- MCVals
    Args <- ArgsNowAhead
    Ops <- SetFlushOps
    TicksPerMs = 1
    MaxNow = 1
    MaxTx = 1
    MaxPanics = 1
    NaN = NaN
    Nil = Nil
    a = a
    b = b
    v1 = v1
SYMMETRY KeySymmetry
SPECIFICATION Spec
PROPERTY UndoRestores
