\* Two ticks to the millisecond: PEXPIRE at an instant that is not a whole
\* millisecond, replayed from the AOF.
CONSTANTS
    Keys <- MCKeys
    Vals <- MCVals
    Args <- ArgsNowAhead
    Ops <- KeyOps
    TicksPerMs = 2
    MaxNow = 2
    MaxTx = 1
    MaxPanics = 0
    NaN = NaN
    Nil = Nil
    a = a
    b = b
    v1 = v1
SYMMETRY KeySymmetry
SPECIFICATION Spec
PROPERTY ReplayMatches
