\* Two keys, every key command with EXPIRE arguments now and ahead,
\* transactions of one command, one panic, a clock of three instants at two
\* ticks to the millisecond.
CONSTANTS
    Keys <- MCKeys
    Vals <- MCVals
    Args <- ArgsNowAhead
    Ops <- AllOps
    TicksPerMs = 2
    MaxNow = 2
    MaxTx = 1
    MaxPanics = 1
    NaN = NaN
    Nil = Nil
    a = a
    b = b
    v1 = v1
SYMMETRY KeySymmetry
SPECIFICATION Spec
INVARIANT TypeOK
PROPERTY ReplayMatchesToTheMs
