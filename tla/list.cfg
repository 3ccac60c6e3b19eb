\* Two values, five calls, indices 0..3, counts -1, 1 and 2.
CONSTANTS
    v1 = v1
    v2 = v2
    Vals = {v1, v2}
    Indices = {0, 1, 2, 3}
    Counts <- MCCounts
    MaxNodes = 5
    MaxOps = 5
    Nil = Nil
SPECIFICATION Spec
INVARIANTS
    ListWellFormed
    ReadsMatch
PROPERTY
    ImplementsList
