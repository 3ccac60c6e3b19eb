\* RemoveByVal with count 0.
CONSTANTS
    v1 = v1
    v2 = v2
    Vals = {v1, v2}
    Indices = {0, 1, 2}
    Counts = {0}
    MaxNodes = 4
    MaxOps = 4
    Nil = Nil
SPECIFICATION Spec
PROPERTY
    ImplementsList
