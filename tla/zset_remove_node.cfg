\* removeNode as written (skiplist.go:140), reached by callers that remove.
CONSTANTS
    Nil = Nil
    MaxLevel = 2
    MaxNodes = 4
    Removals = TRUE
    Members = {1, 2, 3}
    Scores = {1, 2}
    Borders <- MCInnerBorders
    RankArgs = {0, 1, 2}
    MaxOffset = 0
    MaxOps = 4
SPECIFICATION Spec
INVARIANT
    ListMatchesDict
