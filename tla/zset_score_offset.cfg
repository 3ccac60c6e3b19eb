\* RangeByScore with an offset of one.
CONSTANTS
    Nil = Nil
    MaxLevel = 2
    MaxNodes = 4
    Removals = FALSE
    Members = {1, 2, 3}
    Scores = {1, 2}
    Borders <- MCInnerBorders
    RankArgs = {0, 1, 2}
    MaxOffset = 1
    MaxOps = 4
SPECIFICATION Spec
VIEW QueryView
INVARIANT
    RangeByScoreMatches
