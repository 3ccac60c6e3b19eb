\* The member "" among the members: getRank against the header's empty name.
CONSTANTS
    Nil = Nil
    MaxLevel = 2
    MaxNodes = 4
    Removals = FALSE
    Members = {0, 1, 2}
    Scores = {1, 2}
    Borders <- MCInnerBorders
    RankArgs = {0, 1, 2}
    MaxOffset = 0
    MaxOps = 4
SPECIFICATION Spec
VIEW QueryView
INVARIANT
    RankConsistency
