\* Three members, two scores, three levels, four calls of every mutating method;
\* skiplist.go as written; callers make no call that unlinks a node.
CONSTANTS
    Nil = Nil
    MaxLevel = 3
    MaxNodes = 4
    Removals = FALSE
    Members = {1, 2, 3}
    Scores = {1, 2}
    Borders <- MCInnerBorders
    RankArgs = {0, 1, 2}
    MaxOffset = 0
    MaxOps = 4
SPECIFICATION Spec
INVARIANTS
    TypeOK
    ListMatchesDict
    SpanInvariant
    RankConsistency
    RangeMatches
    RangeByScoreMatches
PROPERTY
    ImplementsZSet
