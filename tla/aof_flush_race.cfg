\* Two clients, SET and FLUSHDB on one DB, no rewrite.
CONSTANTS
    Keys = {a}
    Vals = {v1}
    Nil = Nil
    Conns = {c1, c2}
    Rewriters = {}
    DBCount = 1
    QueueCap = 2
    MaxCmds = 2
    Ops = {"set", "flushdb"}
    StartWithEmptyLog = TRUE
    MaxRestarts = 0
    MaxFailures = 0
SPECIFICATION Spec
INVARIANT ReplayMatchesMemory
