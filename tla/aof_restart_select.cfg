\* One client on two DBs, one graceful restart, no rewrite.
CONSTANTS
    Keys = {a}
    Vals = {v1}
    Nil = Nil
    Conns = {c1}
    Rewriters = {}
    DBCount = 2
    QueueCap = 1
    MaxCmds = 2
    Ops = {"set"}
    StartWithEmptyLog = TRUE
    MaxRestarts = 1
    MaxFailures = 0
SPECIFICATION RestartSpec
INVARIANT ReplayMatchesMemory
