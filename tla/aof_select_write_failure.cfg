\* One client on two DBs, one failed SELECT write, one rewrite.
CONSTANTS
    Keys = {a}
    Vals = {v1}
    Nil = Nil
    Conns = {c1}
    Rewriters = {r1}
    DBCount = 2
    QueueCap = 1
    MaxCmds = 2
    Ops = {"set"}
    StartWithEmptyLog = FALSE
    MaxRestarts = 0
    MaxFailures = 1
SPECIFICATION Spec
PROPERTY RewriteCompletes
CHECK_DEADLOCK FALSE
