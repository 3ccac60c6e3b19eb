\* Two BGREWRITEAOF requests whose goroutines overlap, one client.
CONSTANTS
    Keys = {a, b}
    Vals = {v1}
    Nil = Nil
    Conns = {c1}
    Rewriters = {r1, r2}
    DBCount = 1
    QueueCap = 1
    MaxCmds = 2
    Ops = {"set", "del"}
    StartWithEmptyLog = FALSE
    MaxRestarts = 0
    MaxFailures = 0
SPECIFICATION Spec
PROPERTY RewritePreservesLog
