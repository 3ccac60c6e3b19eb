\* Two clients using the key commands on two DBs, one online rewrite.
CONSTANTS
    Keys = {a, b}
    Vals = {v1}
    Nil = Nil
    Conns = {c1, c2}
    Rewriters = {r1}
    DBCount = 2
    QueueCap = 1
    MaxCmds = 3
    Ops = {"set", "del", "rename", "renamenx"}
    StartWithEmptyLog = FALSE
    MaxRestarts = 0
    MaxFailures = 0
SPECIFICATION Spec
INVARIANT TypeOK
INVARIANT ReplayMatchesMemory
INVARIANT LogSelectMatchesWriter
PROPERTY RewritePreservesLog
