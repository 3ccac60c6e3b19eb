\* A server started on an empty AOF, one client, one online rewrite.
CONSTANTS
    Keys = {a, b}
    Vals = {v1, v2}
    Nil = Nil
    Conns = {c1}
    Rewriters = {r1}
    DBCount = 1
    QueueCap = 1
    MaxCmds = 3
    Ops = {"set", "renamenx"}
    StartWithEmptyLog = TRUE
    MaxRestarts = 0
    MaxFailures = 0
SPECIFICATION Spec
PROPERTY RewritePreservesLog
