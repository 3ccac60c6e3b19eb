\* Two clients on two DBs using SET, DEL, RENAME, FLUSHDB and FLUSHALL, one
\* online rewrite, failing writes in handleAof and failing fsync, temp-file,
\* dump, open/seek/copy and rename steps.  A failed
\* SELECT write leaks a read hold of the pause lock (aof.go:84), after
\* which the rewrite and handleAof wait forever: the program really stops.
CONSTANTS
    Keys = {a, b}
    Vals = {v1}
    Nil = Nil
    Conns = {c1, c2}
    Rewriters = {r1}
    DBCount = 2
    QueueCap = 1
    MaxCmds = 3
    Ops = {"set", "del", "rename", "flushdb", "flushall"}
    StartWithEmptyLog = FALSE
    MaxRestarts = 0
    MaxFailures = 2
SYMMETRY Symmetry
SPECIFICATION Spec
INVARIANT LogSelectMatchesWriter
PROPERTY RewritePreservesLog
CHECK_DEADLOCK FALSE
