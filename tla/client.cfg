\* Two pipelined requests and one heartbeat, one network fault and one
\* successful redial; channels of two slots.
CONSTANTS
    r1 = r1
    r2 = r2
    r3 = r3
    b1 = b1
    Reqs <- MCReqs
    Beats <- MCBeats
    MaxDials = 1
    MaxFaults = 1
    ChanSize = 2
SPECIFICATION Spec
INVARIANTS TypeOK NoDoubleDone FailedNotExecuted
\* The client stops for good after Close, or after a panic.
CHECK_DEADLOCK FALSE
