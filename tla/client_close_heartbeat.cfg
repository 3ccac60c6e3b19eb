CONSTANTS
    r1 = r1
    r2 = r2
    r3 = r3
    b1 = b1
    Reqs <- MCReqs
    Beats <- MCBeats
    MaxDials = 0
    MaxFaults = 0
    ChanSize = 3
SPECIFICATION Spec
INVARIANT NoSendOnClosedChannel
CHECK_DEADLOCK FALSE
