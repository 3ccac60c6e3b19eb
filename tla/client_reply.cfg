CONSTANTS
    r1 = r1
    r2 = r2
    r3 = r3
    b1 = b1
    Reqs <- MCReqs
    Beats <- MCBeats
    MaxDials = 1
    MaxFaults = 1
    ChanSize = 3
SPECIFICATION Spec
INVARIANT ReplyToOwnRequest
CHECK_DEADLOCK FALSE
