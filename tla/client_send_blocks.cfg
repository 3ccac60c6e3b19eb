\* Channels of one slot, three requests and one heartbeat, and a peer that
\* may never answer: a Send blocked on the full pendingReqs.
CONSTANTS
    r1 = r1
    r2 = r2
    r3 = r3
    b1 = b1
    Reqs <- MCReqs3
    Beats <- MCBeats
    MaxDials = 0
    MaxFaults = 0
    ChanSize = 1
SPECIFICATION Spec
PROPERTY SendReturns
CHECK_DEADLOCK FALSE
