\* Three requests and one heartbeat over channels of one slot, so that a
\* Send can block on a full pendingReqs behind a writer blocked on a full
\* waitingReqs; a peer that answers everything written on an open
\* connection, no network fault.
CONSTANTS
    r1 = r1
    r2 = r2
    r3 = r3
    b1 = b1
    Reqs <- MCReqs3
    Beats <- MCBeats
    MaxDials = 0
    MaxFaults = 0
    ChanSize = 1
SPECIFICATION ServedSpec
PROPERTY SendReturns
\* The client stops for good after Close, or after a panic.
CHECK_DEADLOCK FALSE
