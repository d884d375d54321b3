\* PBS driver: every job queued at the LRMS is one GridWay was told of.
CONSTANTS
    j1 = j1
    j2 = j2
    w1 = w1
    w2 = w2
    NoJob = NoJob
    Jobs = {j1}
    Workers = {w1}
    Driver = "pbs"
    MaxRequests = 5
    MaxQueue = 2
    MaxFaults = 1
    MaxCrashes = 1

SPECIFICATION Spec
INVARIANT NoOrphan
