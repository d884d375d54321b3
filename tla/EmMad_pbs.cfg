\* The execution MAD with the PBS driver: safety, and announcement of finished jobs under fair thread scheduling.
CONSTANTS
    j1 = j1
    j2 = j2
    w1 = w1
    w2 = w2
    NoJob = NoJob
    Jobs = {j1}
    Workers = {w1}
    Driver = "pbs"
    MaxRequests = 5
    MaxQueue = 2
    MaxFaults = 1
    MaxCrashes = 1

SPECIFICATION FairSpec
INVARIANT TypeOK
INVARIANT NoPrematureTerminal
 
PROPERTY ImplementsJobTracking
