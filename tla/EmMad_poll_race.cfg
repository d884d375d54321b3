\* GridWay is never told a non-terminal state after DONE or FAILED (PBS driver).
CONSTANTS
    j1 = j1
    j2 = j2
    w1 = w1
    w2 = w2
    NoJob = NoJob
    Jobs = {j1}
    Workers = {w1, w2}
    Driver = "pbs"
    MaxRequests = 5
    MaxQueue = 2
    MaxFaults = 1
    MaxCrashes = 1

SPECIFICATION Spec
PROPERTY TerminalReportFinal
