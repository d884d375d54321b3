\* MONITOR of a host the last DISCOVER announced, nothing changed since.
CONSTANTS
    r1 = r1
    r2 = r2
    r3 = r3
    Stranger = Stranger
    NoInfo = NoInfo
    Err = Err
    NoFilter = NoFilter
    Res = {r1, r2, r3}
    VoRes = {r2, r3}
    Clusters = {"c1", "c2"}
    HostFilter <- MCHostFilter
    DefaultHostList = FALSE
    MaxRequests = 5
    MaxEdits = 1
    MaxFaults = 1
    MaxPublish = 1

SPECIFICATION Spec
INVARIANT MonitorDiscovered
