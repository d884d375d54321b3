\* DISCOVER and MONITOR over a plain resource and two CREAM VO resources
\* (one with a host_filter), with edits, BDII changes and remote failures.
CONSTANTS
    r1 = r1
    r2 = r2
    r3 = r3
    Stranger = Stranger
    NoInfo = NoInfo
    Err = Err
    NoFilter = NoFilter
    Res = {r1, r2, r3}
    VoRes = {r2, r3}
    Clusters = {"c1", "c2"}
    HostFilter <- MCHostFilter
    DefaultHostList = FALSE
    MaxRequests = 5
    MaxEdits = 1
    MaxFaults = 1
    MaxPublish = 1

SPECIFICATION Spec
INVARIANT TypeOK
INVARIANT MonitorOnlyDiscovered
