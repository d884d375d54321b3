\* CREAM jobStatus: an expired proxy before the delegation renewal.
CONSTANTS
    NFiles = 4
    MaxCalls = 4
    MaxExpiries = 1
    MaxFaults = 1
    MaxOthers = 1
INIT Init
NEXT Next
INVARIANT StatusFaithful
