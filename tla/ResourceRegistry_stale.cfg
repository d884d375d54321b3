\* Resource resolution: a SUBMIT after an edit of the configuration file.
CONSTANTS
    r1 = r1
    r2 = r2
    r3 = r3
    Res = {r1, r2, r3}
    CloudRes = {r3}
    Stranger = Stranger
    NoVer = NoVer
    MaxEdits = 2
    MaxCalls = 3
INIT Init
NEXT Next
INVARIANT ResolvedCurrent
