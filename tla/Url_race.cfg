\* Two threads parse well-formed URLs at the same time.
CONSTANTS
    t1 = t1
    t2 = t2
    NoScheme = NoScheme
    NoSlash = NoSlash
    NoHost = NoHost
    None = None
    Threads = {t1, t2}
    Schemes = {"file", "FILE", "ssh"}
    Hosts = {"", "h"}
    Rests = {"a"}
    MaxCalls = 2

SPECIFICATION Spec
INVARIANT WellFormedParsed
