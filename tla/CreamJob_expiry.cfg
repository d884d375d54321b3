\* CREAM job operations: proxy expiry at any point, renewal, output copy.
CONSTANTS
    NFiles = 4
    MaxCalls = 4
    MaxExpiries = 1
    MaxFaults = 1
    MaxOthers = 1
INIT Init
NEXT Next
INVARIANT TypeOK
INVARIANT ExpiryRecovered
