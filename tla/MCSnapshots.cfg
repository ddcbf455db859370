\* A short and a long period, one thing people do, one fault.
SPECIFICATION SnapFairSpec
CONSTANTS
    PERIODS <- TwoPeriods
    Policies <- ThreePolicies
    MaxActs = 1
    MaxSnapFaults = 1
PROPERTIES
    OutlivedByKeep
    TakesOnlyChanges
    Captured
    CountsKept
