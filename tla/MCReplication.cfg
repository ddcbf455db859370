\* keep = 2 bears one failure in a row.
SPECIFICATION Spec
CONSTANTS
    Keep = 2
    MaxInstant = 6
    MaxFaults = 2
    MaxLost = 1
INVARIANTS
    CanContinue
    Delivered
PROPERTIES
    NeverRolledBack
    OnlyOwnDestroyed
