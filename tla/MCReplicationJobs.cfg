\* Runners die and the box restarts; pids are not reused.
SPECIFICATION FairSpec
CONSTANTS
    Ids = {1, 2}
    Timer = timer
    Manual = {m1, m2}
    PidReuse = FALSE
    MaxManual = 3
    MaxCrashes = 1
INVARIANTS
    RowIffWorking
PROPERTY
    DueIsRun
