\* A thread of the agent and the tick.
SPECIFICATION FairSpec
CONSTANTS
    Threads = {t1}
    Tick = tick
    MaxScans = 2
    MaxFaults = 1
INVARIANTS
    DoneIsTrue
PROPERTIES
    EndedIsClosed
    DueIsScrubbed
