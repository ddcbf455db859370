\* One operation at a time, with crashes, reboots and netplan failures.
SPECIFICATION FairSpec
CONSTANTS
    Callers = {agent}
    Setters = {agent}
    Confirmers = {agent}
    Contents = {c1, c2, bad}
    Refused = {bad}
    NoFile = NoFile
    Broken = Broken
    MaxFaults = 3
INVARIANTS
    NoteHoldsKept
    RevertPromised
    ForgetAfterApply
PROPERTIES
    WrittenUnderNote
    ExpiredIsSettled
