SPECIFICATION FairSpec
CONSTANTS
    Evaluators = {timer, event}
    Gauges = {full}
    Readings = {state}
    Settings = {backup}
    ScanKey = scan
    Window = 2
    Month = 0
    MaxTime = 2
    MaxActs = 3
INVARIANTS
    AckIsForThis
PROPERTIES
    
    Settles
