CONSTANTS
    Ids = {c1}
    HourLen = 2
    RawKeep = 3
    HourlyKeep = 6
    MaxTime = 6
    MaxMoved = 1
    MaxResets = 0
    Faults = {}
    MaxFaults = 0
SPECIFICATION Spec
PROPERTY PastRowsKept
