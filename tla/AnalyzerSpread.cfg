CONSTANTS
    Ids = {c1, c2}
    HourLen = 2
    RawKeep = 9
    HourlyKeep = 9
    MaxTime = 2
    MaxMoved = 1
    MaxResets = 0
    Faults = {}
    MaxFaults = 0
    Images = {i1}
    NoImage = NoImage
    MaxSamples = 2
    Window = 4
    MinSpan = 1
    MinSamples = 1
    Threshold = 1
SPECIFICATION AnalyzerSpec
INVARIANT ServiceBytesWereMoved
