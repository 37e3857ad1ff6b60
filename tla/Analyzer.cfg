CONSTANTS
    Ids = {c1, c2, c3}
    HourLen = 2
    RawKeep = 9
    HourlyKeep = 9
    MaxTime = 3
    MaxMoved = 2
    MaxResets = 1
    Faults = {"restart"}
    MaxFaults = 1
    Images = {i1, NoImage}
    NoImage = NoImage
    MaxSamples = 4
    Window = 2
    MinSpan = 1
    MinSamples = 1
    Threshold = 1
SPECIFICATION AnalyzerSpec
CONSTRAINT SampledOrDeployed
INVARIANTS AnalyzerTypeOK NothingCountedTwice ZombieIsIdle ObservesOneImage
