CONSTANTS
    Ids = {c1}
    HourLen = 2
    RawKeep = 2
    HourlyKeep = 3
    MaxTime = 4
    MaxMoved = 1
    MaxResets = 1
    Faults = {"aggregate", "retention", "restart"}
    MaxFaults = 2
SPECIFICATION FairSpec
PROPERTIES CommittedRowsExact DeletedIsAggregated SamplesAreAggregated TornRowsAreMended
