CONSTANTS
    Ids = {c1}
    MaxOps = 2
    MaxFaults = 0
    Faults = {}
SPECIFICATION FairSpec
PROPERTY RunningIsStreamed
