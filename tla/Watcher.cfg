CONSTANTS
    Ids = {c1}
    MaxOps = 3
    MaxFaults = 2
    Faults = {"stream", "list", "inspect", "write"}
SPECIFICATION FairSpec
INVARIANT RemovedIsGone
PROPERTIES RevivedOnlyByStalePoll RowsSettle StreamsFollowDocker
