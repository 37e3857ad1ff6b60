SPECIFICATION FairSpec
CONSTANTS
    Ips = {i1}
    Requests = {r1, r2}
    NoIp = NoIp
    rlMaxAttempts = 2
    rlLockDuration = 2
    rlEvictAfter = 2
    Files <- MCFiles
    Environments <- MCEnvironments
    Flags <- MCFlags
    Unset = Unset
    DefaultSec = 1
    Second = 3
    MaxInt = 7
INVARIANTS
    CancelledBeforeClosed OnlyBadIntervalsCrash FewFailures
PROPERTIES
    LocksHold ServeExits LimiterLetsGo
CHECK_DEADLOCK FALSE
