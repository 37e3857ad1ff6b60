CONSTANTS
    MaxData = 1
    MaxInFlight = 2
    MaxErrors = 1
    MaxExpiries = 1
    MaxClicks = 2
ACTION_CONSTRAINT FewEvents
SPECIFICATION FairSpec
INVARIANTS FlagsMatchLoads NobodyLeftAlone SwitchTellsTruth
PROPERTIES TabCatchesUp ExpiredAsksForLogin
\* With every budget spent an idle dashboard has nothing left to do.
CHECK_DEADLOCK FALSE
