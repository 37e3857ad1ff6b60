CONSTANTS
    Servers = {v1, v2}
    Scanners = {n1}
    Secrets = {s1, s2, s3}
    NoSecret = NoSecret
    MaxFaults = 2
SPECIFICATION FairStartup
INVARIANTS RecordedIsApplied SessionsStayValid
PROPERTY EveryProcessRuns
