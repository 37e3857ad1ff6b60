CONSTANTS
    Requests = {r1, r2}
    Setters = {s1, s2}
    Pollers = {p1, p2}
    None = None
    MaxCalls = 2
SPECIFICATION FairSpec
ACTION_CONSTRAINT FewCallsInOrder
INVARIANTS AtMostOnePoll DonesClosedOnce OwnPollIsComplete LastSetWins
PROPERTIES EverybodyReturns PollsKeepComing
\* After the shutdown the loop has returned and every call may have ended.
CHECK_DEADLOCK FALSE
