SPECIFICATION FairSpec
CONSTANTS
    Requests = {q1, q2}
    Payloads = {p1}
    None = None
    Deadline = 1
    StaleAfter = 1
    MaxClock = 3
    MaxHead = 2
    MaxFaults = 2
INVARIANT
    OneAttempt
    OneResult
PROPERTY
    CompletedForGood
    RunsSettle
CHECK_DEADLOCK FALSE
