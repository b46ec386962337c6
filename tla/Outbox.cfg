SPECIFICATION Spec
CONSTANTS
    Outboxes = {"notification", "command", "closure"}
    MaxAttempts = 2
    MaxVersion = 2
    MaxFaults = 1
INVARIANT
    NothingLost
    FullBudget
PROPERTY
    JobsEnd
