SPECIFICATION FairSpec
CONSTANTS
    MaxEdits = 2
    MaxTokens = 2
    MaxOutages = 2
    Scopes = {"readonly", "read-write"}
    MayRefuse = TRUE
    KeepsOfflineFrames = FALSE
INVARIANTS
    GuardHonest
    FreshAuthority
    CleanupWaits
PROPERTIES
    EditsSettle
\* A tab that is closed, or whose session is fatal, has nothing left to do.
CHECK_DEADLOCK FALSE
