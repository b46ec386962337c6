SPECIFICATION FairSpec
CONSTANTS
    MaxEdits = 1
    MaxTokens = 3
    MaxOutages = 1
    Scopes = {"read-write"}
    MayRefuse = FALSE
    KeepsOfflineFrames = FALSE
PROPERTIES
    OfflineEditsMerge
\* A tab that is closed, or whose session is fatal, has nothing left to do.
CHECK_DEADLOCK FALSE
