\* Two tabs of a plain document, one proposal, a story for each group of clicks.
SPECIFICATION FairSpec
CONSTANTS
    t1 = t1
    t2 = t2
    p = p
    Tabs = {t1, t2}
    Proposals = {p}
    Stories <- MCStories
    DraftReplacedDuringCommands = FALSE
INVARIANTS
    NothingOverwritten
    UnsavedIsGuarded
    CopyComplete
PROPERTIES
    EditsKept
    DraftsSettle
CHECK_DEADLOCK FALSE
