SPECIFICATION FairSpec
CONSTANTS
    Titles = {"first", "second"}
    FirstTitle = "first"
    Stories <- MCStories
    Presses = {"press", "press again"}
INVARIANT
    OutcomeRetained
    SavedIsStored
PROPERTY
    AnswerSettles
CHECK_DEADLOCK FALSE
