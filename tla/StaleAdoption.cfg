\* One proposal is accepted while the page is rendered again with newer data.
SPECIFICATION Spec
CONSTANTS
    t1 = t1
    t2 = t2
    p = p
    Tabs = {t1, t2}
    Proposals = {p}
    Stories <- MCCommands
    DraftReplacedDuringCommands = TRUE
INVARIANTS
    NothingOverwritten
CHECK_DEADLOCK FALSE
