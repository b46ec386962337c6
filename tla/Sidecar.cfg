\* Two connections, one browser update, one command, one rotation.
\* The sidecar stops once it has drained, and its connections run out.
SPECIFICATION Spec
CONSTANTS
    Connections = {c1, c2}
    Updates = {u}
    Commands = {k}
    MaxGeneration = 2
    LingeringRooms = TRUE
INVARIANTS
    DurableFirst
    Sequenced
    NobodyLeftBehind
    DrainSavesUpdates
PROPERTIES
    FramesEnd
CHECK_DEADLOCK FALSE
