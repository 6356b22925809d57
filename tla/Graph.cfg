SPECIFICATION FairSpec
CONSTANTS
    MAX_QUEUE = 3
    Blank <- MCBlank
    WIDTH = 1
    MaxStep = 2
    MaxTime = 4
    MaxSamples = 4
    MaxRestarts = 1
    Programs = {"client", "server"}
    clear_graph_on_overflow = TRUE
INVARIANTS
    TypeOK
    DrawnInOrder
    DrawnOnGraphWhileTimeGrows
PROPERTIES
    GraphKeptWhileDrawing
    ImplementsDropQueue
    RequestHonoured
