SPECIFICATION Spec
CONSTANTS
    MAX_QUEUE = 3
    Blank <- MCBlank
    WIDTH = 2
    MaxStep = 1
    MaxTime = 3
    MaxSamples = 4
    MaxRestarts = 1
    Programs = {"server"}
    clear_graph_on_overflow = FALSE
INVARIANTS
    RecreatedGraphHoldsSamples
