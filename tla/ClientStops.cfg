SPECIFICATION FairSpec
CONSTANTS
    Ip = ip
    Tank = tank
    GraphData = graph_data
    GraphDraw = graph_draw
    WaitsForConnection = TRUE
INVARIANTS
    TypeOK
    WindowThere
    CleanExit
PROPERTIES
    NoRoundAfterQuit
    StopsOnceStarted
CHECK_DEADLOCK FALSE
