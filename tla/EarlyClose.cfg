SPECIFICATION FairSpec
CONSTANTS
    Ip = ip
    Tank = tank
    GraphData = graph_data
    GraphDraw = graph_draw
    WaitsForConnection = FALSE
PROPERTY
    ClosingStopsProgram
CHECK_DEADLOCK FALSE
