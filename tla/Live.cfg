SPECIFICATION FairSpec
CONSTANTS
    MAX_VALUE = 5
    INITIAL_INPUT = 2
    INITIAL_LEVEL = 1
    MAX_DELTA = 2
    PlantRate = 2
    MaxDrift = 2
    MaxInFlight = 1
    Client = client
    OtherClients = {}
    OtherCommands = {}
    RestartServer = TRUE
    ServerRunning = TRUE
    PeriodsKept = TRUE
    Faults = {"lose_response"}
    RawOutputs <- MCWideOpen
    RawLevels <- MCOneLevel
PROPERTIES
    Connects
    LoopKeepsGoing
    ValveReachesOutput
    ImplementsFairValve
