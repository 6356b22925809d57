SPECIFICATION Spec
CONSTANTS
    MAX_VALUE = 3
    INITIAL_INPUT = 2
    INITIAL_LEVEL = 1
    MAX_DELTA = 2
    PlantRate = 1
    MaxDrift = 0
    MaxInFlight = 1
    Client = client
    OtherClients = {}
    OtherCommands = {}
    RestartServer = TRUE
    ServerRunning = FALSE
    PeriodsKept = FALSE
    Faults = {"garble_response"}
    RawOutputs <- MCExtremes
    RawLevels <- MCOneLevel
INVARIANT
    ControllerBetweenLimits
