SPECIFICATION Spec
CONSTANTS
    MAX_VALUE = 2
    INITIAL_INPUT = 1
    INITIAL_LEVEL = 1
    MAX_DELTA = 2
    PlantRate = 1
    MaxDrift = 0
    MaxInFlight = 1
    Client = client
    OtherClients = {}
    OtherCommands = {}
    RestartServer = TRUE
    ServerRunning = FALSE
    PeriodsKept = TRUE
    Faults <- MCSpoiltBothWays
    RawOutputs <- MCExtremes
    RawLevels <- MCOneLevel
INVARIANTS
    ClientLimits
    WrongValueFlagSpentOnce
