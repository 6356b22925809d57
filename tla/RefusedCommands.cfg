SPECIFICATION Spec
CONSTANTS
    MAX_VALUE = 6
    INITIAL_INPUT = 3
    INITIAL_LEVEL = 1
    MAX_DELTA = 2
    PlantRate = 2
    MaxDrift = 2
    MaxInFlight = 1
    Client = client
    OtherClients = {}
    OtherCommands = {}
    RestartServer = TRUE
    ServerRunning = TRUE
    PeriodsKept = TRUE
    Faults <- MCRefusedCommands
    RawOutputs <- MCRawOutputs
    RawLevels <- MCOneLevel
INVARIANT
    ExactAgreement
