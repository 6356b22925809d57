SPECIFICATION Spec
CONSTANTS
    MAX_VALUE = 2
    INITIAL_INPUT = 1
    INITIAL_LEVEL = 1
    MAX_DELTA = 1
    PlantRate = 1
    MaxDrift = 0
    MaxInFlight = 2
    Client = client
    OtherClients = {other}
    OtherCommands <- MCOtherCommands
    RestartServer = FALSE
    ServerRunning = FALSE
    PeriodsKept = TRUE
    Faults <- MCLateAndReordered
    RawOutputs <- MCExtremes
    RawLevels <- MCOneLevel
INVARIANTS
    ClientLimits
    ValveCommandBounded
