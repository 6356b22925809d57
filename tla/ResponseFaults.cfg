SPECIFICATION Spec
CONSTANTS
    MAX_VALUE = 4
    INITIAL_INPUT = 2
    INITIAL_LEVEL = 1
    MAX_DELTA = 2
    PlantRate = 2
    MaxDrift = 2
    MaxInFlight = 1
    Client = client
    OtherClients = {}
    OtherCommands = {}
    RestartServer = TRUE
    ServerRunning = TRUE
    PeriodsKept = TRUE
    Faults <- MCResponseFaults
    RawOutputs <- MCRawOutputs
    RawLevels <- MCOneLevel
INVARIANTS
    TypeOK
    ClientLimits
    ValveCommandBounded
    DriftCovered
    ValveWithinRange
PROPERTY
    ImplementsValve
