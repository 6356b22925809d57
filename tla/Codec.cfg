SPECIFICATION Spec
CONSTANTS
    MAX_VALUE = 100
    Values <- MCValues
    Characters <- MCCharacters
    Replacements <- MCReplacements
INVARIANTS
    RoundTrip
    CorruptionCovered
CHECK_DEADLOCK FALSE
