CONSTANTS
    Presets <- MCPresets
    Deltas <- MCDeltas
    MaxDeltas = 1
    DebugAssertions = TRUE
SPECIFICATION Spec
CHECK_DEADLOCK FALSE
INVARIANTS
    RegistryExact
    HeadsExact
    NormalForm
    OutcomePreserved
PROPERTIES
    NormalizeTerminates
