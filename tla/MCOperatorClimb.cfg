CONSTANTS
    Vocabulary <- MCVocabulary
    MaxOperators = 3
SPECIFICATION Spec
CHECK_DEADLOCK FALSE
INVARIANTS
    ClimbExact
    RoundTripExact
