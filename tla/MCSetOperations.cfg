CONSTANTS
    Vocabulary <- MCVocabulary
    MaxPieces = 4
SPECIFICATION Spec
CHECK_DEADLOCK FALSE
INVARIANTS
    ReadExact
    ReadBack
