SPECIFICATION Spec
CONSTANTS
    MaxDepth = 5
    MaxStatements = 3
INVARIANTS
    ClosesAccounted
    SpacedTypesExact
CHECK_DEADLOCK FALSE
