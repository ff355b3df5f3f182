SPECIFICATION Spec
CONSTANTS
    MaxOffset = 4
    MaxNodes = 3
    MaxSpeculation = 2
    Speculation <- AllSpeculation
INVARIANTS
    MarksOwned
    InSpanExact
    SortedUnlessReread
CHECK_DEADLOCK FALSE
