CONSTANTS
    Documents <- MCDocuments
    MaxComments = 1
SPECIFICATION Spec
CHECK_DEADLOCK FALSE
INVARIANT NeverDropped
