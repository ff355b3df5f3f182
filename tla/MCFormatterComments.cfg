CONSTANTS
    Documents <- MCDocuments
    MaxComments = 2
SPECIFICATION Spec
CHECK_DEADLOCK FALSE
INVARIANTS
    CommentsAccounted
    LineCommentSafe
    ClauseComments
