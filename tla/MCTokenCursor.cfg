SPECIFICATION Spec
CONSTANTS
    None = None
    LexError = LexError
    NoCall = NoCall
    MaxLookahead = 2
    MaxTokens = 3
    MaxRuns = 1
    Sources <- MCSources
INVARIANTS
    CursorSafe
    TriviaExact
    TriviaRecovered
PROPERTIES
    ImplementsTokenCursor
    CallReturns
