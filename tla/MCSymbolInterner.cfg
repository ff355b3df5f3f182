SPECIFICATION Spec
CONSTANTS
    Texts <- MCTexts
    Keyword <- MCKeyword
    Lookup <- MCLookup
    Fold <- MCFold
    MaxStrings = 3
    MaxDepth = 2
INVARIANTS
    StoreSound
    TwinsAreKeywords
    SameTextSameSymbol
    OwnDocumentsLoad
    FoldedIdentity
CHECK_DEADLOCK FALSE
