SPECIFICATION Spec
CONSTANTS
    Limit = 5
    ParenOperands = FALSE
    Explored <- AllProductions
INVARIANTS
    FlagsScoped
    DepthIsLiveGuards
    StatementsIndependent
    ScopedUnlessRefused
