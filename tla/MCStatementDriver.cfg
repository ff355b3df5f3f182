SPECIFICATION Spec
CONSTANTS
    None = None
    MaxTokens = 4
    MaxPolls = 2
    Scripts <- MCScripts
INVARIANTS
    Delivery
    RecoveryExact
    ModesAgree
PROPERTIES
    Fused
    Returns
CHECK_DEADLOCK FALSE
