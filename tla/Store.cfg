CONSTANTS
    MaxChunks = 3
    Variants = 1
    Callers = {c1}
    MaxCalls = 2
    Scenarios <- TwoScenarios
    None = None
SPECIFICATION Spec
CHECK_DEADLOCK FALSE
INVARIANTS
    AsyncReadAgrees
PROPERTIES
    IsRegister
