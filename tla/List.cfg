CONSTANTS
    MaxMail = 5
    InitialMail = {3, 5}
    PageSize = 2
    MaxActs = 5
    ListScenarios <- TwoScenarios
    NoSync = NoSync
SPECIFICATION ListSpec
CHECK_DEADLOCK FALSE
INVARIANTS
    NoGap
    NoGhosts
PROPERTIES
    UndoHolds
