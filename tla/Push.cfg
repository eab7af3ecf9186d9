CONSTANTS
    anna = anna
    bert = bert
    NoOne = NoOne
    Accounts <- BothAccounts
    Scenarios <- ThreeScenarios
SPECIFICATION FairSpec
CHECK_DEADLOCK FALSE
INVARIANTS
    DeliversToAccount
    SignedOutIsSilent
PROPERTIES
    InFlightEnds
    Registers
