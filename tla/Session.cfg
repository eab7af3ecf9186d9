CONSTANTS
    MaxTokens = 2
    Scenarios <- TwoScenarios
SPECIFICATION FairSpec
CHECK_DEADLOCK FALSE
INVARIANTS
    SignedOutStaysOut
    OnlyEndedIsWiped
    CookieFollowsSession
PROPERTIES
    SignOutEnds
