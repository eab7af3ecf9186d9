CONSTANTS
    a1 = a1
    a2 = a2
    p1 = p1
    b1 = b1
    Accounts = {a1, a2}
    Phones = {p1}
    Browsers = {b1}
    MaxMinted = 8
    Scenarios <- SixScenarios
SPECIFICATION Spec
CHECK_DEADLOCK FALSE
INVARIANTS
    KeyNeverLost
    OneKey
    SaltVouches
    PasswordOpens
    GoneWithSession
