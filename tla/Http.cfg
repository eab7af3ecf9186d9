CONSTANTS
    post1 = post1
    put1 = put1
    anna = anna
    bert = bert
    Calls <- TwoCalls
    Idempotent <- OnePut
    Accounts <- BothAccounts
    Retries = 1
SPECIFICATION HttpFairSpec
INVARIANTS
    PostAppliedOnce
PROPERTIES
    EveryCallEnds
