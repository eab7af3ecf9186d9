CONSTANTS
    Reminder = {r1}
    Prefs <- BothChannels
    Device = {d1}
    ReminderDevice = {d1}
    Worker = {w1, w2}
    Slot = {1}
    MaxCopies = 2
    MaxAttempts = 3
    NoDeviceAttempts = 2
    ClaimLimit = 2
    TickTimeout = 1
    Lease = 2
    Drain = 2
    RetryBase = 1
    RetryCap = 2
    HasMailer = TRUE
    HasApns = TRUE
    MaxDisruptions = 1
    None = None
SYMMETRY Symmetry
SPECIFICATION Spec
INVARIANTS
    LeaseExclusive
    OnlyDisruptionsRemail
    OnlyDisruptionsRequeue
    EmailNotLost
