CONSTANTS
    Reminder = {r1}
    Prefs <- DeferredPrefs
    Device = {d1}
    ReminderDevice = {d1}
    Worker = {w1}
    Slot = {1}
    MaxCopies = 2
    MaxAttempts = 3
    NoDeviceAttempts = 2
    ClaimLimit = 2
    TickTimeout = 1
    Lease = 2
    Drain = 2
    RetryBase = 1
    RetryCap = 2
    HasMailer = TRUE
    HasApns = TRUE
    MaxDisruptions = 1
    None = None
SPECIFICATION FairSpec
PROPERTIES
    RemindersSettle
