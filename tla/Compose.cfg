CONSTANTS
    MaxMessages = 2
    Wordings = 2
    MaxDrafts = 4
    MaxEdits = 3
    Scenarios <- SixScenarios
    None = None
SPECIFICATION FairSpec
CHECK_DEADLOCK FALSE
INVARIANTS
    NoSilentLoss
    OneDraftPerMessage
    SentLeavesNoDraft
PROPERTIES
    DraftsReplacedByOwn
    AutosaveLands
