CONSTANTS
    Request = {h1, h2}
    Lead = {0, 2}
    Start = {3, 6}
    Minute = 2
    LastInstant = 4
    MaxCopies = 2
    MaxRequests = 4
    MaxFailures = 1
    Scenarios <- ThreeScenarios
    None = None
    Keep = Keep
SYMMETRY Symmetry
SPECIFICATION Spec
CHECK_DEADLOCK FALSE
INVARIANTS
    ColumnFollowsRows
    RowsFollowStart
    OneRowPerLead
    FiresOnTime
    NoOrphans
PROPERTIES
    ReschedulesCurrentStart
