CONSTANTS
    Days <- TwoDays
    Ranges <- MonthsAndView
    Places <- OneDayEach
    MaxEvents = 2
    Scenarios <- ThreeScenarios
SPECIFICATION FairSpec
CHECK_DEADLOCK FALSE
INVARIANTS
    ShownIsTrue
    NoGhost
    KeptWhileSaving
PROPERTIES
    ShownLoads
