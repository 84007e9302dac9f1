\* Three requests, loops at most two wide, none waking after three attempts.
SPECIFICATION Spec
CONSTANTS
    Absent = Absent
    None = None
    MaxCalls = 3
    Limit = 2
    DefaultConcurrency = 1
    Patches <- MCPatches
    Rates <- MCRates
    MaxStarted = 3
INVARIANT CountersAddUp
PROPERTY OnlyAStartAddsAgents
PROPERTY StoppedLoopsBeginNothing
PROPERTY StoppedPopulationEnds
CHECK_DEADLOCK FALSE
