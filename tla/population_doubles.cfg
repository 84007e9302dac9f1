\* start, stop, start.
SPECIFICATION Spec
CONSTANTS
    Absent = Absent
    None = None
    MaxCalls = 3
    Limit = 2
    DefaultConcurrency = 1
    Patches <- MCPatches
    Rates <- MCRates
    MaxStarted = 2
INVARIANT PopulationIsNotDoubled
CHECK_DEADLOCK FALSE
