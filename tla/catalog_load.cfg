\* Three runs over feeds good and bad, each under a version of its own.
SPECIFICATION Spec
CONSTANTS
    fBase = fBase
    fNew = fNew
    fEmpty = fEmpty
    fOrphan = fOrphan
    None = None
    Feeds <- MCFeeds
    Products <- MCProducts
    N = 2
    Provides <- MCProvides
    Listed <- MCListed
    Attempts = 2
    BatchSize = 2
    MaxRuns = 3
    Reuse = FALSE
INVARIANT ListingsAreOneFeed
INVARIANT SearchIsComplete
INVARIANT SuccessMovesBoth
PROPERTY OneGenerationIsKept
PROPERTY KeepsPromise
PROPERTY EveryRunEnds
CHECK_DEADLOCK FALSE
