\* Two runs, the second perhaps under the version of the first.
SPECIFICATION Spec
CONSTANTS
    fBase = fBase
    fNew = fNew
    fEmpty = fEmpty
    fOrphan = fOrphan
    None = None
    Feeds <- MCFeeds
    Products <- MCProducts
    N = 2
    Provides <- MCProvides
    Listed <- MCListed
    Attempts = 2
    BatchSize = 2
    MaxRuns = 2
    Reuse = TRUE
PROPERTY OnlyTheSwapMovesSearch
CHECK_DEADLOCK FALSE
