\* Two searches, one of which may have nobody to credit, and two lives.
SPECIFICATION Spec
CONSTANTS
    mA = mA
    mB = mB
    pub = pub
    stranger = stranger
    pX = pX
    pY = pY
    pZ = pZ
    AnyMerchant = AnyMerchant
    Nobody = Nobody
    Requests = {r1, r2}
    Asks <- MCAsks
    Products <- MCProducts
    Offers <- MCOffers
    OverRate <- MCOverRate
    Publishers = {pub}
    DefaultSize = 1
    MaxSize = 2
    Capacity = 2
    MaxObserved = 4
    MaxLives = 2
INVARIANT OneLookup
INVARIANT HitsPassFilters
INVARIANT WindowIsRecent
INVARIANT SettlementsTraceToSearch
PROPERTY EverySearchEnds
CHECK_DEADLOCK FALSE
