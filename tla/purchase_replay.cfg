\* An agent, who may cheat, and another client, who may hold the same
\* assertion.
SPECIFICATION Spec
CONSTANTS
    book = book
    lamp = lamp
    m1 = m1
    m2 = m2
    s1 = s1
    shop = shop
    p1 = p1
    p2 = p2
    ATTACKER_PUBLISHER = nobody
    nobody = nobody
    INFLATED_COMMISSION_BPS = 9
    Missing = Missing
    Garbled = Garbled
    Purchases = {p1, p2}
    Agents = {p1}
    Direct = {p2}
    Products = {book, lamp}
    Merchants = {m1, m2}
    Minted <- TwoSlips
    Altered <- NoSlips
    OtherRequests <- Slips
    Feeds <- PriceFeeds
    EndOfTime = 1
    Faults = {"store", "lost_reply", "timeout"}
INVARIANTS
    GrossWasAuthorized
    OrdersAreAttributed
    ForgeriesGainNothing
    ReasonsNeverConflict
