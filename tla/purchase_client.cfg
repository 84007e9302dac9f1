\* One client with every kind of request, and services that may hang.
SPECIFICATION FairSpec
CONSTANTS
    book = book
    lamp = lamp
    m1 = m1
    m2 = m2
    s1 = s1
    shop = shop
    p1 = p1
    p2 = p2
    ATTACKER_PUBLISHER = nobody
    nobody = nobody
    INFLATED_COMMISSION_BPS = 9
    Missing = Missing
    Garbled = Garbled
    Purchases = {p1}
    Agents = {}
    Direct = {}
    Products = {book, lamp}
    Merchants = {m1, m2}
    Minted <- TwoSlips
    Altered <- BadSlips
    OtherRequests <- Varied
    Feeds <- AllFeeds
    EndOfTime = 1
    Faults = {"store", "lost_reply", "timeout"}
INVARIANTS
    RefusalsMoveNothing
PROPERTIES
    GatewayAnswers
