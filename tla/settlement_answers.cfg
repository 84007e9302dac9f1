\* Replies are lost and the process dies, under the scheduling of the handlers.
SPECIFICATION FairSpec
CONSTANTS
    a1 = a1
    a2 = a2
    forged = forged
    r1 = r1
    r2 = r2
    r3 = r3
    USD = USD
    EUR = EUR
    Requests = {r1, r2}
    Assertions = {a1}
    Genuine = {a1}
    SignedBps <- MCSignedBps
    Authorizations = {n1, n2}
    Spellings = {low}
    Currencies = {USD, EUR}
    Offers <- OneQuote
    Feeds <- RateFeeds
    Faults = {"lost_reply", "crash"}
PROPERTIES
    EveryRequestAnswered
    EverySettlementResolves
