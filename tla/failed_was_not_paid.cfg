\* A facilitator reply is lost.
SPECIFICATION Spec
CONSTANTS
    a1 = a1
    a2 = a2
    forged = forged
    r1 = r1
    r2 = r2
    r3 = r3
    USD = USD
    EUR = EUR
    Requests = {r1}
    Assertions = {a1}
    Genuine = {a1}
    SignedBps <- MCSignedBps
    Authorizations = {n1}
    Spellings = {low}
    Currencies = {USD, EUR}
    Offers <- OneQuote
    Feeds <- RateFeeds
    Faults = {"lost_reply"}
INVARIANTS
    FailedWasNotPaid
