\* Two requests, two genuine assertions, and a facilitator that keeps its nonces.
SPECIFICATION Spec
CONSTANTS
    a1 = a1
    a2 = a2
    forged = forged
    r1 = r1
    r2 = r2
    r3 = r3
    USD = USD
    EUR = EUR
    Requests = {r1, r2}
    Assertions = {a1, a2}
    Genuine = {a1, a2}
    SignedBps <- MCSignedBps
    Authorizations = {n1, n2}
    Spellings = {low, high}
    Currencies = {USD, EUR}
    Offers <- OneQuote
    Feeds <- RateFeeds
    Faults = {"store", "lost_ack", "lost_reply", "crash"}
SYMMETRY Symmetry
INVARIANTS
    ReplayNeedsBoth
PROPERTIES
    KeepsPromise
