\* Two requests, every fault.
SPECIFICATION Spec
CONSTANTS
    a1 = a1
    a2 = a2
    forged = forged
    r1 = r1
    r2 = r2
    r3 = r3
    USD = USD
    EUR = EUR
    Requests = {r1, r2}
    Assertions = {a1, forged}
    Genuine = {a1}
    SignedBps <- MCSignedBps
    Authorizations = {n1, n2}
    Spellings = {low}
    Currencies = {USD, EUR}
    Offers <- AllQuotes
    Feeds <- AllFeeds
    Faults = {"store", "lost_ack", "lost_reply", "crash", "amnesia"}
SYMMETRY Symmetry
INVARIANTS
    ClaimsMatchSettlements
    RowsFollowHandlers
    SingleUse
    OnePaymentPerAssertion
    ConfirmedWasPaid
    LedgerMirrorsStatus
    LedgerBalances
    EarlyRefusalsSpendNothing
    AnswersAreTrue
    JournalHoldsRefusals
PROPERTIES
    OutcomesArePermanent
