----------------------------- MODULE Settlement -----------------------------
(***************************************************************************)
(* The settlement service (internal/settlement), its tables in Postgres    *)
(* and the facilitator it calls.                                           *)
(*                                                                         *)
(* One process per POST /settle request.  A process runs Service.Settle    *)
(* and the rest of handleSettle, one action per step that another process, *)
(* a crash or a failure can come between.  All requests name one product   *)
(* at one merchant: requests for different listings share nothing but the  *)
(* assertion and the authorization they carry, and both are modelled.      *)
(*                                                                         *)
(* Faults names the failures that are switched on:                         *)
(*   "store"        a statement or transaction fails and rolls back (the   *)
(*                  request's context was cancelled, the database is away, *)
(*                  a foreign key is missing)                              *)
(*   "lost_ack"     a commit is durable but its acknowledgement is lost    *)
(*   "lost_reply"   an HTTP call fails for its caller: a timeout, a broken *)
(*                  connection, a 503, a body that is cut                  *)
(*   "crash"        the settlement service dies and restarts               *)
(*   "amnesia"      the facilitator restarts and forgets its nonces        *)
(***************************************************************************)
EXTENDS Commission

CONSTANTS
    Requests,         \* one per POST /settle; also its fresh settlement_id
    Assertions,       \* assertion identifiers
    Genuine,          \* those whose signature verifies
    SignedBps,        \* the commission rate each was signed with
    Authorizations,   \* EIP-3009 authorizations, each with its own nonce
    Spellings,        \* the ways the 32 bytes of a nonce are written in hex
    Currencies,
    Offers,           \* the [gross, currency] pairs a merchant may send
    Feeds,            \* the states a catalog load may leave the listing in
    Faults

Listing == [priceCents: Nat, currency: Currencies, inStock: BOOLEAN,
            commissionBps: Bps]

ASSUME GenuineAssumption == Genuine \subseteq Assertions
ASSUME SignedBpsAssumption == SignedBps \in [Assertions -> Bps]
ASSUME OffersAssumption == Offers \subseteq [gross: Nat, currency: Currencies]
ASSUME FeedsAssumption == Feeds \subseteq SUBSET Listing
ASSUME FaultsAssumption ==
    Faults \subseteq {"store", "lost_ack", "lost_reply", "crash", "amnesia"}

VARIABLES
    req,        \* what each request carries
    pc,         \* where each request's handler is
    terms,      \* the PendingSettlement a handler built: its row's columns
    status,     \* settlements.status of each row, "absent" when there is none
    consumed,   \* consumed_assertions
    ledger,     \* ledger_entries of each settlement, in insertion order
    journal,    \* rejected_attempts
    answer,     \* the outcome each handler reached
    offers,     \* the listings rows for the product and merchant
    expired,    \* assertions whose expires_at has passed
    call,       \* the facilitator's view of each request's /settle call
    nonces      \* the nonces the facilitator remembers, as they were written

handlerVars == <<pc, terms, answer>>
storeVars   == <<status, consumed, ledger, journal>>
worldVars   == <<req, offers, expired>>
chainVars   == <<call, nonces>>
vars        == <<handlerVars, storeVars, worldVars, chainVars>>

Request == [assertion: Assertions, authorization: Authorizations, spelling: Spellings,
            offer: Offers]
Terms   == [gross: Nat, bps: Bps]
NoTerms == [gross |-> 0, bps |-> 0]

Status == {"absent", "pending", "confirmed", "failed"}

(* The reasons statusFor distinguishes, and what it makes of them. *)
RefusedBeforeClaim == {"assertion_signature_invalid", "assertion_expired",
                       "listing_not_found", "listing_mismatch", "payment_invalid"}
JournalledReasons  == RefusedBeforeClaim \cup
                      {"assertion_reused", "settlement_failed",
                       "facilitator_unavailable"}
Answers == JournalledReasons \cup {"none", "bad_request", "internal_error", "confirmed"}

BeforeClaim == {"new", "verified", "priced", "cleared"}
InFlight    == {"verified", "priced", "cleared", "begun", "settling", "settled",
                "voiding", "refusing"}
PC          == InFlight \cup {"new", "done", "lost"}

Split(r) == CalculateCommission(terms[r].gross, terms[r].bps)

(* verifyTypedData hashes the nonce as bytes: an authorization spelled anew *)
(* keeps its signature.  NonceLedger compares the text.                     *)
NonceText(r) == <<req[r].authorization, req[r].spelling>>

HasRow(r) == status[r] # "absent"
Moved(r)  == call[r] = "transferred"

-----------------------------------------------------------------------------
Init ==
    /\ req \in [Requests -> Request]
    /\ pc = [r \in Requests |-> "new"]
    /\ terms = [r \in Requests |-> NoTerms]
    /\ status = [r \in Requests |-> "absent"]
    /\ consumed = {}
    /\ ledger = [r \in Requests |-> << >>]
    /\ journal = {}
    /\ answer = [r \in Requests |-> "none"]
    /\ offers \in Feeds
    /\ expired = {}
    /\ call = [r \in Requests |-> "none"]
    /\ nonces = {}

Goto(r, label) == pc' = [pc EXCEPT ![r] = label]

Continue(r, label) == Goto(r, label) /\ UNCHANGED answer

(* Settle returned an error that statusFor gives this reason. *)
Refuse(r, reason) ==
    /\ Goto(r, "refusing")
    /\ answer' = [answer EXCEPT ![r] = reason]

(* A handler that writes its response without journalling anything. *)
Answer(r, outcome) ==
    /\ Goto(r, "done")
    /\ answer' = [answer EXCEPT ![r] = outcome]

-----------------------------------------------------------------------------
(***************************************************************************)
(* Mistakes.  Each operator here is a step of the program as a plausible   *)
(* bug would have it.  No specification uses them: they say which change   *)
(* of the code each property below is there to catch.                      *)
(***************************************************************************)

(* The claim commits on its own, before the row is inserted. *)
ClaimBeforeInsert(r) ==
    /\ consumed' = consumed \cup {req[r].assertion}
    /\ \/ status' = [status EXCEPT ![r] = "pending"]
       \/ "store" \in Faults /\ UNCHANGED status
    /\ UNCHANGED <<ledger, journal>>

(* SELECT, then INSERT without the primary key to decide. *)
BeginUnchecked(r) ==
    /\ pc[r] = "cleared"
    /\ consumed' = consumed \cup {req[r].assertion}
    /\ status' = [status EXCEPT ![r] = "pending"]
    /\ Continue(r, "begun")
    /\ UNCHANGED <<terms, ledger, journal, worldVars, chainVars>>

(* RowsAffected is not looked at. *)
BeginIgnoringConflict(r) ==
    /\ pc[r] = "cleared"
    /\ req[r].assertion \in consumed
    /\ Continue(r, "begun")
    /\ UNCHANGED <<terms, storeVars, worldVars, chainVars>>

(* Any error of the claim is taken for a conflict. *)
BeginFailsAsReused(r) ==
    /\ pc[r] = "cleared"
    /\ "store" \in Faults
    /\ Refuse(r, "assertion_reused")
    /\ UNCHANGED <<terms, storeVars, worldVars, chainVars>>

(* Value moves before the assertion is claimed. *)
SendSettleEarly(r) ==
    /\ pc[r] \in {"cleared", "begun"}
    /\ call[r] = "none"
    /\ call' = [call EXCEPT ![r] = "sent"]
    /\ IF pc[r] = "begun" THEN Continue(r, "settling") ELSE UNCHANGED <<pc, answer>>
    /\ UNCHANGED <<terms, storeVars, worldVars, nonces>>

(* The nonce is recorded but not looked up. *)
TransfersUnchecked(r) ==
    /\ call[r] = "sent"
    /\ nonces' = nonces \cup {NonceText(r)}
    /\ call' = [call EXCEPT ![r] = "transferred"]
    /\ UNCHANGED <<handlerVars, storeVars, worldVars>>

(* A 200 is taken for success, its success field unread. *)
SettleReturnsUnread(r) ==
    /\ pc[r] = "settling"
    /\ call[r] \in {"transferred", "refused"}
    /\ Continue(r, "settled")
    /\ UNCHANGED <<terms, storeVars, worldVars, chainVars>>

(* The HTTP client has no timeout. *)
SettleWaits(r) ==
    /\ pc[r] = "settling"
    /\ call[r] # "sent"
    /\ Goto(r, "voiding")
    /\ answer' = [answer EXCEPT ![r] = "facilitator_unavailable"]
    /\ UNCHANGED <<terms, storeVars, worldVars, chainVars>>

(* A failed settlement gives its assertion back. *)
FailReleasingClaim(r) ==
    /\ pc[r] = "voiding"
    /\ status' = [status EXCEPT ![r] = "failed"]
    /\ consumed' = consumed \ {req[r].assertion}
    /\ Continue(r, "refusing")
    /\ UNCHANGED <<terms, ledger, journal, worldVars, chainVars>>

(* An unknown outcome is left for somebody else to record. *)
FailOnlyRefused(r) ==
    /\ pc[r] = "voiding"
    /\ status' = [status EXCEPT ![r] =
                     IF answer[r] = "settlement_failed" THEN "failed" ELSE @]
    /\ Continue(r, "refusing")
    /\ UNCHANGED <<terms, consumed, ledger, journal, worldVars, chainVars>>

(* The entries are written outside the update's transaction. *)
UpdateThenPost(r) ==
    /\ status' = [status EXCEPT ![r] = IF @ = "pending" THEN "confirmed" ELSE @]
    /\ \/ ledger' = [ledger EXCEPT ![r] = @ \o Entries(Split(r))]
       \/ "store" \in Faults /\ UNCHANGED ledger
    /\ UNCHANGED <<consumed, journal>>

(* The value has moved, so the error is dropped. *)
ConfirmFailsQuietly(r) ==
    /\ pc[r] = "settled"
    /\ "store" \in Faults
    /\ Answer(r, "confirmed")
    /\ UNCHANGED <<terms, storeVars, worldVars, chainVars>>

(* handleSettle journals every error. *)
ConfirmFailsJournalled(r) ==
    /\ pc[r] = "settled"
    /\ "store" \in Faults
    /\ Refuse(r, "internal_error")
    /\ UNCHANGED <<terms, storeVars, worldVars, chainVars>>

-----------------------------------------------------------------------------
(* handleSettle: a body that does not decode is answered 400 at once. *)
RejectMalformed(r) ==
    /\ pc[r] = "new"
    /\ Answer(r, "bad_request")
    /\ UNCHANGED <<terms, storeVars, worldVars, chainVars>>

(* Verifier.Verify: the signature first, the expiry only when it holds. *)
VerifyAssertion(r) ==
    LET a == req[r].assertion IN
    /\ pc[r] = "new"
    /\ \/ a \notin Genuine /\ Refuse(r, "assertion_signature_invalid")
       \/ a \in Genuine /\ a \in expired /\ Refuse(r, "assertion_expired")
       \/ a \in Genuine /\ a \notin expired /\ Continue(r, "verified")
    /\ UNCHANGED <<terms, storeVars, worldVars, chainVars>>

Sellable(l, offer) ==
    l.inStock /\ l.currency = offer.currency /\ l.priceCents = offer.gross

(* The listing is read once; nothing reads it again before value moves. *)
LookupListing(r) ==
    /\ pc[r] = "verified"
    /\ \/ /\ offers = {}
          /\ Refuse(r, "listing_not_found")
          /\ UNCHANGED terms
       \/ \E l \in offers :
             /\ ~Sellable(l, req[r].offer)
             /\ Refuse(r, "listing_mismatch")
             /\ UNCHANGED terms
       \/ \E l \in offers :
             /\ Sellable(l, req[r].offer)
             /\ Continue(r, "priced")
             /\ terms' = [terms EXCEPT ![r] =
                   [gross |-> req[r].offer.gross,
                    bps   |-> EffectiveCommissionBps(
                                 SignedBps[req[r].assertion], l.commissionBps)]]
       \/ /\ "store" \in Faults
          /\ Answer(r, "internal_error")
          /\ UNCHANGED terms
    /\ UNCHANGED <<storeVars, worldVars, chainVars>>

(* The check before the claim.  The facilitator may refuse any payment. *)
FacilitatorVerify(r) ==
    /\ pc[r] = "priced"
    /\ \/ Continue(r, "cleared")
       \/ Refuse(r, "payment_invalid")
       \/ "lost_reply" \in Faults /\ Refuse(r, "facilitator_unavailable")
    /\ UNCHANGED <<terms, storeVars, worldVars, chainVars>>

-----------------------------------------------------------------------------
(* The transaction of Store.Begin: the claim and the pending row.  A gross *)
(* of zero matches a free listing and breaks a constraint of settlements.  *)
ClaimAndInsert(r) ==
    /\ consumed' = consumed \cup {req[r].assertion}
    /\ status' = [status EXCEPT ![r] = "pending"]
    /\ UNCHANGED <<ledger, journal>>

Begin(r) ==
    /\ pc[r] = "cleared"
    /\ req[r].assertion \notin consumed
    /\ terms[r].gross > 0
    /\ ClaimAndInsert(r)
    /\ Continue(r, "begun")
    /\ UNCHANGED <<terms, worldVars, chainVars>>

(* The INSERT meets the primary key of consumed_assertions: no row affected. *)
BeginReused(r) ==
    /\ pc[r] = "cleared"
    /\ req[r].assertion \in consumed
    /\ Refuse(r, "assertion_reused")
    /\ UNCHANGED <<terms, storeVars, worldVars, chainVars>>

BeginFails(r) ==
    /\ pc[r] = "cleared"
    /\ \/ "store" \in Faults
       \/ req[r].assertion \notin consumed /\ terms[r].gross = 0
    /\ Answer(r, "internal_error")
    /\ UNCHANGED <<terms, storeVars, worldVars, chainVars>>

BeginUnacknowledged(r) ==
    /\ pc[r] = "cleared"
    /\ "lost_ack" \in Faults
    /\ req[r].assertion \notin consumed
    /\ terms[r].gross > 0
    /\ ClaimAndInsert(r)
    /\ Answer(r, "internal_error")
    /\ UNCHANGED <<terms, worldVars, chainVars>>

-----------------------------------------------------------------------------
(* facilitator.Settle is sent once and never again. *)
SendSettle(r) ==
    /\ pc[r] = "begun"
    /\ Continue(r, "settling")
    /\ call' = [call EXCEPT ![r] = "sent"]
    /\ UNCHANGED <<terms, storeVars, worldVars, nonces>>

(* The facilitator handles a call whenever it arrives, its caller waiting  *)
(* or not: NonceLedger.claim, then the transfer.                           *)
FacilitatorTransfers(r) ==
    /\ call[r] = "sent"
    /\ NonceText(r) \notin nonces
    /\ nonces' = nonces \cup {NonceText(r)}
    /\ call' = [call EXCEPT ![r] = "transferred"]
    /\ UNCHANGED <<handlerVars, storeVars, worldVars>>

(* A used nonce, a lapsed validity window or an injected fault. *)
FacilitatorRefuses(r) ==
    /\ call[r] = "sent"
    /\ call' = [call EXCEPT ![r] = "refused"]
    /\ UNCHANGED <<handlerVars, storeVars, worldVars, nonces>>

SettleReturns(r) ==
    /\ pc[r] = "settling"
    /\ \/ call[r] = "transferred" /\ Continue(r, "settled")
       \/ /\ call[r] = "refused"
          /\ Goto(r, "voiding")
          /\ answer' = [answer EXCEPT ![r] = "settlement_failed"]
    /\ UNCHANGED <<terms, storeVars, worldVars, chainVars>>

(* The caller gives up, whatever the facilitator did or has yet to do. *)
SettleUnavailable(r) ==
    /\ pc[r] = "settling"
    /\ "lost_reply" \in Faults
    /\ Goto(r, "voiding")
    /\ answer' = [answer EXCEPT ![r] = "facilitator_unavailable"]
    /\ UNCHANGED <<terms, storeVars, worldVars, chainVars>>

-----------------------------------------------------------------------------
(* Store.Fail updates the row only WHERE status is still pending. *)
MarkFailed(r) ==
    status' = [status EXCEPT ![r] = IF @ = "pending" THEN "failed" ELSE @]

Fail(r) ==
    /\ pc[r] = "voiding"
    /\ MarkFailed(r)
    /\ Continue(r, "refusing")
    /\ UNCHANGED <<terms, consumed, ledger, journal, worldVars, chainVars>>

(* Its error is joined to the facilitator's, which keeps its reason. *)
FailFails(r) ==
    /\ pc[r] = "voiding"
    /\ "store" \in Faults
    /\ Continue(r, "refusing")
    /\ UNCHANGED <<terms, storeVars, worldVars, chainVars>>

(* The transaction of Store.Confirm: nothing unless the row is pending. *)
UpdateAndPost(r) ==
    /\ status' = [status EXCEPT ![r] = IF @ = "pending" THEN "confirmed" ELSE @]
    /\ ledger' = [ledger EXCEPT ![r] =
                     IF status[r] = "pending" THEN @ \o Entries(Split(r)) ELSE @]
    /\ UNCHANGED <<consumed, journal>>

Confirm(r) ==
    /\ pc[r] = "settled"
    /\ UpdateAndPost(r)
    /\ Answer(r, IF status[r] = "pending" THEN "confirmed" ELSE "internal_error")
    /\ UNCHANGED <<terms, worldVars, chainVars>>

ConfirmFails(r) ==
    /\ pc[r] = "settled"
    /\ "store" \in Faults
    /\ Answer(r, "internal_error")
    /\ UNCHANGED <<terms, storeVars, worldVars, chainVars>>

ConfirmUnacknowledged(r) ==
    /\ pc[r] = "settled"
    /\ "lost_ack" \in Faults
    /\ UpdateAndPost(r)
    /\ Answer(r, "internal_error")
    /\ UNCHANGED <<terms, worldVars, chainVars>>

Rejection(r, by, reason) == [request |-> r, by |-> by, reason |-> reason]

(* handleSettle journals the refusal, drops a failure to, and answers. *)
Journal(r) ==
    /\ pc[r] = "refusing"
    /\ Continue(r, "done")
    /\ \/ journal' = journal \cup {Rejection(r, "settlement", answer[r])}
       \/ "store" \in Faults /\ UNCHANGED journal
    /\ UNCHANGED <<terms, status, consumed, ledger, worldVars, chainVars>>

(* The merchant is answered and posts the reason it got to /rejections,    *)
(* the ones journalled above and the service's own errors included, but    *)
(* for those that came with a 402.  Of an answer whose body was cut it     *)
(* knows the status only, and names the service unavailable.               *)
Reported(r) == \E j \in journal : j.request = r /\ j.by = "merchant"

MerchantReports(r) ==
    /\ pc[r] = "done" /\ ~Reported(r)
    /\ answer[r] \notin {"confirmed", "payment_invalid", "settlement_failed"}
    /\ \E reason \in {answer[r], "settlement_unavailable"} :
          /\ reason = answer[r] \/ "lost_reply" \in Faults
          /\ journal' = journal \cup {Rejection(r, "merchant", reason)}
    /\ UNCHANGED <<handlerVars, status, consumed, ledger, worldVars, chainVars>>

-----------------------------------------------------------------------------
(* Every handler in memory dies; the tables and the calls it made do not. *)
Crash ==
    /\ "crash" \in Faults
    /\ \E r \in Requests : pc[r] \in InFlight
    /\ pc' = [r \in Requests |-> IF pc[r] \in InFlight THEN "lost" ELSE pc[r]]
    /\ UNCHANGED <<terms, answer, storeVars, worldVars, chainVars>>

(* NonceLedger is a Set in the memory of the facilitator's process. *)
RestartFacilitator ==
    /\ "amnesia" \in Faults
    /\ nonces # {}
    /\ nonces' = {}
    /\ UNCHANGED <<handlerVars, storeVars, worldVars, call>>

(* A catalog load swaps the listing partitions while requests are running. *)
ReplaceListings ==
    /\ \E feed \in Feeds : feed # offers /\ offers' = feed
    /\ UNCHANGED <<handlerVars, storeVars, chainVars, req, expired>>

Expire(a) ==
    /\ a \notin expired
    /\ expired' = expired \cup {a}
    /\ UNCHANGED <<handlerVars, storeVars, chainVars, req, offers>>

Handler(r) ==
    \/ RejectMalformed(r) \/ VerifyAssertion(r) \/ LookupListing(r)
    \/ FacilitatorVerify(r)
    \/ Begin(r) \/ BeginReused(r) \/ BeginFails(r) \/ BeginUnacknowledged(r)
    \/ SendSettle(r) \/ SettleReturns(r) \/ SettleUnavailable(r)
    \/ Fail(r) \/ FailFails(r)
    \/ Confirm(r) \/ ConfirmFails(r) \/ ConfirmUnacknowledged(r)
    \/ Journal(r)

Facilitator(r) == FacilitatorTransfers(r) \/ FacilitatorRefuses(r)

Next ==
    \/ \E r \in Requests : Handler(r) \/ Facilitator(r) \/ MerchantReports(r)
    \/ Crash
    \/ RestartFacilitator
    \/ ReplaceListings
    \/ \E a \in Assertions : Expire(a)

Spec == Init /\ [][Next]_vars
-----------------------------------------------------------------------------
(* Every variable has its type. *)
TypeOK ==
    /\ req \in [Requests -> Request]
    /\ pc \in [Requests -> PC]
    /\ terms \in [Requests -> Terms]
    /\ status \in [Requests -> Status]
    /\ consumed \subseteq Assertions
    /\ DOMAIN ledger = Requests
    /\ journal \subseteq [request : Requests, by : {"settlement", "merchant"},
                          reason : Answers \cup {"settlement_unavailable"}]
    /\ answer \in [Requests -> Answers]
    /\ offers \in Feeds
    /\ expired \subseteq Assertions
    /\ call \in [Requests -> {"none", "sent", "transferred", "refused"}]
    /\ nonces \subseteq Authorizations \X Spellings

(* Single use: however requests race, at most one of those that carry an   *)
(* assertion gets a settlements row.  No constraint on settlements says    *)
(* so; it rests on the claim and the row sharing Store.Begin's transaction. *)
SingleUse ==
    \A r, s \in Requests :
        HasRow(r) /\ HasRow(s) /\ req[r].assertion = req[s].assertion => r = s

(* Store.Begin: an assertion is consumed exactly when a settlement row     *)
(* accounts for it.  No failure or crash burns one without a row, and no   *)
(* row exists whose assertion could be settled again.                      *)
ClaimsMatchSettlements ==
    consumed = {req[r].assertion : r \in {s \in Requests : HasRow(s)}}

(* Settle: value moves only for an attempt that holds its assertion's      *)
(* claim, so one assertion never pays twice, whatever is retried.          *)
OnePaymentPerAssertion ==
    \A r, s \in Requests :
        Moved(r) /\ Moved(s) /\ req[r].assertion = req[s].assertion => r = s

(* Settle's order, seen from the tables: a handler that has not reached    *)
(* Begin has no row, one that waits for the facilitator or holds its       *)
(* answer has a pending row that nobody else resolves, and the facilitator *)
(* was never called for a request without a row.                           *)
RowsFollowHandlers ==
    \A r \in Requests :
        /\ pc[r] \in BeforeClaim => ~HasRow(r)
        /\ pc[r] \in {"begun", "settling", "settled", "voiding"} => status[r] = "pending"
        /\ pc[r] = "begun" => call[r] = "none"
        /\ pc[r] = "settled" => Moved(r)
        /\ call[r] # "none" => HasRow(r)

(* Confirm: commission is owed only on a purchase that was paid for.       *)
ConfirmedWasPaid == \A r \in Requests : status[r] = "confirmed" => Moved(r)

(* Confirm and Fail: the ledger holds the three entries of the split for   *)
(* each confirmed settlement, once, and nothing for any other.             *)
LedgerMirrorsStatus ==
    \A r \in Requests :
        ledger[r] = IF status[r] = "confirmed" THEN Entries(Split(r)) ELSE << >>

(* Double entry: a settlement's entries sum to zero, and the merchant is   *)
(* charged no more than the assertion's signed rate makes of the gross.    *)
LedgerBalances ==
    \A r \in Requests :
        ledger[r] # << >> =>
            LET e == ledger[r] IN
            /\ e[1].amount + e[2].amount + e[3].amount = 0
            /\ e[2].amount >= 0 /\ e[3].amount >= 0
            /\ -e[1].amount <= CalculateCommission(
                   terms[r].gross, SignedBps[req[r].assertion]).commission

(* Settle's order: a request refused up to and including the claim has     *)
(* spent nothing.  It has no row and no call to the facilitator's /settle, *)
(* and a 409 is given only when the assertion is gone for good.            *)
EarlyRefusalsSpendNothing ==
    \A r \in Requests :
        answer[r] \in RefusedBeforeClaim \cup {"bad_request", "assertion_reused"} =>
            /\ ~HasRow(r) /\ call[r] = "none"
            /\ answer[r] = "assertion_reused" => req[r].assertion \in consumed

(* handleSettle: a 200 is sent only once the settlement is durable, and a  *)
(* settlement_failed only when the facilitator moved nothing.              *)
AnswersAreTrue ==
    \A r \in Requests :
        /\ answer[r] = "confirmed" => status[r] = "confirmed" /\ Moved(r)
        /\ answer[r] = "settlement_failed" => ~Moved(r) /\ status[r] # "confirmed"

(* Two services write rejected_attempts, handleSettle and the merchant     *)
(* through POST /rejections, and no column tells them apart.  A row with a *)
(* reason of the platform's own failing may stand beside a settlement that *)
(* is confirmed; one with any other reason never does, it is what the      *)
(* service answered, and no second reason of that kind joins it.           *)
PlatformErrors == {"internal_error", "settlement_unavailable"}
JournalHoldsRefusals ==
    \A j \in journal :
        /\ answer[j.request] \notin {"none", "confirmed"}
        /\ j.by = "settlement" => j.reason \in JournalledReasons
        /\ j.reason \notin PlatformErrors =>
              j.reason = answer[j.request] /\ status[j.request] # "confirmed"

(* Settle and NonceLedger, the two defenses against a replay: a second     *)
(* transfer under one authorization needs another assertion and a nonce    *)
(* that is spelled another way.                                            *)
ReplayNeedsBoth ==
    \A r, s \in Requests :
        Moved(r) /\ Moved(s) /\ r # s /\ req[r].authorization = req[s].authorization =>
            /\ req[r].assertion # req[s].assertion
            /\ req[r].spelling # req[s].spelling

(* Fail keeps the claim, the WHERE clauses keep an outcome, and nothing    *)
(* updates the other columns or the ledger: what is final stays.           *)
OutcomesArePermanent ==
    [][/\ consumed \subseteq consumed'
       /\ journal \subseteq journal'
       /\ \A r \in Requests :
             /\ HasRow(r) => HasRow(r)' /\ terms'[r] = terms[r]
             /\ status[r] \in {"confirmed", "failed"} =>
                    status'[r] = status[r] /\ ledger'[r] = ledger[r]]_vars

-----------------------------------------------------------------------------
(***************************************************************************)
(* A goroutine runs a handler to its end unless the process dies, and the  *)
(* HTTP client's timeout ends every wait for the facilitator.  Nothing     *)
(* makes the facilitator answer, a feed load or a clock tick.              *)
(***************************************************************************)
FairSpec ==
    Spec /\ \A r \in Requests : WF_vars(pc[r] # "new" /\ Handler(r))

(* Every request the service accepts is answered unless the process dies   *)
(* under it, even when the facilitator never replies.                      *)
EveryRequestAnswered ==
    \A r \in Requests : pc[r] = "verified" ~> pc[r] \in {"done", "lost"}

(* With a store that works, no settlement remains pending, unless the      *)
(* process dies under its handler.                                         *)
EverySettlementResolves ==
    \A r \in Requests :
        status[r] = "pending" ~> status[r] \in {"confirmed", "failed"} \/ pc[r] = "lost"

-----------------------------------------------------------------------------
(***************************************************************************)
(* The state of each assertion, as AttributionLedger sees it.              *)
(***************************************************************************)
AssertionsOf(requests) == {req[r].assertion : r \in requests}

Promise == INSTANCE AttributionLedger WITH
    Amounts  <- {offer.gross : offer \in Offers},
    Rates    <- {SignedBps[a] : a \in Assertions}
                \cup {l.commissionBps : l \in UNION Feeds},
    claimed  <- consumed,
    moved    <- AssertionsOf({r \in Requests : Moved(r)}),
    paid     <- AssertionsOf({r \in Requests : status[r] = "confirmed"}),
    void     <- AssertionsOf({r \in Requests : status[r] = "failed"}),
    postings <- {[assertion |-> req[r].assertion, entries |-> ledger[r]] :
                    r \in {s \in Requests : ledger[s] # << >>}}

(* The service keeps what AttributionLedger promises of every assertion,   *)
(* under races for it, failures at any step and crashes.                   *)
KeepsPromise == Promise!Spec

-----------------------------------------------------------------------------
(***************************************************************************)
(* What the repository says of a settlement and the code does not keep.    *)
(***************************************************************************)

(* internal/settlement/reports.go on FailedCount: "nobody defrauded        *)
(* anybody and nobody got paid either".                                    *)
FailedWasNotPaid == \A r \in Requests : status[r] = "failed" => ~Moved(r)
=============================================================================
