------------------------------ MODULE Purchase ------------------------------
(***************************************************************************)
(* A purchase on its way through gateway, merchant and settlement, with    *)
(* the timeouts between them and the journal of refused attempts.          *)
(*                                                                         *)
(* One process per purchase in each service.  The settlement service is    *)
(* here in the steps its callers can tell apart; module Settlement has     *)
(* its claims, its ledger and its crashes in detail.  A service that has   *)
(* died is one that takes no more steps.                                   *)
(*                                                                         *)
(* Faults names the failures that are switched on:                         *)
(*   "store"        a statement fails, or commits and seems to have failed *)
(*   "lost_reply"   a facilitator call fails for its caller                *)
(*   "timeout"      a service gives up on the one it called, before its    *)
(*                  answer or in the middle of it                          *)
(***************************************************************************)
EXTENDS Assertion

CONSTANTS
    Purchases,
    Agents,           \* those made by the simulator's Agent
    Direct,           \* those posted to the merchant's own port
    Products,
    Merchants,
    Minted,           \* the assertions searches have answered with
    Altered,          \* others that a client may present
    Missing,          \* no assertion header
    Garbled,          \* an assertion header that does not decode
    OtherRequests,    \* what clients other than Agent may send
    Feeds,            \* the states a catalog load may leave the listings in
    EndOfTime,        \* the clock stops here
    Faults

Listing == [product: Products, merchant: Merchants, priceCents: Nat,
            inStock: BOOLEAN]

(* What is left of a payment header: how far it decodes, the value the     *)
(* buyer authorized and whether it goes to the merchant's address.         *)
Payment == [form: {"missing", "garbled", "malformed", "signed"}, value: Nat,
            toMerchant: BOOLEAN]
NoPayment == [form |-> "missing", value |-> 0, toMerchant |-> FALSE]

(* A body names a product, or is JSON without one, no JSON, more than the  *)
(* merchant reads or more than the gateway reads.                          *)
Bodies == {"product", "empty", "garbled", "large", "too_large"}
Routes == {"purchase", "other_method", "other_path"}

Assertions ==
    Minted \cup Altered
    \cup {ApplyFraud(a, mode, t) : a \in Minted, mode \in FRAUD_MODES, t \in 0..EndOfTime}

Request == [route: Routes, body: Bodies, product: Products,
            assertion: Assertions \cup {Missing, Garbled}, payment: Payment]

ASSUME ClockAssumption == EndOfTime \in Nat
ASSUME HeadersAssumption == Missing # Garbled /\ {Missing, Garbled} \cap Assertions = {}
ASSUME ClientsAssumption ==
    Agents \subseteq Purchases /\ Direct \subseteq Purchases \ Agents
(* Ids are fresh, and no signature of the platform is there but on what it *)
(* minted.  The publisher of fraud.ts does not exist, its rate is not one  *)
(* the catalog has.                                                        *)
ASSUME MintedAssumption ==
    /\ \A a \in Minted :
          /\ a.issued_at \in Int /\ a.product_id \in Products
          /\ a = Mint(a.assertion_id, a.publisher_id, a.product_id,
                      a.search_request_id, a.commission_bps, a.issued_at)
    /\ \A a, b \in Minted : a.assertion_id = b.assertion_id => a = b
ASSUME UnforgeableAssumption == \A a \in Altered : Signed(a) => a \in Minted
ASSUME AttackerAssumption ==
    \A a \in Minted : /\ a.publisher_id # ATTACKER_PUBLISHER
                       /\ a.commission_bps # INFLATED_COMMISSION_BPS
ASSUME OtherRequestsAssumption == OtherRequests \subseteq Request
ASSUME FeedsAssumption == Feeds \subseteq SUBSET Listing

VARIABLES
    listings,   \* the listings table
    clock,
    client,     \* where each client is
    request,    \* what it sends
    fraud,      \* what an agent is to do to its assertion, or "none"
    quote,      \* the price its challenge named, in cents
    answer,     \* what it was told in the end
    merchant,   \* where the merchant's handler is
    arrived,    \* the clock when it looked for a listing
    found,      \* the listing that handler read
    gross,      \* the gross_amount_cents it sent to settlement
    reply,      \* what it answered
    service,    \* where the settlement service's handler is
    verdict,    \* what that answered
    row,        \* settlements.status
    consumed,   \* the ids in consumed_assertions
    moved,      \* the purchases the facilitator transferred value for
    outbox,     \* reports on their way to POST /rejections
    journal     \* rejected_attempts

clientVars   == <<client, request, fraud, quote, answer>>
merchantVars == <<merchant, arrived, found, gross, reply>>
serviceVars  == <<service, verdict, row, consumed, moved>>
journalVars  == <<outbox, journal>>
worldVars    == <<listings, clock>>
vars == <<clientVars, merchantVars, serviceVars, journalVars, worldVars>>

(* centsToAtomicUnits: USDC has six decimals. *)
AtomicUnits(cents) == 10000 * cents

-----------------------------------------------------------------------------
(* The checks of the gateway, in their order, which the size of a body      *)
(* comes before.  A request without a payment is the first half of the     *)
(* exchange and passes.                                                    *)
EdgeFault(rq, now) ==
    IF rq.body = "too_large" THEN "body_too_large"
    ELSE IF rq.route = "other_method" THEN "method_not_allowed"
    ELSE IF rq.route = "other_path" THEN "not_found"
    ELSE IF rq.payment.form = "missing" THEN "none"
    ELSE IF rq.assertion = Missing THEN "assertion_missing"
    ELSE IF rq.assertion = Garbled THEN "malformed_headers"
    ELSE IF AssertionFault(rq.assertion, now) = "thrown" THEN "gateway_error"
    ELSE AssertionFault(rq.assertion, now)

(* What the merchant refuses before it looks for a listing; a body that    *)
(* cannot be read ends in the catch around its handler.                    *)
RequestFault(rq) ==
    IF rq.route # "purchase" THEN "not_found"
    ELSE IF rq.body \in {"garbled", "large", "too_large"} THEN "merchant_error"
    ELSE IF rq.body = "empty" THEN "product_required"
    ELSE "none"

HeaderFault(rq) ==
    IF rq.assertion = Missing THEN "assertion_missing"
    ELSE IF rq.assertion = Garbled \/ rq.payment.form = "garbled" THEN "malformed_headers"
    ELSE IF rq.payment.form = "malformed" THEN "malformed_payment"
    ELSE "none"

(* A mistake, as below: the product an assertion names is not compared. *)
MerchantFaultAnyProduct(rq, l, now) ==
    IF rq.payment.form = "missing" THEN "challenge"
    ELSE IF HeaderFault(rq) # "none" THEN HeaderFault(rq)
    ELSE IF AssertionFault(rq.assertion, now) = "thrown" THEN "merchant_error"
    ELSE IF AssertionFault(rq.assertion, now) # "none" THEN AssertionFault(rq.assertion, now)
    ELSE IF rq.payment.value # AtomicUnits(l.priceCents) THEN "amount_mismatch"
    ELSE IF ~rq.payment.toMerchant THEN "payee_mismatch"
    ELSE "none"

(* The checks of the merchant that follow its reading of listing l, by the *)
(* time it took before that.                                               *)
MerchantFault(rq, l, now) ==
    IF rq.payment.form = "missing" THEN "challenge"
    ELSE IF HeaderFault(rq) # "none" THEN HeaderFault(rq)
    ELSE IF AssertionFault(rq.assertion, now) = "thrown" THEN "merchant_error"
    ELSE IF AssertionFault(rq.assertion, now) # "none" THEN AssertionFault(rq.assertion, now)
    ELSE IF rq.assertion.product_id # rq.product THEN "assertion_product_mismatch"
    ELSE IF rq.payment.value # AtomicUnits(l.priceCents) THEN "amount_mismatch"
    ELSE IF ~rq.payment.toMerchant THEN "payee_mismatch"
    ELSE "none"

EdgeReasons == {"assertion_missing", "malformed_headers", "malformed_signature",
                "invalid_signature", "expired"}
MerchantReasons == EdgeReasons \cup
    {"malformed_payment", "assertion_product_mismatch", "amount_mismatch",
     "payee_mismatch"}
(* Answers without a reason, which are not reported.                       *)
Plain == {"no_listing", "out_of_stock", "challenge", "not_found", "product_required"}
(* statusFor's reasons: those a caller hears before the claim, and after. *)
PreClaimReasons == {"assertion_signature_invalid", "assertion_expired",
                    "listing_not_found", "listing_mismatch", "payment_invalid",
                    "assertion_reused"}
Verdicts == PreClaimReasons \cup
    {"settlement_failed", "facilitator_unavailable", "internal_error", "confirmed"}
Replies == MerchantReasons \cup (Verdicts \ {"confirmed"}) \cup
    Plain \cup {"settlement_unavailable", "merchant_error", "fulfilled"}
Answers == Replies \cup {"gateway_error", "body_too_large", "method_not_allowed"}

(* reportRefusal: a status of 400 or more, not 402, and a body with a      *)
(* reason.  The 502 of a thrown error never gets that far.                 *)
Reportable == Replies \ (Plain \cup {"merchant_error", "fulfilled", "payment_invalid",
                                     "settlement_failed"})

-----------------------------------------------------------------------------
(* selectCheapestInStock pairs a product with the assertion minted for it. *)
AgentRequests ==
    {[route |-> "purchase", body |-> "product", product |-> a.product_id,
      assertion |-> a, payment |-> NoPayment] : a \in Minted}

Init ==
    /\ listings \in Feeds
    /\ clock = 0
    /\ client = [p \in Purchases |-> "idle"]
    /\ request \in [Purchases -> AgentRequests \cup OtherRequests]
    /\ \A p \in Purchases :
          request[p] \in IF p \in Agents THEN AgentRequests ELSE OtherRequests
    /\ fraud \in [Purchases -> FRAUD_MODES \cup {"none"}]
    /\ \A p \in Purchases \ Agents : fraud[p] = "none"
    /\ quote = [p \in Purchases |-> 0]
    /\ answer = [p \in Purchases |-> "none"]
    /\ merchant = [p \in Purchases |-> "idle"]
    /\ arrived = [p \in Purchases |-> 0]
    /\ found = [p \in Purchases |-> {}]
    /\ gross = [p \in Purchases |-> 0]
    /\ reply = [p \in Purchases |-> "none"]
    /\ service = [p \in Purchases |-> "idle"]
    /\ verdict = [p \in Purchases |-> "none"]
    /\ row = [p \in Purchases |-> "absent"]
    /\ consumed = {}
    /\ moved = {}
    /\ outbox = {}
    /\ journal = {}

(* findListing: ORDER BY in_stock DESC, price_cents ASC LIMIT 1, whichever *)
(* merchant sells the product.                                             *)
FindListing(product) ==
    LET rows  == {l \in listings : l.product = product}
        Before(l, m) == \/ l.inStock /\ ~m.inStock
                        \/ l.inStock = m.inStock /\ l.priceCents < m.priceCents
    IN  {l \in rows : \A m \in rows : ~Before(m, l)}

ToClient(p, outcome) ==
    /\ client' = [client EXCEPT ![p] = "done"]
    /\ answer' = [answer EXCEPT ![p] = outcome]

(* A fetch of POST /rejections that nobody waits for. *)
Report(p, by, reason, named) ==
    outbox' = outbox \cup {[purchase |-> p, by |-> by, reason |-> reason, named |-> named]}

(* The merchant answers and then reports what was a refusal.  It names the *)
(* publisher of a header that decodes, an empty one included.              *)
Nameless(header) == header \in Assertions /\ header.publisher_id = ""

ReplyAs(p, outcome, reported) ==
    /\ merchant' = [merchant EXCEPT ![p] = "done"]
    /\ reply' = [reply EXCEPT ![p] = outcome]
    /\ IF reported
       THEN Report(p, "merchant", outcome, ~Nameless(request[p].assertion))
       ELSE UNCHANGED outbox

Reply(p, outcome) == ReplyAs(p, outcome, outcome \in Reportable)

(* Closing the connection cancels the request's context, and with it the   *)
(* statements and calls of the settlement that are still to come.          *)
Failing(p, fault) == fault \in Faults \/ reply[p] = "merchant_error"

Verdict(p, outcome) ==
    /\ service' = [service EXCEPT ![p] = "done"]
    /\ verdict' = [verdict EXCEPT ![p] = outcome]

(* handleSettle journals a refusal, or drops a failure to, and answers. *)
Refuse(p, reason) ==
    /\ Verdict(p, reason)
    /\ \/ journal' = journal \cup {[purchase |-> p, by |-> "settlement", reason |-> reason]}
       \/ Failing(p, "store") /\ UNCHANGED journal

(* An internal error is not journalled here. *)
InternalError(p) ==
    /\ Verdict(p, "internal_error")
    /\ UNCHANGED journal

-----------------------------------------------------------------------------
(***************************************************************************)
(* Mistakes.  Each operator here is a step of the program as a plausible   *)
(* bug would have it.  No specification uses them: they say which change   *)
(* of the code each property below is there to catch.                      *)
(***************************************************************************)

(* The price is read again for the settlement request. *)
MerchantSettlesRepriced(p) ==
    /\ merchant[p] = "checking"
    /\ \E l \in found[p] :
          /\ MerchantFault(request[p], l, arrived[p]) = "none"
          /\ \E m \in FindListing(l.product) :
                gross' = [gross EXCEPT ![p] = m.priceCents]
    /\ merchant' = [merchant EXCEPT ![p] = "settling"]
    /\ service' = [service EXCEPT ![p] = "received"]
    /\ UNCHANGED <<clientVars, arrived, found, reply, verdict, row, consumed, moved,
                   journalVars, worldVars>>

(* The price is compared once more before the order goes out. *)
MerchantRepliesRechecking(p) ==
    /\ merchant[p] = "settling"
    /\ service[p] = "done"
    /\ LET current == FindListing(request[p].product) IN
       Reply(p, IF verdict[p] # "confirmed" THEN verdict[p]
                ELSE IF \E l \in current : l.priceCents # gross[p] THEN "amount_mismatch"
                ELSE "fulfilled")
    /\ UNCHANGED <<clientVars, arrived, found, gross, serviceVars, journal, worldVars>>

(* The merchant derives a reason of its own from the status 409. *)
MerchantRepliesRenaming(p) ==
    /\ merchant[p] = "settling"
    /\ service[p] = "done"
    /\ Reply(p, CASE verdict[p] = "confirmed" -> "fulfilled"
                  [] verdict[p] = "assertion_reused" -> "payment_invalid"
                  [] OTHER -> verdict[p])
    /\ UNCHANGED <<clientVars, arrived, found, gross, serviceVars, journal, worldVars>>

(* The gateway waits for as long as the merchant takes. *)
GatewayGivesUpLate(p) ==
    /\ client[p] = "waiting"
    /\ merchant[p] = "done"
    /\ p \notin Direct
    /\ ToClient(p, "gateway_error")
    /\ UNCHANGED <<request, fraud, quote, merchantVars, serviceVars, journalVars, worldVars>>

(* The transaction of Store.Begin: the claim and the pending row. *)
Claim(p) ==
    /\ request[p].assertion.assertion_id \notin consumed
    /\ gross[p] > 0
    /\ consumed' = consumed \cup {request[p].assertion.assertion_id}
    /\ row' = [row EXCEPT ![p] = "pending"]

-----------------------------------------------------------------------------
(* Agent.requestChallenge, the gateway and the merchant behind it: 402 with *)
(* the price, or nothing to buy, or a gateway that gave up.                 *)
RequestChallenge(p) ==
    /\ p \in Agents
    /\ client[p] = "idle"
    /\ \/ /\ FindListing(request[p].product) = {}
          /\ ToClient(p, "no_listing")
          /\ UNCHANGED quote
       \/ \E l \in FindListing(request[p].product) :
             IF l.inStock
             THEN /\ client' = [client EXCEPT ![p] = "quoted"]
                  /\ quote' = [quote EXCEPT ![p] = l.priceCents]
                  /\ UNCHANGED answer
             ELSE ToClient(p, "out_of_stock") /\ UNCHANGED quote
       \/ "store" \in Faults /\ ToClient(p, "merchant_error") /\ UNCHANGED quote
       \/ "timeout" \in Faults /\ ToClient(p, "gateway_error") /\ UNCHANGED quote
    /\ UNCHANGED <<request, fraud, merchantVars, serviceVars, journalVars, worldVars>>

(* signAuthorization for what the challenge asked, then completePurchase,  *)
(* with an assertion that Runner.runOnce may have rewritten.               *)
Presented(a, mode) == IF mode = "none" THEN a ELSE ApplyFraud(a, mode, clock)

SignAndPay(p) ==
    /\ client[p] = "quoted"
    /\ request' = [request EXCEPT
          ![p].payment = [form |-> "signed", value |-> AtomicUnits(quote[p]),
                          toMerchant |-> TRUE],
          ![p].assertion = Presented(request[p].assertion, fraud[p])]
    /\ client' = [client EXCEPT ![p] = "sent"]
    /\ UNCHANGED <<fraud, quote, answer, merchantVars, serviceVars, journalVars, worldVars>>

(* Any other client sends what it likes. *)
Send(p) ==
    /\ p \notin Agents
    /\ client[p] = "idle"
    /\ client' = [client EXCEPT ![p] = "sent"]
    /\ UNCHANGED <<request, fraud, quote, answer, merchantVars, serviceVars, journalVars,
                   worldVars>>

-----------------------------------------------------------------------------
(* handle of the gateway: refuse, and report what is about the assertion,  *)
(* naming "unknown" for a publisher that is not there, or forward.         *)
GatewayRefuses(p) ==
    LET fault == EdgeFault(request[p], clock) IN
    /\ client[p] = "sent"
    /\ p \notin Direct
    /\ fault # "none"
    /\ ToClient(p, fault)
    /\ IF fault \in EdgeReasons THEN Report(p, "edge", fault, TRUE) ELSE UNCHANGED outbox
    /\ UNCHANGED <<request, fraud, quote, merchantVars, serviceVars, journal, worldVars>>

MerchantReceives(p) ==
    /\ client[p] = "sent"
    /\ p \in Direct \/ EdgeFault(request[p], clock) = "none"
    /\ client' = [client EXCEPT ![p] = "waiting"]
    /\ merchant' = [merchant EXCEPT ![p] = "finding"]
    /\ UNCHANGED <<request, fraud, quote, answer, arrived, found, gross, reply, serviceVars,
                   journalVars, worldVars>>

(* The proxied response comes back untouched. *)
ReturnReply(p) ==
    /\ client[p] = "waiting"
    /\ merchant[p] = "done"
    /\ ToClient(p, reply[p])
    /\ UNCHANGED <<request, fraud, quote, merchantVars, serviceVars, journalVars, worldVars>>

(* The gateway waits 30 s; the merchant's handler runs on. *)
GatewayGivesUp(p) ==
    /\ "timeout" \in Faults
    /\ client[p] = "waiting"
    /\ p \notin Direct
    /\ ToClient(p, "gateway_error")
    /\ UNCHANGED <<request, fraud, quote, merchantVars, serviceVars, journalVars, worldVars>>

-----------------------------------------------------------------------------
MerchantDeclines(p) ==
    /\ merchant[p] = "finding"
    /\ RequestFault(request[p]) # "none"
    /\ Reply(p, RequestFault(request[p]))
    /\ UNCHANGED <<clientVars, arrived, found, gross, serviceVars, journal, worldVars>>

(* PurchaseHandler.handle takes the time and reads a listing.              *)
MerchantFinds(p) ==
    /\ merchant[p] = "finding"
    /\ RequestFault(request[p]) = "none"
    /\ arrived' = [arrived EXCEPT ![p] = clock]
    /\ \/ /\ FindListing(request[p].product) = {}
          /\ Reply(p, "no_listing")
          /\ UNCHANGED found
       \/ \E l \in FindListing(request[p].product) :
             IF l.inStock
             THEN /\ merchant' = [merchant EXCEPT ![p] = "checking"]
                  /\ found' = [found EXCEPT ![p] = {l}]
                  /\ UNCHANGED <<reply, outbox>>
             ELSE Reply(p, "out_of_stock") /\ UNCHANGED found
       \/ "store" \in Faults /\ Reply(p, "merchant_error") /\ UNCHANGED found
    /\ UNCHANGED <<clientVars, gross, serviceVars, journal, worldVars>>

MerchantRefuses(p) ==
    /\ merchant[p] = "checking"
    /\ \E l \in found[p] :
          /\ MerchantFault(request[p], l, arrived[p]) # "none"
          /\ Reply(p, MerchantFault(request[p], l, arrived[p]))
    /\ UNCHANGED <<clientVars, arrived, found, gross, serviceVars, journal, worldVars>>

MerchantSettles(p) ==
    /\ merchant[p] = "checking"
    /\ \E l \in found[p] :
          /\ MerchantFault(request[p], l, arrived[p]) = "none"
          /\ gross' = [gross EXCEPT ![p] = l.priceCents]
    /\ merchant' = [merchant EXCEPT ![p] = "settling"]
    /\ service' = [service EXCEPT ![p] = "received"]
    /\ UNCHANGED <<clientVars, arrived, found, reply, verdict, row, consumed, moved,
                   journalVars, worldVars>>

(* A refusal passes through as the settlement service put it. *)
MerchantReplies(p) ==
    /\ merchant[p] = "settling"
    /\ service[p] = "done"
    /\ Reply(p, IF verdict[p] = "confirmed" THEN "fulfilled" ELSE verdict[p])
    /\ UNCHANGED <<clientVars, arrived, found, gross, serviceVars, journal, worldVars>>

(* Of a refusal whose body is cut the status is known and passed on, with  *)
(* a reason of the merchant's own; a confirmation that is cut is an error, *)
(* as in MerchantGivesUp.                                                  *)
MerchantHearsHalf(p) ==
    /\ "timeout" \in Faults
    /\ merchant[p] = "settling"
    /\ service[p] = "done" /\ verdict[p] # "confirmed"
    /\ ReplyAs(p, "settlement_unavailable", verdict[p] \in Reportable)
    /\ UNCHANGED <<clientVars, arrived, found, gross, serviceVars, journal, worldVars>>

(* The merchant waits 45 s, closes the connection and answers 502. *)
MerchantGivesUp(p) ==
    /\ "timeout" \in Faults
    /\ merchant[p] = "settling"
    /\ Reply(p, "merchant_error")
    /\ UNCHANGED <<clientVars, arrived, found, gross, serviceVars, journal, worldVars>>

-----------------------------------------------------------------------------
SettlementReason(fault) ==
    IF fault = "expired" THEN "assertion_expired" ELSE "assertion_signature_invalid"

(* Verifier.Verify, then Store.LookupListing for the assertion's product   *)
(* and the merchant of the listing that was sold.                          *)
SettlementVerifies(p) ==
    LET a == request[p].assertion IN
    /\ service[p] = "received"
    /\ \/ /\ AssertionFault(a, clock) # "none"
          /\ Refuse(p, SettlementReason(AssertionFault(a, clock)))
       \/ /\ AssertionFault(a, clock) = "none"
          /\ service' = [service EXCEPT ![p] = "verified"]
          /\ UNCHANGED <<verdict, journal>>
    /\ UNCHANGED <<clientVars, merchantVars, row, consumed, moved, outbox, worldVars>>

Sold(p) == {l \in listings : /\ l.product = request[p].assertion.product_id
                             /\ \E m \in found[p] : l.merchant = m.merchant}

LookupListing(p) ==
    /\ service[p] = "verified"
    /\ \/ Sold(p) = {} /\ Refuse(p, "listing_not_found")
       \/ \E l \in Sold(p) :
             IF l.inStock /\ l.priceCents = gross[p]
             THEN service' = [service EXCEPT ![p] = "priced"] /\ UNCHANGED <<verdict, journal>>
             ELSE Refuse(p, "listing_mismatch")
       \/ Failing(p, "store") /\ InternalError(p)
    /\ UNCHANGED <<clientVars, merchantVars, row, consumed, moved, outbox, worldVars>>

(* The facilitator compares the payment with the requirements, which the   *)
(* merchant took from the listing it read, and may refuse it otherwise.    *)
FacilitatorVerify(p) ==
    /\ service[p] = "priced"
    /\ \/ /\ \E l \in found[p] : request[p].payment.value = AtomicUnits(l.priceCents)
          /\ service' = [service EXCEPT ![p] = "cleared"]
          /\ UNCHANGED <<verdict, journal>>
       \/ Refuse(p, "payment_invalid")
       \/ Failing(p, "lost_reply") /\ Refuse(p, "facilitator_unavailable")
    /\ UNCHANGED <<clientVars, merchantVars, row, consumed, moved, outbox, worldVars>>

(* Store.Begin: the claim, a conflict, or an error before or after commit. *)
Begin(p) ==
    /\ service[p] = "cleared"
    /\ \/ /\ Claim(p)
          /\ service' = [service EXCEPT ![p] = "claimed"]
          /\ UNCHANGED <<verdict, journal>>
       \/ Claim(p) /\ Failing(p, "store") /\ InternalError(p)
       \/ /\ request[p].assertion.assertion_id \in consumed
          /\ Refuse(p, "assertion_reused")
          /\ UNCHANGED <<consumed, row>>
       \/ /\ \/ Failing(p, "store")
             \/ request[p].assertion.assertion_id \notin consumed /\ gross[p] = 0
          /\ InternalError(p)
          /\ UNCHANGED <<consumed, row>>
    /\ UNCHANGED <<clientVars, merchantVars, moved, outbox, worldVars>>

(* Facilitator.Settle and Store.Confirm.  A confirmation whose commit      *)
(* seems to have failed is an internal error of a confirmed settlement.    *)
Settle(p) ==
    /\ service[p] = "claimed"
    /\ moved' = moved \cup {p}
    /\ \/ /\ row' = [row EXCEPT ![p] = "confirmed"]
          /\ Verdict(p, "confirmed")
          /\ UNCHANGED journal
       \/ /\ Failing(p, "store")
          /\ \/ row' = [row EXCEPT ![p] = "confirmed"]
             \/ UNCHANGED row
          /\ InternalError(p)
    /\ UNCHANGED <<clientVars, merchantVars, consumed, outbox, worldVars>>

(* A transfer that was refused, or whose outcome never came back, and      *)
(* Store.Fail.                                                             *)
SettleFails(p) ==
    /\ service[p] = "claimed"
    /\ \/ Refuse(p, "settlement_failed") /\ UNCHANGED moved
       \/ /\ Failing(p, "lost_reply")
          /\ Refuse(p, "facilitator_unavailable")
          /\ moved' \in {moved, moved \cup {p}}
    /\ \/ row' = [row EXCEPT ![p] = "failed"]
       \/ Failing(p, "store") /\ UNCHANGED row
    /\ UNCHANGED <<clientVars, merchantVars, consumed, outbox, worldVars>>

-----------------------------------------------------------------------------
(* handleRecordRejection: a report without a publisher is answered 400. *)
RecordRejection(report) ==
    /\ report \in outbox
    /\ outbox' = outbox \ {report}
    /\ \/ /\ report.named
          /\ journal' = journal \cup {[purchase |-> report.purchase, by |-> report.by,
                                       reason |-> report.reason]}
       \/ /\ ~report.named \/ Faults \cap {"store", "timeout"} # {}
          /\ UNCHANGED journal
    /\ UNCHANGED <<clientVars, merchantVars, serviceVars, worldVars>>

ReplaceListings ==
    /\ \E feed \in Feeds : feed # listings /\ listings' = feed
    /\ UNCHANGED <<clientVars, merchantVars, serviceVars, journalVars, clock>>

Tick ==
    /\ clock < EndOfTime
    /\ clock' = clock + 1
    /\ UNCHANGED <<clientVars, merchantVars, serviceVars, journalVars, listings>>

Client(p)   == RequestChallenge(p) \/ SignAndPay(p) \/ Send(p)
Gateway(p)  == GatewayRefuses(p) \/ MerchantReceives(p) \/ ReturnReply(p) \/ GatewayGivesUp(p)
Merchant(p) == \/ MerchantDeclines(p) \/ MerchantFinds(p) \/ MerchantRefuses(p) \/ MerchantSettles(p)
               \/ MerchantReplies(p) \/ MerchantHearsHalf(p) \/ MerchantGivesUp(p)
SettlementService(p) ==
    \/ SettlementVerifies(p) \/ LookupListing(p) \/ FacilitatorVerify(p)
    \/ Begin(p) \/ Settle(p) \/ SettleFails(p)

Next ==
    \/ \E p \in Purchases :
          Client(p) \/ Gateway(p) \/ Merchant(p) \/ SettlementService(p)
    \/ \E report \in outbox : RecordRejection(report)
    \/ ReplaceListings \/ Tick

Spec == Init /\ [][Next]_vars

-----------------------------------------------------------------------------
(* Every variable has its type. *)
TypeOK ==
    /\ listings \in Feeds
    /\ clock \in 0..EndOfTime
    /\ client \in [Purchases -> {"idle", "quoted", "sent", "waiting", "done"}]
    /\ request \in [Purchases -> Request]
    /\ fraud \in [Purchases -> FRAUD_MODES \cup {"none"}]
    /\ quote \in [Purchases -> Nat]
    /\ answer \in [Purchases -> Answers \cup {"none"}]
    /\ merchant \in [Purchases -> {"idle", "finding", "checking", "settling", "done"}]
    /\ arrived \in [Purchases -> 0..EndOfTime]
    /\ found \in [Purchases -> SUBSET (UNION Feeds)]
    /\ gross \in [Purchases -> Nat]
    /\ reply \in [Purchases -> Replies \cup {"none"}]
    /\ service \in [Purchases -> {"idle", "received", "verified", "priced", "cleared",
                                  "claimed", "done"}]
    /\ verdict \in [Purchases -> Verdicts \cup {"none"}]
    /\ row \in [Purchases -> {"absent", "pending", "confirmed", "failed"}]
    /\ consumed \subseteq {a.assertion_id : a \in Minted}
    /\ moved \subseteq Purchases
    /\ outbox \subseteq [purchase: Purchases, by: {"edge", "merchant"}, reason: Replies,
                         named: BOOLEAN]
    /\ journal \subseteq [purchase: Purchases, by: {"edge", "merchant", "settlement"},
                          reason: Replies]

(* Three services read the price, at three times, and a load may come      *)
(* between any two: what is settled is what the buyer signed for, to the   *)
(* merchant, and what an Agent was quoted.                                 *)
GrossWasAuthorized ==
    \A p \in Purchases :
        row[p] # "absent" =>
            /\ request[p].payment.value = AtomicUnits(gross[p])
            /\ request[p].payment.toMerchant
            /\ p \in Agents => gross[p] = quote[p]

(* The merchant hands over an order only for a confirmed and paid          *)
(* settlement of an assertion that is genuine, names the product that was  *)
(* bought, and is spent on no other order.                                 *)
OrdersAreAttributed ==
    \A p \in Purchases :
        reply[p] = "fulfilled" =>
            /\ row[p] = "confirmed" /\ p \in moved
            /\ request[p].assertion \in Minted
            /\ request[p].assertion.product_id = request[p].product
            /\ \A q \in Purchases \ {p} :
                  request[q].assertion = request[p].assertion => row[q] = "absent"

(* What applyFraud makes of an assertion never gets past the gateway,      *)
(* which hides nothing behind its refusal but the expiry, and leaves the   *)
(* genuine one to be spent: every claim is a settlement of an assertion    *)
(* that was minted with that id (handle, verifyAssertion, Store.Begin).    *)
ForgeriesGainNothing ==
    /\ \A p \in Purchases :
          fraud[p] # "none" =>
              /\ merchant[p] = "idle"
              /\ answer[p] \in {"none", "no_listing", "out_of_stock", "merchant_error",
                                "gateway_error", "invalid_signature", "expired"}
    /\ \A id \in consumed :
          \E p \in Purchases : /\ row[p] # "absent"
                               /\ request[p].assertion \in Minted
                               /\ request[p].assertion.assertion_id = id

(* Answers that leave the outcome of a payment open.  One of them has the  *)
(* status of a refusal: settlement_unavailable may stand for an internal   *)
(* error of a settlement that was paid and confirmed.                      *)
Inconclusive == {"none", "fulfilled", "gateway_error", "merchant_error", "internal_error",
                 "facilitator_unavailable", "settlement_unavailable"}

(* Passing a verdict through the merchant and the gateway: a client that   *)
(* is refused for any definite reason has paid nothing and may sign again, *)
(* and unless the facilitator refused, it has claimed nothing either.      *)
RefusalsMoveNothing ==
    \A p \in Purchases :
        answer[p] \notin Inconclusive =>
            /\ p \notin moved /\ row[p] # "confirmed"
            /\ answer[p] # "settlement_failed" => row[p] = "absent"

(* reportRefusal and handleSettle: the services that journal a purchase    *)
(* give it one reason, the one its client hears unless somebody gave up.   *)
(* Where the merchant did not get to read the settlement service's reason, *)
(* it journals and answers that; it never replaces one it has read.        *)
ReasonsNeverConflict ==
    \A j \in journal :
        /\ \A k \in journal :
              k.purchase = j.purchase =>
                  k.reason = j.reason \/ "settlement_unavailable" \in {j.reason, k.reason}
        /\ answer[j.purchase] \in {"none", "gateway_error", "merchant_error",
                                    "settlement_unavailable", j.reason}

-----------------------------------------------------------------------------
(* fetch's timeout always fires and Node runs what is ready to run.        *)
(* Nothing is assumed of the merchant and the services behind it.          *)
FairSpec == Spec /\ \A p \in Purchases : WF_vars(Gateway(p))

(* Whatever hangs behind the gateway, a purchase sent to it is answered.   *)
GatewayAnswers ==
    \A p \in Purchases \ Direct : client[p] = "sent" ~> client[p] = "done"
=============================================================================
