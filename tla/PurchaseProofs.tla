--------------------------- MODULE PurchaseProofs ---------------------------
(***************************************************************************)
(* What TLAPS proves of Purchase, for any clients, requests, products,     *)
(* feeds and faults.                                                       *)
(***************************************************************************)
EXTENDS Purchase, TLAPS

(***************************************************************************)
(* What Mint leaves in an assertion: the fields it was asked for, an       *)
(* expiry, and a signature of them all.                                    *)
(***************************************************************************)
LEMMA MintedFacts ==
    ASSUME NEW a \in Minted
    PROVE  /\ DOMAIN a = SignedFields \cup {"signature"}
           /\ a = [f \in DOMAIN a |-> a[f]]
           /\ a.signature = Signature({CanonicalizeForSigning(a)})
           /\ a.issued_at \in Int /\ a.expires_at = a.issued_at + TTL
           /\ a.product_id \in Products
PROOF
<1> DEFINE b == [assertion_id |-> a.assertion_id, publisher_id |-> a.publisher_id,
                 product_id |-> a.product_id, search_request_id |-> a.search_request_id,
                 issued_at |-> a.issued_at, expires_at |-> a.issued_at + TTL,
                 commission_bps |-> a.commission_bps, signature |-> Signature({})]
           sig == Signature({CanonicalizeForSigning(b)})
<1>1. a = [b EXCEPT !.signature = sig] /\ a.issued_at \in Int /\ a.product_id \in Products
  BY MintedAssumption DEF Mint
<1>2. DOMAIN b = SignedFields \cup {"signature"} /\ b.expires_at = a.issued_at + TTL
  BY DEF SignedFields
<1> HIDE DEF b, sig
<1>3. a = [f \in DOMAIN b |-> IF f = "signature" THEN sig ELSE b[f]]
  BY <1>1, <1>2
<1>4. DOMAIN a = SignedFields \cup {"signature"} /\ a = [f \in DOMAIN a |-> a[f]]
  BY <1>2, <1>3
<1>5. a.signature = sig /\ a.expires_at = a.issued_at + TTL
  BY <1>2, <1>3 DEF SignedFields
<1>6. \A f \in SignedFields : a[f] = b[f]
  BY <1>2, <1>3 DEF SignedFields
<1>7. CanonicalizeForSigning(a) = CanonicalizeForSigning(b)
  BY <1>6 DEF CanonicalizeForSigning
<1>. QED
  BY <1>1, <1>4, <1>5, <1>7 DEF sig

(***************************************************************************)
(* The platform's signature of one assertion is no signature of what       *)
(* applyFraud makes of it, unless nothing was changed.                     *)
(***************************************************************************)
LEMMA FraudBreaksSignature ==
    ASSUME NEW a \in Minted, NEW mode \in FRAUD_MODES, NEW t \in Int,
           Signed(ApplyFraud(a, mode, t))
    PROVE  mode = "expired" /\ ApplyFraud(a, mode, t) = a
PROOF
<1> DEFINE b == ApplyFraud(a, mode, t)
<1>1. /\ DOMAIN a = SignedFields \cup {"signature"}
      /\ a = [f \in DOMAIN a |-> a[f]]
      /\ a.signature = Signature({CanonicalizeForSigning(a)})
  BY MintedFacts
<1>2. a.publisher_id # ATTACKER_PUBLISHER /\ a.commission_bps # INFLATED_COMMISSION_BPS
  BY AttackerAssumption
<1>3. mode # "forged_signature"
  <2>1. ASSUME mode = "forged_signature" PROVE b.signature.over = {}
    BY <1>1, <2>1 DEF ApplyFraud, Signature
  <2>. QED
    BY <2>1 DEF Signed
<1>4. b.signature = a.signature
  BY <1>1, <1>3 DEF ApplyFraud, FRAUD_MODES, SignedFields
<1>5. CanonicalizeForSigning(b) = CanonicalizeForSigning(a)
  BY <1>1, <1>4 DEF Signed, Signature
<1>6. \A f \in SignedFields : b[f] = a[f]
  <2> SUFFICES ASSUME NEW f \in SignedFields PROVE b[f] = a[f]
    OBVIOUS
  <2>1. CanonicalizeForSigning(b)[f] = b[f] /\ CanonicalizeForSigning(a)[f] = a[f]
    BY DEF CanonicalizeForSigning
  <2>. QED
    BY <1>5, <2>1
<1>7. mode = "expired"
  <2>1. b.publisher_id = a.publisher_id /\ b.commission_bps = a.commission_bps
    BY <1>6 DEF SignedFields
  <2>2. ASSUME mode \in {"tampered_publisher", "unknown_publisher"}
        PROVE  b.publisher_id = ATTACKER_PUBLISHER
    BY <1>1, <2>2 DEF ApplyFraud, SignedFields
  <2>3. ASSUME mode = "tampered_commission"
        PROVE  b.commission_bps = INFLATED_COMMISSION_BPS
    BY <1>1, <2>3 DEF ApplyFraud, SignedFields
  <2>. QED
    BY <1>2, <1>3, <2>1, <2>2, <2>3 DEF FRAUD_MODES
<1>8. DOMAIN b = DOMAIN a /\ b = [f \in DOMAIN a |-> b[f]]
  BY <1>1, <1>7 DEF ApplyFraud, SignedFields
<1>9. \A f \in DOMAIN a : b[f] = a[f]
  BY <1>1, <1>4, <1>6
<1> HIDE DEF b
<1>10. b = a
  BY <1>1, <1>8, <1>9
<1>. QED
  BY <1>7, <1>10 DEF b

(***************************************************************************)
(* Of all that a client can present, only what was minted is signed.       *)
(***************************************************************************)
LEMMA SignedIsMinted ==
    ASSUME NEW a \in Assertions, Signed(a)
    PROVE  a \in Minted
PROOF
<1>1. CASE a \in Altered
  BY <1>1, UnforgeableAssumption
<1>2. ASSUME NEW b \in Minted, NEW mode \in FRAUD_MODES, NEW t \in 0..EndOfTime,
             a = ApplyFraud(b, mode, t)
      PROVE  a \in Minted
  BY <1>2, FraudBreaksSignature, ClockAssumption
<1>. QED
  BY <1>1, <1>2 DEF Assertions

(***************************************************************************)
(* Whatever applyFraud does to a genuine assertion, in whichever mode and  *)
(* at whatever time, verifyAssertion refuses the outcome from then on.     *)
(***************************************************************************)
THEOREM FraudIsRefused ==
    ASSUME NEW a \in Minted, NEW mode \in FRAUD_MODES, NEW t \in Int, NEW now \in Int,
           t <= now
    PROVE  AssertionFault(ApplyFraud(a, mode, t), now) \in {"invalid_signature", "expired"}
PROOF
<1> DEFINE b == ApplyFraud(a, mode, t)
<1>1. DOMAIN a = SignedFields \cup {"signature"} /\ a.signature.form = "bytes"
  <2>1. \A over : Signature(over).form = "bytes"
    BY DEF Signature
  <2>. QED
    BY <2>1, MintedFacts
<1>2. b.signature.form = "bytes"
  BY <1>1 DEF ApplyFraud, FRAUD_MODES, SignedFields, Signature
<1>3. CASE Signed(b)
  <2>1. mode = "expired"
    BY <1>3, FraudBreaksSignature
  <2>2. b.expires_at = t - 2
    BY <1>1, <2>1 DEF ApplyFraud, SignedFields
  <2> HIDE DEF b
  <2>3. AssertionFault(b, now) = "expired"
    BY <1>2, <1>3, <2>2 DEF AssertionFault
  <2>. QED
    BY <2>3 DEF b
<1>4. CASE ~Signed(b)
  <2> HIDE DEF b
  <2>1. AssertionFault(b, now) = "invalid_signature"
    BY <1>2, <1>4 DEF AssertionFault
  <2>. QED
    BY <2>1 DEF b
<1>. QED
  BY <1>3, <1>4

(***************************************************************************)
(* What an agent holds before it signs is a request, and a listing read    *)
(* from a feed has a whole price.                                          *)
(***************************************************************************)
LEMMA InputFacts ==
    /\ AgentRequests \subseteq Request
    /\ \A feed \in Feeds : feed \subseteq Listing
    /\ \A l \in Listing : l.priceCents \in Nat
    /\ \A cents \in Nat : AtomicUnits(cents) \in Nat
PROOF
<1>1. AgentRequests \subseteq Request
  <2> SUFFICES ASSUME NEW a \in Minted
               PROVE  [route |-> "purchase", body |-> "product", product |-> a.product_id,
                       assertion |-> a, payment |-> NoPayment] \in Request
    BY DEF AgentRequests
  <2>1. a \in Assertions
    BY DEF Assertions
  <2>2. a.product_id \in Products
    BY MintedFacts
  <2>3. NoPayment \in Payment
    BY DEF NoPayment, Payment
  <2>. QED
    BY <2>1, <2>2, <2>3 DEF Request, Routes, Bodies
<1>2. \A feed \in Feeds : feed \subseteq Listing
  BY FeedsAssumption
<1>3. \A l \in Listing : l.priceCents \in Nat
  BY DEF Listing
<1>4. \A cents \in Nat : AtomicUnits(cents) \in Nat
  BY DEF AtomicUnits
<1>. QED
  BY <1>1, <1>2, <1>3, <1>4

(***************************************************************************)
(* A query of findListing returns rows of the table for the product.       *)
(***************************************************************************)
LEMMA FoundFacts ==
    ASSUME TypeOK, NEW product, NEW l \in FindListing(product)
    PROVE  l \in listings /\ l \in UNION Feeds /\ l.product = product /\ l.priceCents \in Nat
PROOF
  BY InputFacts DEF TypeOK, FindListing

(* What the gateway answers without a reason of its own. *)
EdgeErrors == {"gateway_error", "body_too_large", "method_not_allowed", "not_found"}

(***************************************************************************)
(* The reasons of the gateway's and the merchant's checks are reasons.     *)
(***************************************************************************)
LEMMA FaultFacts ==
    ASSUME NEW rq \in Request, NEW l, NEW now
    PROVE  /\ EdgeFault(rq, now) \in EdgeReasons \cup EdgeErrors \cup {"none"}
           /\ RequestFault(rq) \in Plain \cup {"merchant_error", "none"}
           /\ MerchantFault(rq, l, now) \in
                  MerchantReasons \cup {"none", "challenge", "merchant_error"}
PROOF
<1>1. \A a : AssertionFault(a, now) \in EdgeReasons \cup {"none", "thrown"}
  BY DEF AssertionFault, EdgeReasons
<1>2. EdgeFault(rq, now) \in EdgeReasons \cup EdgeErrors \cup {"none"}
  BY <1>1 DEF EdgeFault, EdgeReasons, EdgeErrors
<1>3. RequestFault(rq) \in Plain \cup {"merchant_error", "none"}
  BY DEF RequestFault, Plain
<1>4. HeaderFault(rq) \in MerchantReasons \cup {"none"}
  BY DEF HeaderFault, MerchantReasons, EdgeReasons
<1>5. MerchantFault(rq, l, now) \in MerchantReasons \cup {"none", "challenge", "merchant_error"}
  BY <1>1, <1>4 DEF MerchantFault, MerchantReasons
<1>. QED
  BY <1>2, <1>3, <1>5

(***************************************************************************)
(* A request that passes the merchant's checks is signed for the price of  *)
(* the listing, by a payment to the merchant, with a genuine assertion for *)
(* the product.                                                            *)
(***************************************************************************)
LEMMA PassedChecks ==
    ASSUME NEW rq \in Request, NEW l, NEW now, MerchantFault(rq, l, now) = "none"
    PROVE  /\ rq.assertion \in Minted
           /\ rq.assertion.product_id = rq.product
           /\ rq.payment.value = AtomicUnits(l.priceCents)
           /\ rq.payment.toMerchant
PROOF
<1>1. rq.assertion \in Assertions \cup {Missing, Garbled} /\ rq.payment.toMerchant \in BOOLEAN
  BY DEF Request, Payment
<1>2. /\ HeaderFault(rq) = "none"
      /\ AssertionFault(rq.assertion, now) = "none"
      /\ rq.assertion.product_id = rq.product
      /\ rq.payment.value = AtomicUnits(l.priceCents)
      /\ rq.payment.toMerchant
  BY <1>1 DEF MerchantFault
<1>3. rq.assertion \in Assertions
  BY <1>1, <1>2 DEF HeaderFault
<1>4. Signed(rq.assertion)
  BY <1>2 DEF AssertionFault
<1>. QED
  BY <1>2, <1>3, <1>4, SignedIsMinted

(***************************************************************************)
(* The services start with every variable in its type.                     *)
(***************************************************************************)
LEMMA InitType == Init => TypeOK
PROOF
<1> SUFFICES ASSUME Init PROVE TypeOK
  OBVIOUS
<1>1. request \in [Purchases -> Request]
  BY InputFacts, OtherRequestsAssumption DEF Init
<1>2. 0 \in 0..EndOfTime
  BY ClockAssumption
<1>. QED
  BY <1>1, <1>2 DEF Init, TypeOK

-----------------------------------------------------------------------------
(***************************************************************************)
(* The inductive invariant.  That an order, an answer or a journalled      *)
(* reason is right depends on where the three services stood when it was   *)
(* written, so each part below ties one of them to the next.               *)
(***************************************************************************)
HandlersFollowClients ==
    \A p \in Purchases :
        /\ client[p] \in {"idle", "quoted", "sent"} => merchant[p] = "idle"
        /\ client[p] # "done" => answer[p] = "none"
        /\ merchant[p] \in {"idle", "finding", "checking"} => service[p] = "idle"
        /\ merchant[p] = "settling" => service[p] # "idle"
        /\ merchant[p] # "done" <=> reply[p] = "none"

RowsFollowService ==
    \A p \in Purchases :
        /\ service[p] \in {"idle", "received", "verified", "priced", "cleared"} =>
               row[p] = "absent" /\ p \notin moved
        /\ service[p] = "claimed" => row[p] = "pending" /\ p \notin moved
        /\ service[p] = "done" <=> verdict[p] # "none"
        /\ verdict[p] \in PreClaimReasons => row[p] = "absent" /\ p \notin moved
        /\ verdict[p] = "settlement_failed" => row[p] # "confirmed" /\ p \notin moved
        /\ verdict[p] = "confirmed" => row[p] = "confirmed" /\ p \in moved

ClaimsAreUnique ==
    /\ \A p \in Purchases : row[p] # "absent" => request[p].assertion.assertion_id \in consumed
    /\ \A p, q \in Purchases :
          /\ row[p] # "absent" /\ row[q] # "absent"
          /\ request[p].assertion.assertion_id = request[q].assertion.assertion_id
          => p = q
    /\ \A id \in consumed :
          \E p \in Purchases : row[p] # "absent" /\ request[p].assertion.assertion_id = id

TermsAgree ==
    /\ \A p \in Agents :
          client[p] \in {"sent", "waiting"} \/ merchant[p] # "idle" =>
              request[p].payment.value = AtomicUnits(quote[p])
    /\ \A p \in Purchases :
          service[p] # "idle" =>
              /\ request[p].assertion \in Minted
              /\ request[p].assertion.product_id = request[p].product
              /\ request[p].payment.value = AtomicUnits(gross[p])
              /\ request[p].payment.toMerchant

(* What an agent holds, and what it has sent if it was told to cheat. *)
AgentsHoldTheirSlip ==
    \A p \in Purchases :
        client[p] = "quoted" \/ (p \in Agents /\ client[p] = "idle") =>
            p \in Agents /\ request[p] \in AgentRequests

Forged(p) ==
    /\ request[p].route = "purchase" /\ request[p].body = "product"
    /\ request[p].payment.form = "signed"
    /\ \E a \in Minted, t \in 0..clock : request[p].assertion = ApplyFraud(a, fraud[p], t)

ForgeriesStopAtTheEdge ==
    \A p \in Purchases :
        fraud[p] # "none" =>
            /\ p \in Agents
            /\ merchant[p] = "idle" /\ client[p] # "waiting"
            /\ client[p] = "sent" => Forged(p)
            /\ answer[p] \in {"none", "no_listing", "out_of_stock", "merchant_error",
                              "gateway_error", "invalid_signature", "expired"}

RepliesFollowVerdicts ==
    \A p \in Purchases :
        merchant[p] = "done" =>
            \/ reply[p] = "merchant_error"
            \/ /\ service[p] = "idle"
               /\ reply[p] \in MerchantReasons \cup Plain
            \/ /\ service[p] = "done"
               /\ reply[p] = IF verdict[p] = "confirmed" THEN "fulfilled" ELSE verdict[p]
            \/ /\ service[p] = "done" /\ verdict[p] # "confirmed"
               /\ reply[p] = "settlement_unavailable"

AnswersFollowReplies ==
    \A p \in Purchases :
        \/ answer[p] \in {"none", "gateway_error"}
        \/ merchant[p] = "done" /\ answer[p] = reply[p]
        \/ /\ merchant[p] = "idle" /\ client[p] = "done"
           /\ answer[p] \in EdgeReasons \cup EdgeErrors
                               \cup {"no_listing", "out_of_stock", "merchant_error"}

(* Who reported or journalled a refusal had made, or been given, it. *)
Vouched(by, p, reason) ==
    \/ by = "edge" /\ merchant[p] = "idle" /\ client[p] = "done" /\ reason = answer[p]
    \/ by = "merchant" /\ reason = reply[p] /\ reason \in Reportable
    \/ by = "settlement" /\ reason = verdict[p] /\ reason # "confirmed"
       /\ service[p] = "done"

ReportsFollowHandlers ==
    \A j \in journal \cup outbox : Vouched(j.by, j.purchase, j.reason)

IInv ==
    /\ TypeOK
    /\ HandlersFollowClients
    /\ RowsFollowService
    /\ ClaimsAreUnique
    /\ TermsAgree
    /\ AgentsHoldTheirSlip
    /\ ForgeriesStopAtTheEdge
    /\ RepliesFollowVerdicts
    /\ AnswersFollowReplies
    /\ ReportsFollowHandlers

(***************************************************************************)
(* No step takes a variable out of its type: only an assertion that was    *)
(* verified is ever claimed.                                               *)
(***************************************************************************)
LEMMA NextType == TypeOK /\ TermsAgree /\ AgentsHoldTheirSlip /\ [Next]_vars => TypeOK'
PROOF
<1> SUFFICES ASSUME TypeOK, TermsAgree, AgentsHoldTheirSlip, [Next]_vars PROVE TypeOK'
  OBVIOUS
<1> USE DEF clientVars, merchantVars, serviceVars, journalVars, worldVars
<1>1. ASSUME NEW p \in Purchases, Client(p) PROVE TypeOK'
  <2>1. CASE RequestChallenge(p)
    BY <2>1, FoundFacts DEF RequestChallenge, ToClient, TypeOK, Answers, Replies, Plain
  <2>2. CASE SignAndPay(p)
    <3> DEFINE pay == [form |-> "signed", value |-> AtomicUnits(quote[p]),
                       toMerchant |-> TRUE]
               slip == Presented(request[p].assertion, fraud[p])
    <3>1. [request[p] EXCEPT !.payment = pay, !.assertion = slip] \in Request
      <4>1. pay \in Payment
        BY InputFacts DEF TypeOK, Payment
      <4>2. request[p] \in Request /\ request[p].assertion \in Minted
        BY <2>2 DEF TypeOK, SignAndPay, AgentsHoldTheirSlip, AgentRequests
      <4>3. slip \in Assertions
        BY <4>2 DEF Presented, Assertions, TypeOK
      <4> HIDE DEF pay, slip
      <4>. QED
        BY <4>1, <4>2, <4>3 DEF Request
    <3>2. request' \in [Purchases -> Request]
      BY <2>2, <3>1 DEF SignAndPay, TypeOK
    <3>. QED
      BY <2>2, <3>2 DEF SignAndPay, TypeOK
  <2>3. CASE Send(p)
    BY <2>3 DEF Send, TypeOK
  <2>. QED
    BY <1>1, <2>1, <2>2, <2>3 DEF Client
<1>2. ASSUME NEW p \in Purchases, Gateway(p) PROVE TypeOK'
  <2>1. CASE GatewayRefuses(p)
    <3> DEFINE fault == EdgeFault(request[p], clock)
    <3>1. request[p] \in Request
      BY DEF TypeOK
    <3>2. fault \in EdgeReasons \cup EdgeErrors
      BY <2>1, <3>1, FaultFacts DEF GatewayRefuses
    <3>3. EdgeReasons \subseteq Replies /\ EdgeReasons \cup EdgeErrors \subseteq Answers
      BY DEF MerchantReasons, Replies, Answers, EdgeErrors, Plain
    <3>4. /\ ToClient(p, fault)
          /\ IF fault \in EdgeReasons THEN Report(p, "edge", fault, TRUE) ELSE UNCHANGED outbox
          /\ UNCHANGED <<request, fraud, quote, merchantVars, serviceVars, journal, worldVars>>
      BY <2>1 DEF GatewayRefuses
    <3> HIDE DEF fault
    <3>5. fault \in EdgeReasons =>
             [purchase |-> p, by |-> "edge", reason |-> fault, named |-> TRUE]
             \in [purchase: Purchases, by: {"edge", "merchant"}, reason: Replies,
                  named: BOOLEAN]
      BY <3>3
    <3>6. outbox' \subseteq [purchase: Purchases, by: {"edge", "merchant"}, reason: Replies,
                             named: BOOLEAN]
      <4> DEFINE report == [purchase |-> p, by |-> "edge", reason |-> fault, named |-> TRUE]
      <4>1. outbox' = outbox \/ (fault \in EdgeReasons /\ outbox' = outbox \cup {report})
        BY <3>4 DEF Report
      <4>2. fault \in EdgeReasons =>
               report \in [purchase: Purchases, by: {"edge", "merchant"}, reason: Replies,
                          named: BOOLEAN]
        BY <3>5
      <4> HIDE DEF report
      <4>. QED
        BY <4>1, <4>2 DEF TypeOK
    <3>7. /\ client' \in [Purchases -> {"idle", "quoted", "sent", "waiting", "done"}]
          /\ answer' \in [Purchases -> Answers \cup {"none"}]
      BY <3>2, <3>3, <3>4 DEF ToClient, TypeOK
    <3>. QED
      BY <3>4, <3>6, <3>7 DEF TypeOK
  <2>2. CASE MerchantReceives(p)
    BY <2>2 DEF MerchantReceives, TypeOK
  <2>3. CASE ReturnReply(p)
    BY <2>3 DEF ReturnReply, ToClient, TypeOK, Answers
  <2>4. CASE GatewayGivesUp(p)
    BY <2>4 DEF GatewayGivesUp, ToClient, TypeOK, Answers
  <2>. QED
    BY <1>2, <2>1, <2>2, <2>3, <2>4 DEF Gateway
<1>3. ASSUME NEW p \in Purchases, Merchant(p) PROVE TypeOK'
  <2>1. ASSUME NEW outcome \in Replies \cup {"none"}, NEW reported \in BOOLEAN,
               ReplyAs(p, outcome, reported), reported => outcome \in Reportable
        PROVE  /\ merchant' \in [Purchases -> {"idle", "finding", "checking", "settling", "done"}]
               /\ reply' \in [Purchases -> Replies \cup {"none"}]
               /\ outbox' \subseteq [purchase: Purchases, by: {"edge", "merchant"},
                                     reason: Replies, named: BOOLEAN]
    <3> DEFINE named == ~Nameless(request[p].assertion)
    <3>1. /\ merchant' = [merchant EXCEPT ![p] = "done"]
          /\ reply' = [reply EXCEPT ![p] = outcome]
      BY <2>1 DEF ReplyAs
    <3>2. CASE reported
      <4>1. outcome \in Replies /\ named \in BOOLEAN
        BY <2>1, <3>2 DEF Reportable, Nameless
      <4>2. outbox' = outbox \cup {[purchase |-> p, by |-> "merchant", reason |-> outcome,
                                   named |-> named]}
        BY <2>1, <3>2 DEF ReplyAs, Report
      <4> HIDE DEF named
      <4>3. [purchase |-> p, by |-> "merchant", reason |-> outcome, named |-> named]
            \in [purchase: Purchases, by: {"edge", "merchant"}, reason: Replies,
                 named: BOOLEAN]
        BY <4>1
      <4>. QED
        BY <3>1, <4>2, <4>3 DEF TypeOK
    <3>3. CASE ~reported
      BY <2>1, <3>1, <3>3 DEF ReplyAs, TypeOK
    <3>. QED
      BY <3>2, <3>3
  <2>7. ASSUME NEW outcome \in Replies \cup {"none"}, Reply(p, outcome)
        PROVE  /\ merchant' \in [Purchases -> {"idle", "finding", "checking", "settling", "done"}]
               /\ reply' \in [Purchases -> Replies \cup {"none"}]
               /\ outbox' \subseteq [purchase: Purchases, by: {"edge", "merchant"},
                                     reason: Replies, named: BOOLEAN]
    <3>1. (outcome \in Reportable) \in BOOLEAN
      OBVIOUS
    <3>. QED
      BY <2>1, <2>7, <3>1 DEF Reply
  <2>2. CASE MerchantFinds(p)
    <3>1. {"no_listing", "out_of_stock", "merchant_error"} \subseteq Replies
      BY DEF Replies, Plain
    <3>2. ASSUME NEW outcome \in {"no_listing", "out_of_stock", "merchant_error"},
                 Reply(p, outcome), UNCHANGED found
          PROVE  TypeOK'
      BY <2>7, <2>2, <3>1, <3>2 DEF MerchantFinds, TypeOK
    <3>3. ASSUME NEW l \in FindListing(request[p].product),
                 merchant' = [merchant EXCEPT ![p] = "checking"],
                 found' = [found EXCEPT ![p] = {l}],
                 UNCHANGED <<reply, outbox>>
          PROVE  TypeOK'
      BY <2>2, <3>3, FoundFacts DEF MerchantFinds, TypeOK
    <3>. QED
      BY <2>2, <3>2, <3>3 DEF MerchantFinds
  <2>3. CASE MerchantRefuses(p)
    <3>1. PICK l \in found[p] : /\ MerchantFault(request[p], l, arrived[p]) # "none"
                                /\ Reply(p, MerchantFault(request[p], l, arrived[p]))
      BY <2>3 DEF MerchantRefuses
    <3>2. MerchantFault(request[p], l, arrived[p])
             \in MerchantReasons \cup {"challenge", "merchant_error"}
      BY <3>1, FaultFacts DEF TypeOK
    <3>3. MerchantFault(request[p], l, arrived[p]) \in Replies
      BY <3>2 DEF Replies, Plain
    <3>. QED
      BY <2>7, <2>3, <3>1, <3>3 DEF MerchantRefuses, TypeOK
  <2>4. CASE MerchantSettles(p)
    <3>1. \A l \in found[p] : l.priceCents \in Nat
      BY InputFacts DEF TypeOK
    <3>. QED
      BY <2>4, <3>1 DEF MerchantSettles, TypeOK
  <2>5. CASE MerchantReplies(p) \/ MerchantGivesUp(p)
    <3>1. \A v \in Verdicts \cup {"none"} :
             (IF v = "confirmed" THEN "fulfilled" ELSE v) \in Replies \cup {"none"}
      BY DEF Replies
    <3>2. PICK outcome \in Replies \cup {"none"} : Reply(p, outcome)
      BY <2>5, <3>1 DEF MerchantReplies, MerchantGivesUp, TypeOK, Replies
    <3>3. UNCHANGED <<clientVars, arrived, found, gross, serviceVars, journal, worldVars>>
      BY <2>5 DEF MerchantReplies, MerchantGivesUp
    <3>. QED
      BY <2>7, <3>2, <3>3 DEF TypeOK
  <2>6. CASE MerchantDeclines(p)
    <3>1. RequestFault(request[p]) \in Replies
      BY <2>6, FaultFacts DEF MerchantDeclines, Replies, TypeOK
    <3>. QED
      BY <2>7, <2>6, <3>1 DEF MerchantDeclines, TypeOK
  <2>8. CASE MerchantHearsHalf(p)
    <3> DEFINE reported == verdict[p] \in Reportable
    <3>1. "settlement_unavailable" \in Replies \cap Reportable /\ reported \in BOOLEAN
      BY DEF Replies, Reportable, Plain
    <3>2. /\ ReplyAs(p, "settlement_unavailable", reported)
          /\ UNCHANGED <<clientVars, arrived, found, gross, serviceVars, journal, worldVars>>
      BY <2>8 DEF MerchantHearsHalf
    <3> HIDE DEF reported
    <3>. QED
      BY <2>1, <3>1, <3>2 DEF TypeOK
  <2>. QED
    BY <1>3, <2>2, <2>3, <2>4, <2>5, <2>6, <2>8 DEF Merchant
<1>4. ASSUME NEW p \in Purchases, SettlementService(p) PROVE TypeOK'
  <2>1. ASSUME NEW reason \in Verdicts \ {"confirmed"},
               Refuse(p, reason) \/ (InternalError(p) /\ reason = "internal_error")
        PROVE  /\ service' \in [Purchases -> {"idle", "received", "verified", "priced",
                                              "cleared", "claimed", "done"}]
               /\ verdict' \in [Purchases -> Verdicts \cup {"none"}]
               /\ journal' \subseteq [purchase: Purchases,
                                      by: {"edge", "merchant", "settlement"}, reason: Replies]
    BY <2>1 DEF Refuse, InternalError, Verdict, TypeOK, Replies
  <2>2. Verdicts \ {"confirmed"} =
          {"assertion_signature_invalid", "assertion_expired", "listing_not_found",
           "listing_mismatch", "payment_invalid", "assertion_reused",
           "settlement_failed", "facilitator_unavailable", "internal_error"}
    BY DEF Verdicts, PreClaimReasons
  <2>3. CASE SettlementVerifies(p)
    <3>1. \A fault : SettlementReason(fault) \in Verdicts \ {"confirmed"}
      BY <2>2 DEF SettlementReason
    <3>. QED
      BY <2>1, <2>3, <3>1 DEF SettlementVerifies, TypeOK
  <2>4. CASE LookupListing(p)
    <3>1. CASE service' = [service EXCEPT ![p] = "priced"] /\ UNCHANGED <<verdict, journal>>
      BY <2>4, <3>1 DEF LookupListing, TypeOK
    <3>2. ASSUME NEW reason \in {"listing_not_found", "listing_mismatch"}, Refuse(p, reason)
          PROVE  TypeOK'
      BY <2>1, <2>2, <2>4, <3>2 DEF LookupListing, TypeOK
    <3>3. CASE InternalError(p)
      BY <2>1, <2>2, <2>4, <3>3 DEF LookupListing, TypeOK
    <3>. QED
      BY <2>4, <3>1, <3>2, <3>3 DEF LookupListing
  <2>5. CASE FacilitatorVerify(p)
    BY <2>1, <2>2, <2>5 DEF FacilitatorVerify, TypeOK
  <2>6. CASE Begin(p)
    <3>1. request[p].assertion \in Minted
      BY <2>6 DEF Begin, TermsAgree
    <3>2. ASSUME Claim(p)
          PROVE  /\ consumed' \subseteq {a.assertion_id : a \in Minted}
                 /\ row' \in [Purchases -> {"absent", "pending", "confirmed", "failed"}]
      BY <3>1, <3>2 DEF Claim, TypeOK
    <3>. QED
      BY <2>1, <2>2, <2>6, <3>2 DEF Begin, TypeOK
  <2>7. CASE Settle(p)
    <3>1. moved' \subseteq Purchases
      BY <2>7 DEF Settle, TypeOK
    <3>2. CASE InternalError(p)
      BY <2>1, <2>2, <2>7, <3>1, <3>2 DEF Settle, TypeOK
    <3>3. CASE Verdict(p, "confirmed") /\ UNCHANGED journal
      BY <2>7, <3>1, <3>3 DEF Settle, Verdict, Verdicts, TypeOK
    <3>. QED
      BY <2>7, <3>2, <3>3 DEF Settle
  <2>8. CASE SettleFails(p)
    BY <2>1, <2>2, <2>8 DEF SettleFails, TypeOK
  <2>. QED
    BY <1>4, <2>3, <2>4, <2>5, <2>6, <2>7, <2>8 DEF SettlementService
<1>5. ASSUME NEW report \in outbox, RecordRejection(report) PROVE TypeOK'
  BY <1>5 DEF RecordRejection, TypeOK
<1>6. CASE ReplaceListings
  BY <1>6 DEF ReplaceListings, TypeOK
<1>7. CASE Tick
  BY <1>7, ClockAssumption DEF Tick, TypeOK
<1>8. CASE UNCHANGED vars
  BY <1>8 DEF vars, TypeOK
<1>. QED
  BY <1>1, <1>2, <1>3, <1>4, <1>5, <1>6, <1>7, <1>8 DEF Next

(***************************************************************************)
(* The inductive invariant holds before any client has called.             *)
(***************************************************************************)
LEMMA InitInvariant == Init => IInv
PROOF
<1> SUFFICES ASSUME Init PROVE IInv
  OBVIOUS
<1>1. TypeOK
  BY InitType
<1>2. AgentsHoldTheirSlip /\ ForgeriesStopAtTheEdge
  BY ClientsAssumption DEF Init, AgentsHoldTheirSlip, ForgeriesStopAtTheEdge
<1>3. /\ HandlersFollowClients /\ RowsFollowService /\ ClaimsAreUnique /\ TermsAgree
      /\ RepliesFollowVerdicts /\ AnswersFollowReplies /\ ReportsFollowHandlers
  BY ClientsAssumption
  DEF Init, HandlersFollowClients, RowsFollowService, ClaimsAreUnique, TermsAgree,
      RepliesFollowVerdicts, AnswersFollowReplies, ReportsFollowHandlers, PreClaimReasons
<1>. QED
  BY <1>1, <1>2, <1>3 DEF IInv

(***************************************************************************)
(* A client that asks, signs or sends has nothing behind it yet.           *)
(***************************************************************************)
LEMMA ClientKeepsInvariant ==
    ASSUME IInv, TypeOK', NEW p \in Purchases, Client(p)
    PROVE  IInv'
PROOF
<1> USE DEF IInv, TypeOK, merchantVars, serviceVars, journalVars, worldVars
<1>1. client[p] \in {"idle", "quoted"} /\ merchant[p] = "idle" /\ answer[p] = "none"
  BY DEF Client, RequestChallenge, SignAndPay, Send, HandlersFollowClients
<1>2. /\ \E label \in {"quoted", "sent", "done"} : client' = [client EXCEPT ![p] = label]
      /\ \/ UNCHANGED answer
         \/ /\ client' = [client EXCEPT ![p] = "done"]
            /\ \E outcome \in {"no_listing", "out_of_stock", "merchant_error", "gateway_error"} :
                  answer' = [answer EXCEPT ![p] = outcome]
      /\ UNCHANGED <<fraud, merchantVars, serviceVars, journalVars, worldVars>>
  BY DEF Client, RequestChallenge, SignAndPay, Send, ToClient
<1>3. \A q \in Purchases : q # p => request'[q] = request[q]
  BY DEF Client, RequestChallenge, SignAndPay, Send
<1>4. service[p] = "idle" /\ row[p] = "absent"
  BY <1>1 DEF HandlersFollowClients, RowsFollowService
<1>5. HandlersFollowClients' /\ RowsFollowService' /\ RepliesFollowVerdicts'
  BY <1>1, <1>2 DEF HandlersFollowClients, RowsFollowService, RepliesFollowVerdicts
<1>6. ClaimsAreUnique'
  <2>1. \A q \in Purchases : row[q] # "absent" => request'[q] = request[q]
    BY <1>3, <1>4
  <2>. QED
    BY <1>2, <2>1 DEF ClaimsAreUnique
<1>7. TermsAgree'
  <2>1. \A q \in Purchases :
          service'[q] # "idle" =>
              /\ request'[q].assertion \in Minted
              /\ request'[q].assertion.product_id = request'[q].product
              /\ request'[q].payment.value = AtomicUnits(gross'[q])
              /\ request'[q].payment.toMerchant
    BY <1>2, <1>3, <1>4 DEF TermsAgree
  <2>2. ASSUME NEW q \in Agents, client'[q] \in {"sent", "waiting"} \/ merchant'[q] # "idle"
        PROVE  request'[q].payment.value = AtomicUnits(quote'[q])
    <3>1. CASE q = p
      <4>1. SignAndPay(p)
        BY <1>1, <1>2, <2>2, <3>1, ClientsAssumption
        DEF Client, RequestChallenge, ToClient, Send
      <4>2. request'[p].payment.value = AtomicUnits(quote[p])
        BY <4>1 DEF SignAndPay, Request
      <4>. QED
        BY <3>1, <4>1, <4>2 DEF SignAndPay
    <3>2. CASE q # p
      <4>1. quote'[q] = quote[q]
        BY <3>2, ClientsAssumption DEF Client, RequestChallenge, SignAndPay, Send
      <4>. QED
        BY <1>2, <1>3, <2>2, <3>2, <4>1, ClientsAssumption DEF TermsAgree
    <3>. QED
      BY <3>1, <3>2
  <2>. QED
    BY <2>1, <2>2 DEF TermsAgree
<1>8. AnswersFollowReplies'
  BY <1>1, <1>2 DEF AnswersFollowReplies, HandlersFollowClients
<1>9. ReportsFollowHandlers'
  BY <1>1, <1>2 DEF ReportsFollowHandlers, Vouched
<1>10. AgentsHoldTheirSlip'
  <2>1. ASSUME client'[p] \in {"idle", "quoted"} PROVE p \in Agents /\ request' = request
    BY <1>1, <1>2, <2>1 DEF Client, RequestChallenge, SignAndPay, Send
  <2>2. p \in Agents => request[p] \in AgentRequests
    BY <1>1 DEF AgentsHoldTheirSlip
  <2>3. \A q \in Purchases : q # p => client'[q] = client[q]
    BY <1>2
  <2>. QED
    BY <1>3, <2>1, <2>2, <2>3 DEF AgentsHoldTheirSlip
<1>11. ForgeriesStopAtTheEdge'
  <2> SUFFICES ASSUME NEW q \in Purchases, fraud[q] # "none"
               PROVE  /\ q \in Agents
                      /\ merchant'[q] = "idle" /\ client'[q] # "waiting"
                      /\ client'[q] = "sent" => Forged(q)'
                      /\ answer'[q] \in {"none", "no_listing", "out_of_stock",
                                         "merchant_error", "gateway_error",
                                         "invalid_signature", "expired"}
    BY <1>2 DEF ForgeriesStopAtTheEdge
  <2>1. /\ q \in Agents /\ merchant'[q] = "idle" /\ client'[q] # "waiting"
        /\ answer'[q] \in {"none", "no_listing", "out_of_stock", "merchant_error",
                           "gateway_error", "invalid_signature", "expired"}
    BY <1>2 DEF ForgeriesStopAtTheEdge
  <2>2. ASSUME client'[q] = "sent", q # p PROVE Forged(q)'
    BY <1>2, <1>3, <2>2 DEF ForgeriesStopAtTheEdge, Forged
  <2>3. ASSUME client'[q] = "sent", q = p PROVE Forged(q)'
    <3>1. SignAndPay(p)
      BY <1>1, <1>2, <2>1, <2>3 DEF Client, RequestChallenge, ToClient, Send
    <3>2. request[p] \in AgentRequests
      BY <3>1 DEF SignAndPay, AgentsHoldTheirSlip
    <3>3. /\ request[p].route = "purchase" /\ request[p].body = "product"
          /\ request[p].assertion \in Minted
      BY <3>2 DEF AgentRequests
    <3>4. Presented(request[p].assertion, fraud[p])
             = ApplyFraud(request[p].assertion, fraud[p], clock)
      BY <2>3 DEF Presented
    <3> DEFINE slip == Presented(request[p].assertion, fraud[p])
               pay  == [form |-> "signed", value |-> AtomicUnits(quote[p]), toMerchant |-> TRUE]
    <3>5. /\ request'[p] = [request[p] EXCEPT !.payment = pay, !.assertion = slip]
          /\ pay.form = "signed"
      BY <3>1 DEF SignAndPay
    <3> HIDE DEF slip, pay
    <3>6. /\ request'[p].route = "purchase" /\ request'[p].body = "product"
          /\ request'[p].payment.form = "signed"
          /\ request'[p].assertion = slip
      BY <3>3, <3>5 DEF Request
    <3>7. clock \in 0..clock /\ UNCHANGED <<clock, fraud>>
      BY <1>2, ClockAssumption
    <3>. QED
      BY <2>3, <3>3, <3>4, <3>6, <3>7 DEF Forged, slip
  <2>. QED
    BY <2>1, <2>2, <2>3
<1>. QED
  BY <1>5, <1>6, <1>7, <1>8, <1>9, <1>10, <1>11

(***************************************************************************)
(* What an agent was told to forge, the gateway refuses, at any time.      *)
(***************************************************************************)
LEMMA ForgeryIsRefused ==
    ASSUME TypeOK, NEW p \in Purchases, fraud[p] # "none", Forged(p)
    PROVE  EdgeFault(request[p], clock) \in {"invalid_signature", "expired"}
PROOF
<1>1. PICK a \in Minted, t \in 0..clock : request[p].assertion = ApplyFraud(a, fraud[p], t)
  BY DEF Forged
<1>2. fraud[p] \in FRAUD_MODES /\ clock \in Int /\ t \in Int /\ t <= clock
  BY ClockAssumption DEF TypeOK
<1>3. AssertionFault(request[p].assertion, clock) \in {"invalid_signature", "expired"}
  BY <1>1, <1>2, FraudIsRefused
<1>4. request[p].assertion \in Assertions
  BY <1>1, <1>2, ClockAssumption DEF Assertions, TypeOK
<1>. QED
  BY <1>3, <1>4, HeadersAssumption DEF EdgeFault, Forged

(***************************************************************************)
(* The gateway answers with its own reason before the merchant has heard   *)
(* of the purchase, and with the merchant's reply or an error after.       *)
(***************************************************************************)
LEMMA GatewayKeepsInvariant ==
    ASSUME IInv, TypeOK', NEW p \in Purchases, Gateway(p)
    PROVE  IInv'
PROOF
<1> USE DEF IInv, TypeOK, merchantVars, serviceVars, journalVars, worldVars
<1>1. UNCHANGED <<request, fraud, quote, found, gross, reply, serviceVars, journal, worldVars>>
  BY DEF Gateway, GatewayRefuses, MerchantReceives, ReturnReply, GatewayGivesUp
<1>2. RowsFollowService' /\ ClaimsAreUnique'
  BY <1>1 DEF RowsFollowService, ClaimsAreUnique
<1>3. AgentsHoldTheirSlip'
  <2>1. client[p] \in {"sent", "waiting"}
    BY DEF Gateway, GatewayRefuses, MerchantReceives, ReturnReply, GatewayGivesUp
  <2>2. \E label \in {"waiting", "done"} : client' = [client EXCEPT ![p] = label]
    BY DEF Gateway, GatewayRefuses, MerchantReceives, ReturnReply, GatewayGivesUp, ToClient
  <2>. QED
    BY <1>1, <2>2 DEF AgentsHoldTheirSlip
<1>4. ASSUME fraud[p] = "none" PROVE ForgeriesStopAtTheEdge'
  <2>1. /\ \E label \in {"waiting", "done"} : client' = [client EXCEPT ![p] = label]
        /\ UNCHANGED answer \/ \E outcome : answer' = [answer EXCEPT ![p] = outcome]
        /\ UNCHANGED merchant \/ merchant' = [merchant EXCEPT ![p] = "finding"]
    <3>1. CASE GatewayRefuses(p)
      BY <3>1 DEF GatewayRefuses, ToClient
    <3>2. CASE MerchantReceives(p)
      BY <3>2 DEF MerchantReceives
    <3>3. CASE ReturnReply(p) \/ GatewayGivesUp(p)
      BY <3>3 DEF ReturnReply, GatewayGivesUp, ToClient
    <3>. QED
      BY <3>1, <3>2, <3>3 DEF Gateway
  <2>2. \A q \in Purchases : Forged(q) => Forged(q)'
    BY <1>1 DEF Forged
  <2>3. ASSUME NEW q \in Purchases, fraud'[q] # "none"
        PROVE  /\ q \in Agents
               /\ merchant'[q] = "idle" /\ client'[q] # "waiting"
               /\ client'[q] = "sent" => Forged(q)'
               /\ answer'[q] \in {"none", "no_listing", "out_of_stock", "merchant_error",
                                  "gateway_error", "invalid_signature", "expired"}
    <3>1. q # p /\ fraud[q] # "none"
      BY <1>1, <1>4, <2>3
    <3>. QED
      BY <2>1, <2>2, <3>1 DEF ForgeriesStopAtTheEdge
  <2>. QED
    BY <2>3 DEF ForgeriesStopAtTheEdge
<1>5. CASE GatewayRefuses(p)
  <2> DEFINE fault == EdgeFault(request[p], clock)
  <2>1. fault \in EdgeReasons \cup EdgeErrors
    BY <1>5, FaultFacts DEF GatewayRefuses
  <2>2. merchant[p] = "idle" /\ client[p] = "sent"
    BY <1>5 DEF GatewayRefuses, HandlersFollowClients
  <2>3. /\ ToClient(p, fault)
        /\ IF fault \in EdgeReasons THEN Report(p, "edge", fault, TRUE) ELSE UNCHANGED outbox
        /\ UNCHANGED merchantVars
    BY <1>5 DEF GatewayRefuses
  <2>4. fraud[p] # "none" => fault \in {"invalid_signature", "expired"}
    BY <2>2, ForgeryIsRefused DEF ForgeriesStopAtTheEdge
  <2> HIDE DEF fault
  <2>5. HandlersFollowClients' /\ RepliesFollowVerdicts' /\ TermsAgree'
    BY <1>1, <2>2, <2>3 DEF ToClient, HandlersFollowClients, RepliesFollowVerdicts, TermsAgree
  <2>6. AnswersFollowReplies'
    BY <1>1, <2>1, <2>2, <2>3 DEF ToClient, AnswersFollowReplies
  <2>7. ForgeriesStopAtTheEdge'
    <3>1. CASE fraud[p] # "none"
      BY <1>1, <2>2, <2>3, <2>4, <3>1 DEF ToClient, ForgeriesStopAtTheEdge, Forged
    <3>. QED
      BY <1>4, <3>1
  <2>8. ReportsFollowHandlers'
    <3>1. \A j \in journal \cup outbox :
             Vouched(j.by, j.purchase, j.reason) => Vouched(j.by, j.purchase, j.reason)'
      BY <1>1, <2>2, <2>3 DEF ToClient, Vouched
    <3>2. ASSUME NEW j \in outbox', j \notin outbox
          PROVE  Vouched(j.by, j.purchase, j.reason)'
      <4>1. j.by = "edge" /\ j.purchase = p /\ j.reason = fault
        BY <2>3, <3>2 DEF Report
      <4>2. client'[p] = "done" /\ answer'[p] = fault /\ merchant'[p] = "idle"
        BY <2>2, <2>3 DEF ToClient
      <4>. QED
        BY <4>1, <4>2 DEF Vouched
    <3>. QED
      BY <1>1, <3>1, <3>2 DEF ReportsFollowHandlers
  <2>. QED
    BY <1>2, <1>3, <2>5, <2>6, <2>7, <2>8
<1>6. CASE MerchantReceives(p)
  <2>1. merchant[p] = "idle" /\ service[p] = "idle" /\ reply[p] = "none"
    BY <1>6 DEF MerchantReceives, HandlersFollowClients
  <2>2. HandlersFollowClients' /\ RepliesFollowVerdicts' /\ TermsAgree'
    BY <1>1, <1>6, <2>1 DEF MerchantReceives, HandlersFollowClients,
       RepliesFollowVerdicts, TermsAgree
  <2>3. AnswersFollowReplies' /\ ReportsFollowHandlers'
    BY <1>1, <1>6, <2>1 DEF MerchantReceives, AnswersFollowReplies, HandlersFollowClients,
       ReportsFollowHandlers, Vouched
  <2>4. fraud[p] = "none"
    <3>1. client[p] = "sent" /\ (p \in Direct \/ EdgeFault(request[p], clock) = "none")
      BY <1>6 DEF MerchantReceives
    <3>. QED
      BY <3>1, ForgeryIsRefused, ClientsAssumption DEF ForgeriesStopAtTheEdge
  <2>. QED
    BY <1>2, <1>3, <1>4, <2>2, <2>3, <2>4
<1>7. CASE ReturnReply(p) \/ GatewayGivesUp(p)
  <2>1. merchant[p] # "idle" \/ client[p] = "waiting"
    BY <1>7 DEF ReturnReply, GatewayGivesUp
  <2>2. /\ client[p] = "waiting"
        /\ client' = [client EXCEPT ![p] = "done"]
        /\ \/ merchant[p] = "done" /\ answer' = [answer EXCEPT ![p] = reply[p]]
           \/ answer' = [answer EXCEPT ![p] = "gateway_error"]
        /\ UNCHANGED <<merchant, outbox>>
    BY <1>7 DEF ReturnReply, GatewayGivesUp, ToClient
  <2>3. HandlersFollowClients' /\ RepliesFollowVerdicts'
    BY <1>1, <2>2 DEF HandlersFollowClients, RepliesFollowVerdicts
  <2>4. TermsAgree'
    BY <1>1, <2>2 DEF TermsAgree
  <2>5. AnswersFollowReplies' /\ ReportsFollowHandlers'
    BY <1>1, <2>2 DEF AnswersFollowReplies, ReportsFollowHandlers, Vouched
  <2>6. fraud[p] = "none"
    BY <2>2 DEF ForgeriesStopAtTheEdge
  <2>. QED
    BY <1>2, <1>3, <1>4, <2>3, <2>4, <2>5, <2>6
<1>. QED
  BY <1>5, <1>6, <1>7 DEF Gateway

(***************************************************************************)
(* A merchant that answers does so for a reason of its own before it has   *)
(* called the settlement service, and with that service's verdict after.   *)
(***************************************************************************)
LEMMA AnyReplyKeepsInvariant ==
    ASSUME IInv, TypeOK', NEW p \in Purchases, NEW outcome, NEW reported \in BOOLEAN,
           merchant[p] \in {"finding", "checking", "settling"},
           ReplyAs(p, outcome, reported), reported => outcome \in Reportable,
           UNCHANGED <<clientVars, gross, serviceVars, journal, worldVars>>,
           \/ outcome = "merchant_error"
           \/ /\ service[p] = "idle"
              /\ outcome \in MerchantReasons \cup Plain
           \/ /\ service[p] = "done"
              /\ outcome = IF verdict[p] = "confirmed" THEN "fulfilled" ELSE verdict[p]
           \/ /\ service[p] = "done" /\ verdict[p] # "confirmed"
              /\ outcome = "settlement_unavailable"
    PROVE  IInv'
PROOF
<1> USE DEF IInv, TypeOK, clientVars, serviceVars, worldVars
<1>1. /\ merchant' = [merchant EXCEPT ![p] = "done"]
      /\ reply' = [reply EXCEPT ![p] = outcome]
  BY DEF ReplyAs
<1>2. outcome # "none"
  BY DEF RowsFollowService, MerchantReasons, EdgeReasons, Plain
<1>3. client[p] \notin {"idle", "quoted", "sent"} /\ reply[p] = "none"
  BY DEF HandlersFollowClients
<1>4. HandlersFollowClients'
  BY <1>1, <1>2, <1>3 DEF HandlersFollowClients
<1>5. RowsFollowService' /\ ClaimsAreUnique' /\ TermsAgree'
  BY <1>1 DEF RowsFollowService, ClaimsAreUnique, TermsAgree
<1>6. RepliesFollowVerdicts'
  BY <1>1 DEF RepliesFollowVerdicts
<1>7. AnswersFollowReplies'
  BY <1>1 DEF AnswersFollowReplies
<1>8. ReportsFollowHandlers'
  <2>1. \A j \in journal \cup outbox :
           Vouched(j.by, j.purchase, j.reason) => Vouched(j.by, j.purchase, j.reason)'
    BY <1>1, <1>3 DEF Vouched, Reportable, Replies, MerchantReasons, EdgeReasons, Verdicts,
       PreClaimReasons, Plain
  <2>2. ASSUME NEW j \in outbox', j \notin outbox
        PROVE  Vouched(j.by, j.purchase, j.reason)'
    <3>1. reported /\ outcome \in Reportable
      BY <2>2 DEF ReplyAs
    <3>2. j.by = "merchant" /\ j.purchase = p /\ j.reason = outcome
      BY <2>2, <3>1 DEF ReplyAs, Report
    <3>. QED
      BY <1>1, <3>1, <3>2 DEF Vouched
  <2>. QED
    BY <2>1, <2>2 DEF ReportsFollowHandlers
<1>9. AgentsHoldTheirSlip' /\ ForgeriesStopAtTheEdge'
  BY <1>1 DEF AgentsHoldTheirSlip, ForgeriesStopAtTheEdge, Forged
<1>. QED
  BY <1>4, <1>5, <1>6, <1>7, <1>8, <1>9

(***************************************************************************)
(* An answer that came with its reason is reported by that reason.         *)
(***************************************************************************)
LEMMA ReplyKeepsInvariant ==
    ASSUME IInv, TypeOK', NEW p \in Purchases, NEW outcome,
           merchant[p] \in {"finding", "checking", "settling"},
           Reply(p, outcome),
           UNCHANGED <<clientVars, gross, serviceVars, journal, worldVars>>,
           \/ outcome = "merchant_error"
           \/ /\ service[p] = "idle"
              /\ outcome \in MerchantReasons \cup Plain
           \/ /\ service[p] = "done"
              /\ outcome = IF verdict[p] = "confirmed" THEN "fulfilled" ELSE verdict[p]
    PROVE  IInv'
PROOF
<1>1. (outcome \in Reportable) \in BOOLEAN
  OBVIOUS
<1>. QED
  BY <1>1, AnyReplyKeepsInvariant DEF Reply

(***************************************************************************)
(* The merchant calls the settlement service for the price it compared the *)
(* payment with, and answers as ReplyKeepsInvariant asks.                  *)
(***************************************************************************)
LEMMA MerchantKeepsInvariant ==
    ASSUME IInv, TypeOK', NEW p \in Purchases, Merchant(p)
    PROVE  IInv'
PROOF
<1> USE DEF IInv, clientVars, serviceVars, worldVars, journalVars
<1>1. CASE MerchantFinds(p)
  <2>1. merchant[p] = "finding" /\ service[p] = "idle"
    BY <1>1 DEF MerchantFinds, HandlersFollowClients
  <2>2. ASSUME NEW outcome \in {"no_listing", "out_of_stock", "merchant_error"},
               Reply(p, outcome), UNCHANGED found
        PROVE  IInv'
    <3>1. outcome = "merchant_error" \/ outcome \in Plain
      BY DEF Plain
    <3>. QED
      BY <1>1, <2>1, <2>2, <3>1, ReplyKeepsInvariant DEF MerchantFinds
  <2>3. ASSUME NEW l \in FindListing(request[p].product),
               merchant' = [merchant EXCEPT ![p] = "checking"],
               found' = [found EXCEPT ![p] = {l}],
               UNCHANGED <<reply, outbox>>
        PROVE  IInv'
    <3> USE DEF TypeOK
    <3>1. UNCHANGED <<clientVars, gross, reply, serviceVars, journalVars, worldVars>>
      BY <1>1, <2>3 DEF MerchantFinds
    <3>2. HandlersFollowClients' /\ RowsFollowService' /\ ClaimsAreUnique' /\ TermsAgree'
      BY <2>1, <2>3, <3>1 DEF HandlersFollowClients, RowsFollowService, ClaimsAreUnique,
         TermsAgree
    <3>3. RepliesFollowVerdicts' /\ AnswersFollowReplies'
      BY <2>1, <2>3, <3>1 DEF RepliesFollowVerdicts, AnswersFollowReplies
    <3>4. ReportsFollowHandlers'
      BY <2>1, <2>3, <3>1 DEF ReportsFollowHandlers, Vouched
    <3>5. AgentsHoldTheirSlip' /\ ForgeriesStopAtTheEdge'
      BY <2>1, <2>3, <3>1 DEF AgentsHoldTheirSlip, ForgeriesStopAtTheEdge, Forged
    <3>. QED
      BY <3>2, <3>3, <3>4, <3>5
  <2>. QED
    BY <1>1, <2>2, <2>3 DEF MerchantFinds
<1>2. CASE MerchantRefuses(p)
  <2>1. merchant[p] = "checking" /\ service[p] = "idle"
    BY <1>2 DEF MerchantRefuses, HandlersFollowClients
  <2>2. PICK l \in found[p] : /\ MerchantFault(request[p], l, arrived[p]) # "none"
                              /\ Reply(p, MerchantFault(request[p], l, arrived[p]))
    BY <1>2 DEF MerchantRefuses
  <2>3. MerchantFault(request[p], l, arrived[p])
           \in MerchantReasons \cup Plain \cup {"merchant_error"}
    BY <2>2, FaultFacts DEF TypeOK, Plain
  <2>. QED
    BY <1>2, <2>1, <2>2, <2>3, ReplyKeepsInvariant DEF MerchantRefuses
<1>3. CASE MerchantSettles(p)
  <2> USE DEF TypeOK
  <2>1. /\ merchant[p] = "checking" /\ service[p] = "idle" /\ reply[p] = "none"
        /\ client[p] \notin {"idle", "quoted", "sent"} /\ verdict[p] = "none"
    BY <1>3 DEF MerchantSettles, HandlersFollowClients, RowsFollowService
  <2>2. /\ merchant' = [merchant EXCEPT ![p] = "settling"]
        /\ service' = [service EXCEPT ![p] = "received"]
        /\ UNCHANGED <<clientVars, found, reply, verdict, row, consumed, moved,
                       journalVars, worldVars>>
    BY <1>3 DEF MerchantSettles
  <2>3. HandlersFollowClients' /\ RowsFollowService' /\ ClaimsAreUnique'
    BY <2>1, <2>2 DEF HandlersFollowClients, RowsFollowService, ClaimsAreUnique
  <2>4. TermsAgree'
    <3>1. PICK l \in found[p] : /\ MerchantFault(request[p], l, arrived[p]) = "none"
                                /\ gross' = [gross EXCEPT ![p] = l.priceCents]
      BY <1>3 DEF MerchantSettles
    <3>2. /\ request[p].assertion \in Minted
          /\ request[p].assertion.product_id = request[p].product
          /\ request[p].payment.value = AtomicUnits(gross'[p])
          /\ request[p].payment.toMerchant
      BY <3>1, PassedChecks
    <3>. QED
      BY <2>1, <2>2, <3>1, <3>2 DEF TermsAgree
  <2>5. RepliesFollowVerdicts' /\ AnswersFollowReplies' /\ ReportsFollowHandlers'
    BY <2>1, <2>2 DEF RepliesFollowVerdicts, AnswersFollowReplies, ReportsFollowHandlers,
       Vouched
  <2>6. AgentsHoldTheirSlip' /\ ForgeriesStopAtTheEdge'
    BY <2>1, <2>2 DEF AgentsHoldTheirSlip, ForgeriesStopAtTheEdge, Forged
  <2>. QED
    BY <2>3, <2>4, <2>5, <2>6
<1>4. CASE MerchantReplies(p)
  BY <1>4, ReplyKeepsInvariant DEF MerchantReplies
<1>7. CASE MerchantHearsHalf(p)
  <2>1. /\ "settlement_unavailable" \in Reportable
        /\ (verdict[p] \in Reportable) \in BOOLEAN
    BY DEF Reportable, Replies, Plain
  <2>. QED
    BY <1>7, <2>1, AnyReplyKeepsInvariant DEF MerchantHearsHalf
<1>5. CASE MerchantGivesUp(p)
  BY <1>5, ReplyKeepsInvariant DEF MerchantGivesUp
<1>6. CASE MerchantDeclines(p)
  <2>1. merchant[p] = "finding" /\ service[p] = "idle"
    BY <1>6 DEF MerchantDeclines, HandlersFollowClients
  <2>2. RequestFault(request[p]) \in Plain \cup {"merchant_error"}
    BY <1>6, FaultFacts DEF MerchantDeclines, TypeOK
  <2>. QED
    BY <1>6, <2>1, <2>2, ReplyKeepsInvariant DEF MerchantDeclines
<1>. QED
  BY <1>1, <1>2, <1>3, <1>4, <1>5, <1>6, <1>7 DEF Merchant

(* A step of the settlement service's handler to the label s. *)
Advances(p, s) ==
    /\ service' = [service EXCEPT ![p] = s]
    /\ UNCHANGED <<verdict, journal>>

(* Its last step, with an answer and perhaps a row of the journal for it. *)
Concludes(p, outcome) ==
    /\ Verdict(p, outcome)
    /\ \/ UNCHANGED journal
       \/ /\ outcome # "confirmed"
          /\ journal' = journal \cup
                {[purchase |-> p, by |-> "settlement", reason |-> outcome]}

(***************************************************************************)
(* What a step of the settlement service leaves of the other services: a   *)
(* merchant that is still waiting for it, or that has given up.            *)
(***************************************************************************)
LEMMA ServiceLeavesOthers ==
    ASSUME IInv, TypeOK', NEW p \in Purchases,
           service[p] \notin {"idle", "done"},
           UNCHANGED <<clientVars, merchantVars, outbox, worldVars>>,
           \/ \E s \in {"verified", "priced", "cleared", "claimed"} : Advances(p, s)
           \/ \E outcome \in Verdicts : Concludes(p, outcome)
    PROVE  /\ HandlersFollowClients' /\ TermsAgree' /\ RepliesFollowVerdicts'
           /\ AgentsHoldTheirSlip' /\ ForgeriesStopAtTheEdge'
           /\ AnswersFollowReplies' /\ ReportsFollowHandlers'
PROOF
<1> USE DEF IInv, TypeOK, clientVars, merchantVars, worldVars
<1>1. \E s \in {"verified", "priced", "cleared", "claimed", "done"} :
         service' = [service EXCEPT ![p] = s]
  BY DEF Advances, Concludes, Verdict
<1>2. \A q \in Purchases : q # p => verdict'[q] = verdict[q] /\ service'[q] = service[q]
  BY DEF Advances, Concludes, Verdict
<1>3. merchant[p] = "settling" \/ (merchant[p] = "done" /\ reply[p] = "merchant_error")
  BY DEF HandlersFollowClients, RepliesFollowVerdicts
<1>4. HandlersFollowClients' /\ TermsAgree'
  BY <1>1, <1>3 DEF HandlersFollowClients, TermsAgree
<1>5. RepliesFollowVerdicts'
  BY <1>2, <1>3 DEF RepliesFollowVerdicts
<1>6. AnswersFollowReplies'
  BY DEF AnswersFollowReplies
<1>7. ReportsFollowHandlers'
  <2>1. \A j \in journal \cup outbox :
           Vouched(j.by, j.purchase, j.reason) => Vouched(j.by, j.purchase, j.reason)'
    BY <1>2 DEF Vouched
  <2>2. ASSUME NEW j \in journal', j \notin journal
        PROVE  Vouched(j.by, j.purchase, j.reason)'
    <3>1. PICK outcome \in Verdicts :
             /\ Verdict(p, outcome) /\ outcome # "confirmed"
             /\ j = [purchase |-> p, by |-> "settlement", reason |-> outcome]
      BY <2>2 DEF Advances, Concludes
    <3>. QED
      BY <3>1 DEF Vouched, Verdict
  <2>. QED
    BY <2>1, <2>2 DEF ReportsFollowHandlers
<1>8. AgentsHoldTheirSlip' /\ ForgeriesStopAtTheEdge'
  BY DEF AgentsHoldTheirSlip, ForgeriesStopAtTheEdge, Forged
<1>. QED
  BY <1>4, <1>5, <1>6, <1>7, <1>8

(***************************************************************************)
(* Before the claim the settlement service answers without a row, after it *)
(* with the row its answer speaks of, and no assertion gets two rows.      *)
(***************************************************************************)
LEMMA ServiceKeepsInvariant ==
    ASSUME IInv, TypeOK', NEW p \in Purchases, SettlementService(p)
    PROVE  IInv'
PROOF
<1> USE DEF IInv
<1>1. service[p] \notin {"idle", "done"} /\ verdict[p] = "none"
  BY DEF SettlementService, SettlementVerifies, LookupListing, FacilitatorVerify, Begin,
     Settle, SettleFails, RowsFollowService
<1>2. UNCHANGED <<clientVars, merchantVars, outbox, worldVars>>
  BY DEF SettlementService, SettlementVerifies, LookupListing, FacilitatorVerify, Begin,
     Settle, SettleFails
<1>3. ASSUME NEW reason \in Verdicts \ {"confirmed"}, Refuse(p, reason)
      PROVE  Concludes(p, reason)
  BY <1>3 DEF Refuse, Concludes
<1>4. ASSUME InternalError(p) PROVE Concludes(p, "internal_error")
  BY <1>4 DEF InternalError, Concludes
<1>5. Verdicts = {"assertion_signature_invalid", "assertion_expired", "listing_not_found",
                  "listing_mismatch", "payment_invalid", "assertion_reused",
                  "settlement_failed", "facilitator_unavailable", "internal_error",
                  "confirmed"}
  BY DEF Verdicts, PreClaimReasons
<1>6. CASE SettlementVerifies(p) \/ LookupListing(p) \/ FacilitatorVerify(p)
  <2>1. /\ service[p] \in {"received", "verified", "priced"}
        /\ UNCHANGED <<row, consumed, moved>>
    BY <1>6 DEF SettlementVerifies, LookupListing, FacilitatorVerify
  <2>2. \/ \E s \in {"verified", "priced", "cleared"} : Advances(p, s)
        \/ \E outcome \in PreClaimReasons \cup {"facilitator_unavailable", "internal_error"} :
              Concludes(p, outcome)
    <3>1. \A fault : SettlementReason(fault) \in PreClaimReasons
      BY DEF SettlementReason, PreClaimReasons
    <3>2. CASE SettlementVerifies(p)
      BY <1>3, <1>5, <3>1, <3>2 DEF SettlementVerifies, Advances, PreClaimReasons
    <3>3. CASE LookupListing(p)
      BY <1>3, <1>4, <1>5, <3>3 DEF LookupListing, Advances, PreClaimReasons
    <3>4. CASE FacilitatorVerify(p)
      BY <1>3, <1>5, <3>4 DEF FacilitatorVerify, Advances, PreClaimReasons
    <3>. QED
      BY <1>6, <3>2, <3>3, <3>4
  <2>3. RowsFollowService'
    BY <1>1, <2>1, <2>2 DEF RowsFollowService, Advances, Concludes, Verdict, TypeOK,
       PreClaimReasons
  <2>4. ClaimsAreUnique'
    BY <1>2, <2>1 DEF ClaimsAreUnique, clientVars
  <2>5. \/ \E s \in {"verified", "priced", "cleared", "claimed"} : Advances(p, s)
        \/ \E outcome \in Verdicts : Concludes(p, outcome)
    BY <2>2 DEF Verdicts
  <2>. QED
    BY <1>1, <1>2, <2>3, <2>4, <2>5, ServiceLeavesOthers
<1>7. CASE Begin(p)
  <2>1. service[p] = "cleared" /\ row[p] = "absent" /\ p \notin moved /\ UNCHANGED moved
    BY <1>7 DEF Begin, RowsFollowService
  <2>2. \/ Claim(p) /\ Advances(p, "claimed")
        \/ Claim(p) /\ Concludes(p, "internal_error")
        \/ /\ \E outcome \in {"assertion_reused", "internal_error"} : Concludes(p, outcome)
           /\ UNCHANGED <<consumed, row>>
    BY <1>3, <1>4, <1>5, <1>7 DEF Begin, Advances
  <2>3. RowsFollowService'
    BY <1>1, <2>1, <2>2 DEF RowsFollowService, Advances, Concludes, Verdict, Claim, TypeOK,
       PreClaimReasons
  <2>4. ClaimsAreUnique'
    <3>1. CASE Claim(p)
      BY <1>2, <3>1 DEF ClaimsAreUnique, Claim, clientVars, TypeOK
    <3>2. CASE UNCHANGED <<consumed, row>>
      BY <1>2, <3>2 DEF ClaimsAreUnique, clientVars
    <3>. QED
      BY <2>2, <3>1, <3>2
  <2>5. \/ \E s \in {"verified", "priced", "cleared", "claimed"} : Advances(p, s)
        \/ \E outcome \in Verdicts : Concludes(p, outcome)
    BY <1>5, <2>2
  <2>. QED
    BY <1>1, <1>2, <2>3, <2>4, <2>5, ServiceLeavesOthers
<1>8. CASE Settle(p) \/ SettleFails(p)
  <2>1. service[p] = "claimed" /\ row[p] = "pending" /\ p \notin moved /\ UNCHANGED consumed
    BY <1>8 DEF Settle, SettleFails, RowsFollowService
  <2>2. \/ /\ Concludes(p, "confirmed")
           /\ row' = [row EXCEPT ![p] = "confirmed"] /\ moved' = moved \cup {p}
        \/ /\ Concludes(p, "internal_error")
           /\ row' \in {row, [row EXCEPT ![p] = "confirmed"]} /\ moved' = moved \cup {p}
        \/ /\ Concludes(p, "settlement_failed")
           /\ row' \in {row, [row EXCEPT ![p] = "failed"]} /\ UNCHANGED moved
        \/ /\ Concludes(p, "facilitator_unavailable")
           /\ row' \in {row, [row EXCEPT ![p] = "failed"]} /\ moved' \in {moved, moved \cup {p}}
    <3>1. CASE Settle(p)
      BY <1>4, <3>1 DEF Settle, Concludes
    <3>2. CASE SettleFails(p)
      BY <1>3, <1>5, <3>2 DEF SettleFails
    <3>. QED
      BY <1>8, <3>1, <3>2
  <2>3. RowsFollowService'
    BY <1>1, <2>1, <2>2 DEF RowsFollowService, Concludes, Verdict, TypeOK, PreClaimReasons
  <2>4. ClaimsAreUnique'
    BY <1>2, <2>1, <2>2 DEF ClaimsAreUnique, clientVars, TypeOK
  <2>5. \E outcome \in Verdicts : Concludes(p, outcome)
    BY <1>5, <2>2
  <2>. QED
    BY <1>1, <1>2, <2>3, <2>4, <2>5, ServiceLeavesOthers
<1>. QED
  BY <1>6, <1>7, <1>8 DEF SettlementService

(***************************************************************************)
(* No step of any service, of a client, of a catalog load or of the clock  *)
(* breaks the inductive invariant.                                         *)
(***************************************************************************)
LEMMA NextInvariant == IInv /\ [Next]_vars => IInv'
PROOF
<1> SUFFICES ASSUME IInv, [Next]_vars PROVE IInv'
  OBVIOUS
<1>1. TypeOK'
  BY NextType DEF IInv
<1>2. ASSUME NEW p \in Purchases,
             Client(p) \/ Gateway(p) \/ Merchant(p) \/ SettlementService(p)
      PROVE  IInv'
  BY <1>1, <1>2, ClientKeepsInvariant, GatewayKeepsInvariant, MerchantKeepsInvariant,
     ServiceKeepsInvariant
<1>3. ASSUME NEW report \in outbox, RecordRejection(report) PROVE IInv'
  <2>1. UNCHANGED <<clientVars, merchantVars, serviceVars, worldVars>>
    BY <1>3 DEF RecordRejection
  <2>2. /\ HandlersFollowClients' /\ RowsFollowService' /\ ClaimsAreUnique' /\ TermsAgree'
        /\ RepliesFollowVerdicts' /\ AnswersFollowReplies'
    BY <2>1 DEF IInv, HandlersFollowClients, RowsFollowService, ClaimsAreUnique, TermsAgree,
       RepliesFollowVerdicts, AnswersFollowReplies, clientVars, merchantVars, serviceVars
  <2>3. AgentsHoldTheirSlip' /\ ForgeriesStopAtTheEdge'
    BY <2>1 DEF IInv, AgentsHoldTheirSlip, ForgeriesStopAtTheEdge, Forged, clientVars,
       merchantVars, worldVars
  <2>4. ReportsFollowHandlers'
    <3>1. ASSUME NEW j \in journal' \cup outbox'
          PROVE  \E k \in journal \cup outbox :
                    k.by = j.by /\ k.purchase = j.purchase /\ k.reason = j.reason
      BY <1>3, <3>1 DEF RecordRejection
    <3>2. \A j \in journal \cup outbox :
             Vouched(j.by, j.purchase, j.reason) => Vouched(j.by, j.purchase, j.reason)'
      BY <2>1 DEF Vouched, clientVars, merchantVars, serviceVars
    <3>3. ASSUME NEW j \in journal' \cup outbox'
          PROVE  Vouched(j.by, j.purchase, j.reason)'
      <4>1. PICK k \in journal \cup outbox :
               k.by = j.by /\ k.purchase = j.purchase /\ k.reason = j.reason
        BY <3>1
      <4>2. Vouched(k.by, k.purchase, k.reason)
        BY <4>1 DEF IInv, ReportsFollowHandlers
      <4>. QED
        BY <2>1, <4>1, <4>2 DEF Vouched, clientVars, merchantVars, serviceVars
    <3>. QED
      BY <3>3 DEF ReportsFollowHandlers
  <2>. QED
    BY <1>1, <2>2, <2>3, <2>4 DEF IInv
<1>4. ASSUME UNCHANGED <<clientVars, merchantVars, serviceVars, journalVars>>,
             clock' = clock \/ clock' = clock + 1
      PROVE  IInv'
  <2>1. /\ HandlersFollowClients' /\ RowsFollowService' /\ ClaimsAreUnique' /\ TermsAgree'
        /\ AgentsHoldTheirSlip' /\ RepliesFollowVerdicts' /\ AnswersFollowReplies'
        /\ ReportsFollowHandlers'
    BY <1>4 DEF IInv, HandlersFollowClients, RowsFollowService, ClaimsAreUnique, TermsAgree,
       AgentsHoldTheirSlip, RepliesFollowVerdicts, AnswersFollowReplies,
       ReportsFollowHandlers, Vouched, clientVars, merchantVars, serviceVars, journalVars
  <2>2. 0..clock \subseteq 0..clock'
    BY <1>4, ClockAssumption DEF IInv, TypeOK
  <2>3. \A p \in Purchases : Forged(p) => Forged(p)'
    BY <1>4, <2>2 DEF Forged, clientVars
  <2>4. ForgeriesStopAtTheEdge'
    BY <1>4, <2>3 DEF IInv, ForgeriesStopAtTheEdge, clientVars, merchantVars
  <2>. QED
    BY <1>1, <2>1, <2>4 DEF IInv
<1>5. CASE ReplaceListings \/ Tick \/ UNCHANGED vars
  BY <1>4, <1>5 DEF ReplaceListings, Tick, vars, worldVars
<1>. QED
  BY <1>2, <1>3, <1>5 DEF Next

(***************************************************************************)
(* The three services keep the inductive invariant in every behaviour.     *)
(***************************************************************************)
THEOREM InvariantHolds == Spec => []IInv
PROOF
  BY InitInvariant, NextInvariant, PTL DEF Spec

-----------------------------------------------------------------------------
(***************************************************************************)
(* Every variable of the three services and their clients keeps its type.  *)
(***************************************************************************)
THEOREM TypeCorrect == Spec => []TypeOK
PROOF
<1>1. IInv => TypeOK
  BY DEF IInv
<1>. QED
  BY <1>1, InvariantHolds, PTL

(***************************************************************************)
(* Whatever a catalog load does between the reads of a price, a settlement *)
(* row is for what the buyer signed, and an Agent signed what it was       *)
(* quoted.                                                                 *)
(***************************************************************************)
THEOREM PriceIsTheBuyers == Spec => []GrossWasAuthorized
PROOF
<1>1. IInv => GrossWasAuthorized
  <2> SUFFICES ASSUME IInv, NEW p \in Purchases, row[p] # "absent"
               PROVE  /\ request[p].payment.value = AtomicUnits(gross[p])
                      /\ request[p].payment.toMerchant
                      /\ p \in Agents => gross[p] = quote[p]
    BY DEF GrossWasAuthorized
  <2>1. service[p] # "idle"
    BY DEF IInv, RowsFollowService
  <2>2. merchant[p] # "idle"
    BY <2>1 DEF IInv, HandlersFollowClients
  <2>3. /\ request[p].payment.value = AtomicUnits(gross[p])
        /\ request[p].payment.toMerchant
    BY <2>1 DEF IInv, TermsAgree
  <2>4. ASSUME p \in Agents PROVE gross[p] = quote[p]
    <3>1. AtomicUnits(gross[p]) = AtomicUnits(quote[p])
      BY <2>2, <2>3, <2>4 DEF IInv, TermsAgree
    <3>2. gross[p] \in Nat /\ quote[p] \in Nat
      BY DEF IInv, TypeOK
    <3>. QED
      BY <3>1, <3>2 DEF AtomicUnits
  <2>. QED
    BY <2>3, <2>4
<1>. QED
  BY <1>1, InvariantHolds, PTL

(***************************************************************************)
(* Every order the merchant hands over was paid, under a genuine assertion *)
(* for the product that no other settlement has claimed.                   *)
(***************************************************************************)
THEOREM OrdersArePaidAndAttributed == Spec => []OrdersAreAttributed
PROOF
<1>1. IInv => OrdersAreAttributed
  <2> SUFFICES ASSUME IInv, NEW p \in Purchases, reply[p] = "fulfilled"
               PROVE  /\ row[p] = "confirmed" /\ p \in moved
                      /\ request[p].assertion \in Minted
                      /\ request[p].assertion.product_id = request[p].product
                      /\ \A q \in Purchases \ {p} :
                            request[q].assertion = request[p].assertion => row[q] = "absent"
    BY DEF OrdersAreAttributed
  <2>1. merchant[p] = "done"
    BY DEF IInv, HandlersFollowClients
  <2>2. service[p] = "done" /\ verdict[p] = "confirmed"
    BY <2>1 DEF IInv, RepliesFollowVerdicts, MerchantReasons, EdgeReasons, Plain, TypeOK,
       Verdicts, PreClaimReasons
  <2>3. row[p] = "confirmed" /\ p \in moved
    BY <2>2 DEF IInv, RowsFollowService
  <2>. QED
    BY <2>2, <2>3 DEF IInv, TermsAgree, ClaimsAreUnique
<1>. QED
  BY <1>1, InvariantHolds, PTL

(***************************************************************************)
(* A client that is told of a definite refusal, by whichever service, has  *)
(* paid nothing.                                                           *)
(***************************************************************************)
THEOREM RefusalsAreFree == Spec => []RefusalsMoveNothing
PROOF
<1>1. IInv => RefusalsMoveNothing
  <2> SUFFICES ASSUME IInv, NEW p \in Purchases, answer[p] \notin Inconclusive
               PROVE  /\ p \notin moved /\ row[p] # "confirmed"
                      /\ answer[p] # "settlement_failed" => row[p] = "absent"
    BY DEF RefusalsMoveNothing
  <2>1. CASE merchant[p] = "idle"
    BY <2>1 DEF IInv, HandlersFollowClients, RowsFollowService
  <2>2. CASE merchant[p] = "done" /\ answer[p] = reply[p]
    <3>1. CASE service[p] = "idle"
      BY <3>1 DEF IInv, RowsFollowService
    <3>2. CASE service[p] = "done" /\ answer[p] = verdict[p] /\ verdict[p] # "confirmed"
      <4>1. verdict[p] \in PreClaimReasons \cup {"settlement_failed"}
        BY <3>2 DEF IInv, TypeOK, RowsFollowService, Verdicts, Inconclusive
      <4>2. "settlement_failed" \notin PreClaimReasons
        BY DEF PreClaimReasons
      <4>. QED
        BY <3>2, <4>1, <4>2 DEF IInv, RowsFollowService
    <3>. QED
      BY <2>2, <3>1, <3>2 DEF IInv, RepliesFollowVerdicts, Inconclusive
  <2>. QED
    BY <2>1, <2>2 DEF IInv, AnswersFollowReplies, Inconclusive
<1>. QED
  BY <1>1, InvariantHolds, PTL

(***************************************************************************)
(* However many services journal a purchase, and in whatever order their   *)
(* reports arrive, no two reasons they have read or given conflict, and    *)
(* none conflicts with what the client hears: the only other reason is the *)
(* one the merchant puts for a reason it could not read.                   *)
(***************************************************************************)
THEOREM ReasonsAgree == Spec => []ReasonsNeverConflict
PROOF
<1>1. ASSUME IInv, NEW j \in journal
      PROVE  /\ j.purchase \in Purchases
             /\ \/ /\ merchant[j.purchase] = "idle"
                   /\ j.reason = answer[j.purchase]
                \/ /\ merchant[j.purchase] = "settling"
                   /\ j.reason = verdict[j.purchase]
                \/ /\ merchant[j.purchase] = "done"
                   /\ j.reason = reply[j.purchase]
                \/ /\ merchant[j.purchase] = "done"
                   /\ reply[j.purchase] \in {"merchant_error", "settlement_unavailable"}
                   /\ j.reason = verdict[j.purchase]
  <2> DEFINE p == j.purchase
  <2>1. p \in Purchases /\ Vouched(j.by, p, j.reason)
    BY <1>1 DEF IInv, TypeOK, ReportsFollowHandlers
  <2>2. CASE j.by = "edge"
    BY <2>1, <2>2 DEF Vouched
  <2>3. CASE j.by = "merchant"
    <3>1. j.reason = reply[p] /\ reply[p] # "none"
      BY <2>1, <2>3 DEF Vouched, Reportable, Replies, MerchantReasons, EdgeReasons, Verdicts,
         PreClaimReasons, Plain
    <3>2. merchant[p] = "done"
      BY <1>1, <2>1, <3>1 DEF IInv, HandlersFollowClients
    <3>. QED
      BY <2>1, <3>1, <3>2
  <2>4. CASE j.by = "settlement"
    <3>1. j.reason = verdict[p] /\ verdict[p] # "confirmed" /\ service[p] = "done"
      BY <2>1, <2>4 DEF Vouched
    <3>2. merchant[p] \in {"settling", "done"}
      BY <1>1, <2>1, <3>1 DEF IInv, TypeOK, HandlersFollowClients
    <3>3. merchant[p] = "done" => reply[p] \in {"merchant_error", "settlement_unavailable",
                                                  verdict[p]}
      BY <1>1, <2>1, <3>1 DEF IInv, RepliesFollowVerdicts
    <3>. QED
      BY <2>1, <3>1, <3>2, <3>3
  <2>. QED
    BY <1>1, <2>2, <2>3, <2>4 DEF IInv, TypeOK
<1>2. ASSUME IInv, NEW j \in journal, j.by = "merchant"
      PROVE  j.reason = reply[j.purchase] /\ reply[j.purchase] # "merchant_error"
  BY <1>2 DEF IInv, ReportsFollowHandlers, Vouched, Reportable
<1>3. ASSUME IInv, NEW j \in journal, NEW k \in journal, k.purchase = j.purchase
      PROVE  k.reason = j.reason \/ "settlement_unavailable" \in {j.reason, k.reason}
  BY <1>1, <1>2, <1>3 DEF IInv, TypeOK, ReportsFollowHandlers, Vouched
<1>4. ASSUME IInv, NEW j \in journal
      PROVE  answer[j.purchase] \in {"none", "gateway_error", "merchant_error",
                                      "settlement_unavailable", j.reason}
  <2>1. CASE merchant[j.purchase] = "idle"
    BY <1>1, <1>4, <2>1
  <2>2. CASE merchant[j.purchase] # "idle"
    <3>1. \/ answer[j.purchase] \in {"none", "gateway_error"}
          \/ merchant[j.purchase] = "done" /\ answer[j.purchase] = reply[j.purchase]
      BY <1>1, <1>4, <2>2 DEF IInv, AnswersFollowReplies
    <3>. QED
      BY <1>1, <1>4, <3>1
  <2>. QED
    BY <2>1, <2>2
<1>5. IInv => ReasonsNeverConflict
  BY <1>3, <1>4 DEF ReasonsNeverConflict
<1>. QED
  BY <1>5, InvariantHolds, PTL

(***************************************************************************)
(* An agent that cheats gets nothing, whatever it changes in its           *)
(* assertion: the gateway refuses it, nothing behind the gateway hears of  *)
(* it, and only a genuine assertion is ever spent.                         *)
(***************************************************************************)
THEOREM ForgeriesStayOutside == Spec => []ForgeriesGainNothing
PROOF
<1>1. IInv => ForgeriesGainNothing
  <2> SUFFICES ASSUME IInv PROVE ForgeriesGainNothing
    OBVIOUS
  <2>1. ASSUME NEW id \in consumed
        PROVE  \E p \in Purchases : /\ row[p] # "absent"
                                    /\ request[p].assertion \in Minted
                                    /\ request[p].assertion.assertion_id = id
    <3>1. PICK p \in Purchases : row[p] # "absent" /\ request[p].assertion.assertion_id = id
      BY DEF IInv, ClaimsAreUnique
    <3>2. request[p].assertion \in Minted
      BY <3>1 DEF IInv, RowsFollowService, TermsAgree
    <3>. QED
      BY <3>1, <3>2
  <2>. QED
    BY <2>1 DEF IInv, ForgeriesStopAtTheEdge, ForgeriesGainNothing
<1>. QED
  BY <1>1, InvariantHolds, PTL
=============================================================================
