----------------------------- MODULE Facilitator ----------------------------
(***************************************************************************)
(* The facilitator mock (facilitator/src): its routes, its checks of a     *)
(* payment, its nonce ledger and the faults it can be told to inject.      *)
(*                                                                         *)
(* JavaScript runs one thing at a time: a handler gives way only where it  *)
(* awaits the signature check, so a call is two actions with every other   *)
(* call possible in between.                                               *)
(***************************************************************************)
EXTENDS Payments, Sequences

CONSTANTS
    Calls,          \* requests that reach the server
    Requests,       \* what they may carry: route and body
    EndOfTime,      \* the clock stops here
    MaxFaults,      \* how often the fault control is used
    MaxLives        \* how often the process may be started

FaultModes == {"none", "verify_rejects", "settle_fails", "unavailable"}
Routes     == {"/verify", "/settle"}

ASSUME BoundsAssumption ==
    EndOfTime \in Nat /\ MaxFaults \in Nat /\ MaxLives \in Nat \ {0}

VARIABLES
    pc,             \* where each call's handler is
    ask,            \* its route, which may be none that is known, and its body
    at,             \* the clock as the handler read it
    answer,         \* what it answered
    clock,
    fault,          \* options.fault.mode
    nonces,         \* NonceLedger: the texts of the nonces claimed
    transfers,      \* what this process has settled
    faults, life    \* uses of the fault control, starts of the process

vars == <<pc, ask, at, answer, clock, fault, nonces, transfers, faults, life>>

-----------------------------------------------------------------------------
(***************************************************************************)
(* Mistakes.  Each operator here is a step of the program as a plausible   *)
(* bug would have it.  No specification uses them: they say which change   *)
(* of the code each property below is there to catch.                      *)
(***************************************************************************)

(* A payment of more than was asked for will do.                           *)
HoldsAtLeast(i, p, q, now) ==
    LET m == ToTypedMessage(p.authorization)
    IN  /\ i = 1 => p.scheme = Exact /\ q.scheme = Exact
        /\ i = 2 => p.network = q.network
        /\ i = 3 => Readable(p.authorization) /\ NetworkParameters(p.network) # {}
        /\ i = 4 => \E n \in NetworkParameters(p.network) : q.asset = n.usdcAddress
        /\ i = 5 => p.authorization.to # Absent
        /\ i = 6 => p.authorization.to = q.payTo
        /\ i = 7 => m.value >= q.maxAmountRequired
        /\ i = 8 => now >= m.validAfter
        /\ i = 9 => now < m.validBefore
        /\ i = 10 => Verifiable(p)
        /\ i = 11 => Recovers(p)

-----------------------------------------------------------------------------
(* readJson: a body that is no JSON or too large counts as none.           *)
ReadJson(sent) == IF sent = Unreadable THEN Absent ELSE sent

(* validateRequest: what verification reads without a catch is there, and  *)
(* the amount is a number.                                                 *)
WellFormed(body) ==
    /\ body # Absent
    /\ Absent \notin {body.paymentPayload, body.paymentRequirements}
    /\ body.paymentPayload.authorization # Absent
    /\ Absent \notin {body.paymentRequirements.asset, body.paymentRequirements.payTo}
    /\ body.paymentRequirements.maxAmountRequired \in Nat

(* verifyPayment: the checks in their order, and what each refusal says.   *)
(* A payload without a payee throws where it is compared, outside of any   *)
(* catch but the server's, which answers 500.                              *)
Reasons ==
    <<"unsupported_scheme", "network_mismatch", "malformed_payload", "asset_mismatch",
      "facilitator_error", "payee_mismatch", "insufficient_amount",
      "authorization_not_yet_valid", "authorization_expired", "malformed_payload",
      "invalid_signature">>

Holds(i, p, q, now) ==
    LET m == ToTypedMessage(p.authorization)
    IN  /\ i = 1 => p.scheme = Exact /\ q.scheme = Exact
        /\ i = 2 => p.network = q.network
        /\ i = 3 => Readable(p.authorization) /\ NetworkParameters(p.network) # {}
        /\ i = 4 => \E n \in NetworkParameters(p.network) : q.asset = n.usdcAddress
        /\ i = 5 => p.authorization.to # Absent
        /\ i = 6 => p.authorization.to = q.payTo
        /\ i = 7 => m.value = q.maxAmountRequired
        /\ i = 8 => now >= m.validAfter
        /\ i = 9 => now < m.validBefore
        /\ i = 10 => Verifiable(p)
        /\ i = 11 => Recovers(p)

Failing(p, q, now) == {i \in 1..11 : ~Holds(i, p, q, now)}

Verdict(p, q, now) ==
    LET failing == Failing(p, q, now)
    IN  IF failing = {} THEN "valid"
        ELSE Reasons[CHOOSE i \in failing : \A j \in failing : i <= j]

-----------------------------------------------------------------------------
Init ==
    /\ pc = [c \in Calls |-> "new"]
    /\ ask \in [Calls -> Requests]
    /\ at = [c \in Calls |-> 0]
    /\ answer = [c \in Calls |-> "none"]
    /\ clock = 0
    /\ fault = "none"
    /\ nonces = {}
    /\ transfers = {}
    /\ faults = 0 /\ life = 1

Payload(c)  == ReadJson(ask[c].body).paymentPayload
Required(c) == ReadJson(ask[c].body).paymentRequirements
Nonce(c)    == Payload(c).authorization.nonce

Answer(c, what) ==
    /\ pc' = [pc EXCEPT ![c] = "over"]
    /\ answer' = [answer EXCEPT ![c] = what]

(* Two more mistakes, of the handlers below.  The nonce is recorded but    *)
(* not looked up.                                                          *)
SettleUnchecked(c) ==
    /\ pc[c] = "verifying" /\ ask[c].route = "/settle"
    /\ Verdict(Payload(c), Required(c), at[c]) = "valid"
    /\ nonces' = nonces \cup {Nonce(c)}
    /\ transfers' = transfers \cup {c}
    /\ Answer(c, "settled")
    /\ UNCHANGED <<ask, at, clock, fault, faults, life>>

(* The clock is read once the signature has been checked.                  *)
OutcomeAtTheEnd(c) == Verdict(Payload(c), Required(c), clock)

(* An armed fault answers before anything is validated.                    *)
Injected(route) ==
    \/ fault = "unavailable"
    \/ fault = "verify_rejects" /\ route = "/verify"
    \/ fault = "settle_fails" /\ route = "/settle"

(* handle, until it awaits verifyPayment.                                  *)
Receive(c) ==
    /\ pc[c] = "new"
    /\ \/ Injected(ask[c].route) /\ Answer(c, "injected_fault") /\ UNCHANGED at
       \/ /\ ~Injected(ask[c].route)
          /\ ask[c].route \notin Routes
          /\ Answer(c, "not_found") /\ UNCHANGED at
       \/ /\ ~Injected(ask[c].route)
          /\ ask[c].route \in Routes /\ ~WellFormed(ReadJson(ask[c].body))
          /\ Answer(c, "malformed_request") /\ UNCHANGED at
       \/ /\ ~Injected(ask[c].route)
          /\ ask[c].route \in Routes /\ WellFormed(ReadJson(ask[c].body))
          /\ at' = [at EXCEPT ![c] = clock]
          /\ pc' = [pc EXCEPT ![c] = "verifying"]
          /\ UNCHANGED answer
    /\ UNCHANGED <<ask, clock, fault, nonces, transfers, faults, life>>

Outcome(c) == Verdict(Payload(c), Required(c), at[c])

(* ... and from there to its end: the claim and the transfer are one step. *)
AnswerVerify(c) ==
    /\ pc[c] = "verifying" /\ ask[c].route = "/verify"
    /\ Answer(c, Outcome(c))
    /\ UNCHANGED <<ask, at, clock, fault, nonces, transfers, faults, life>>

RejectSettle(c) ==
    /\ pc[c] = "verifying" /\ ask[c].route = "/settle"
    /\ Outcome(c) # "valid"
    /\ Answer(c, Outcome(c))
    /\ UNCHANGED <<ask, at, clock, fault, nonces, transfers, faults, life>>

Settle(c) ==
    /\ pc[c] = "verifying" /\ ask[c].route = "/settle"
    /\ Outcome(c) = "valid"
    /\ IF Nonce(c) \in nonces
       THEN Answer(c, "nonce_already_used") /\ UNCHANGED <<nonces, transfers>>
       ELSE /\ nonces' = nonces \cup {Nonce(c)}
            /\ transfers' = transfers \cup {c}
            /\ Answer(c, "settled")
    /\ UNCHANGED <<ask, at, clock, fault, faults, life>>

(* POST /fault, where injection is configured.                             *)
SetFault(mode) ==
    /\ faults < MaxFaults /\ mode # fault
    /\ fault' = mode
    /\ faults' = faults + 1
    /\ UNCHANGED <<pc, ask, at, answer, clock, nonces, transfers, life>>

Tick ==
    /\ clock < EndOfTime
    /\ clock' = clock + 1
    /\ UNCHANGED <<pc, ask, at, answer, fault, nonces, transfers, faults, life>>

(* Nonces and the armed fault live in the process.                         *)
Restart ==
    /\ life < MaxLives
    /\ life' = life + 1
    /\ pc' = [c \in Calls |-> IF pc[c] = "verifying" THEN "over" ELSE pc[c]]
    /\ nonces' = {} /\ transfers' = {}
    /\ fault' = "none"
    /\ UNCHANGED <<ask, at, answer, clock, faults>>

Resume(c) == AnswerVerify(c) \/ RejectSettle(c) \/ Settle(c)

Next ==
    \/ \E c \in Calls : Receive(c) \/ Resume(c)
    \/ \E mode \in FaultModes : SetFault(mode)
    \/ Tick \/ Restart

Spec == Init /\ [][Next]_vars

-----------------------------------------------------------------------------
(* Properties                                                              *)

(* Answers that say nothing of the payment.                                *)
NoVerdict == {"none", "injected_fault", "not_found", "malformed_request"}
Answers   == NoVerdict \cup {"valid", "settled", "nonce_already_used"}
             \cup {Reasons[i] : i \in 1..11}

(* Every variable holds a value of its kind.                               *)
TypeOK ==
    /\ pc \in [Calls -> {"new", "verifying", "over"}]
    /\ ask \in [Calls -> Requests]
    /\ at \in [Calls -> 0..EndOfTime]
    /\ answer \in [Calls -> Answers]
    /\ clock \in 0..EndOfTime
    /\ fault \in FaultModes
    /\ nonces \subseteq {Nonce(c) : c \in {d \in Calls : WellFormed(ReadJson(ask[d].body))}}
    /\ transfers \subseteq Calls
    /\ faults \in 0..MaxFaults
    /\ life \in 1..MaxLives

(* What single use comes to.  One process transfers once under a nonce as  *)
(* it is written, however the calls that carry it interleave at their      *)
(* signature checks, and remembers exactly the texts it has transferred    *)
(* under: a refusal or an injected fault spends none.  A signature covers  *)
(* the bytes, so an authorization whose nonce is spelled anew passes both  *)
(* checks, and pays as often as its nonce can be spelled, never more       *)
(* (NonceLedger, handle, verifyPayment).                                   *)
Digested(c) == Digest(Payload(c).network, Payload(c).authorization)
Spellings(c) == {text \in DOMAIN Bytes32 : Bytes32[text] = NonceBytes(Nonce(c))}
EachTextOnce ==
    /\ \A c, d \in transfers : Nonce(c) = Nonce(d) => c = d
    /\ nonces = {Nonce(c) : c \in transfers}
AtMostOncePerSpelling ==
    \A c \in transfers :
        Cardinality({d \in transfers : Digested(d) = Digested(c)}) <= Cardinality(Spellings(c))
SpellingsTransferOnce == EachTextOnce /\ AtMostOncePerSpelling

(* The account that pays signed this very authorization for the token that *)
(* was required; it is for what was required, goes where it was required   *)
(* to go, and was in its window when the call came in (verifyPayment).     *)
TransfersWereOwed ==
    \A c \in transfers :
        LET p == Payload(c)
            q == Required(c)
        IN  /\ answer[c] = "settled"
            /\ Readable(p.authorization) /\ Recovers(p) /\ p.scheme = Exact
            /\ \E n \in NETWORKS : n.name = p.network /\ n.usdcAddress = q.asset
            /\ p.network = q.network
            /\ p.authorization.value = q.maxAmountRequired
            /\ p.authorization.to = q.payTo
            /\ at[c] \in p.authorization.validAfter..(p.authorization.validBefore - 1)

(* A verified payment is not reserved, but all that can undo the verdict   *)
(* is time, another use of its nonce or an injected fault; a refusal stays *)
(* one, unless the payment came too early (verifyPayment, called by both   *)
(* routes).                                                                *)
SamePayment(c, d) ==
    Payload(c) = Payload(d) /\ Required(c) = Required(d)
VerdictsOnlyAge ==
    \A c, d \in Calls :
        (/\ {answer[c], answer[d]} \cap NoVerdict = {}
         /\ at[c] <= at[d] /\ ask[c].route = "/verify" /\ SamePayment(c, d))
        => \/ answer[c] = answer[d]
           \/ answer[c] = "authorization_not_yet_valid"
           \/ answer[d] = "authorization_expired"
           \/ answer[c] = "valid" /\ answer[d] \in {"settled", "nonce_already_used"}

(* Three programs agree on a payment: what an agent signed for a           *)
(* merchant's terms is accepted from a minute before it was signed, by a   *)
(* clock that is behind, until the merchant's window closes, unless its    *)
(* nonce is spent (#requirementsFor, signAuthorization, verifyPayment).    *)
AskedByMerchant(q) ==
    \E n \in NETWORKS :
        q = RequirementsFor([network |-> n.name, assetAddress |-> n.usdcAddress,
                             payToAddress |-> q.payTo], q.maxAmountRequired \div 10000)
HonestPaymentsClear ==
    \A c \in Calls, t \in 0..(EndOfTime + Backdate) :
        LET p == Payload(c)
            q == Required(c)
        IN  (/\ answer[c] \notin NoVerdict
             /\ AskedByMerchant(q)
             /\ p = SignAuthorization(p.authorization.from, q, t, Nonce(c))
             /\ Readable(p.authorization)
             /\ p.authorization.from # Absent /\ Nonce(c) \in DOMAIN Bytes32
             /\ at[c] \in (t - Backdate)..(t + PaymentTimeout - 1))
            => answer[c] \in {"valid", "settled", "nonce_already_used"}
=============================================================================
