------------------------------ MODULE Payments ------------------------------
(***************************************************************************)
(* What a payment is made of: the merchant's requirements, the EIP-3009    *)
(* authorization an agent signs for them, and the conversions the signer   *)
(* and the verifier share (packages/types, merchant/src/config.ts,         *)
(* simulator/src/agent.ts).                                                *)
(*                                                                         *)
(* A field that travels as a decimal string is its number, or Unreadable   *)
(* for a string that is none; Absent is a field that is not there or not a *)
(* string.  A signature is bytes that can be one or not, the account that  *)
(* made it and what it made it over: only a verifier with the same digest  *)
(* recovers the same account.  A nonce travels as hexadecimal text and is  *)
(* signed as the 32 bytes that spells, whose digits may be in either case: *)
(* several texts are one nonce to a signature.                             *)
(***************************************************************************)
EXTENDS Integers, FiniteSets

CONSTANTS
    Bytes32,         \* the 32 bytes each text spells that does spell as many
    NETWORKS,        \* the chains that are known: name and usdcAddress of each
    MaxUint256,
    Absent,
    Unreadable,
    Backdate,        \* VALID_AFTER_BACKDATE_SECONDS
    PaymentTimeout   \* PAYMENT_TIMEOUT_SECONDS

ASSUME PaymentsAssumption ==
    /\ MaxUint256 \in Nat /\ Backdate \in Nat /\ PaymentTimeout \in Nat
    /\ Unreadable \notin Int /\ Absent \notin Int
    /\ IsFiniteSet(DOMAIN Bytes32)

Exact == "exact"

(* centsToAtomicUnits: USDC has six decimals, a cent has two.              *)
AtomicUnits(cents) == 10000 * cents

-----------------------------------------------------------------------------
(* toUint256 refuses what is no number, negative or too large, where       *)
(* BigInt alone would make nothing of an empty string; there is no message *)
(* to be had from an authorization with a field like that.                 *)
Uint256 == 0..MaxUint256
Fields  == {"value", "validAfter", "validBefore"}

Readable(authorization) == \A f \in Fields : authorization[f] \in Uint256

ToUint256(raw) == IF raw \in Uint256 THEN raw ELSE 0

NonceBytes(text) == IF text \in DOMAIN Bytes32 THEN Bytes32[text] ELSE Unreadable

ToTypedMessage(a) ==
    [from |-> a.from, to |-> a.to, nonce |-> NonceBytes(a.nonce), value |-> ToUint256(a.value),
     validAfter |-> ToUint256(a.validAfter), validBefore |-> ToUint256(a.validBefore)]

(* networkParameters has an entry or throws; eip712Domain binds a          *)
(* signature to the chain and the contract of the entry.                   *)
NetworkParameters(network) == {n \in NETWORKS : n.name = network}
Eip712Domain(network) == NetworkParameters(network)

Digest(network, a) == <<Eip712Domain(network), ToTypedMessage(a)>>

(* verifyTypedData, and where it throws instead of answering.              *)
Verifiable(p) == /\ p.signature.readable /\ p.authorization.from # Absent
                 /\ p.authorization.nonce \in DOMAIN Bytes32
Recovers(p) == /\ p.signature.by = p.authorization.from
               /\ p.signature.over = Digest(p.network, p.authorization)

-----------------------------------------------------------------------------
(* A merchant's terms for a listing, from its configuration.               *)
RequirementsFor(config, cents) ==
    [scheme |-> Exact, network |-> config.network, asset |-> config.assetAddress,
     maxAmountRequired |-> AtomicUnits(cents), payTo |-> config.payToAddress,
     maxTimeoutSeconds |-> PaymentTimeout]

(* Agent.signAuthorization: for exactly what is asked, from a little       *)
(* before now until the merchant's window closes, under a fresh nonce.     *)
AuthorizationFor(account, q, now, nonce) ==
    [from |-> account, to |-> q.payTo, value |-> q.maxAmountRequired,
     validAfter |-> now - Backdate, validBefore |-> now + q.maxTimeoutSeconds,
     nonce |-> nonce]

Signature(account, network, a) ==
    [readable |-> TRUE, by |-> account, over |-> Digest(network, a)]

(* A mistake: the window opens at the moment of signing.                   *)
SignAuthorizationFromNow(account, q, now, nonce) ==
    LET a == [AuthorizationFor(account, q, now, nonce) EXCEPT !.validAfter = now]
    IN  [scheme |-> q.scheme, network |-> q.network, authorization |-> a,
         signature |-> Signature(account, q.network, a)]

SignAuthorization(account, q, now, nonce) ==
    LET a == AuthorizationFor(account, q, now, nonce)
    IN  [scheme |-> q.scheme, network |-> q.network, authorization |-> a,
         signature |-> Signature(account, q.network, a)]
=============================================================================
