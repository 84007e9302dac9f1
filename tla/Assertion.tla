----------------------------- MODULE Assertion ------------------------------
(***************************************************************************)
(* The assertion that carries a commission: what the platform signs, how   *)
(* each service verifies it (packages/types), and what becomes of it in    *)
(* the hands of an agent that is told to cheat (simulator/src/fraud.ts).   *)
(*                                                                         *)
(* Times are hours.  A signature is its form on the wire, whether there is *)
(* a string at all and whether it decodes to the length of a signature,    *)
(* and what the platform's key made it over, which is nothing if another   *)
(* key did.                                                                *)
(***************************************************************************)
EXTENDS Integers

CONSTANTS
    ATTACKER_PUBLISHER,
    INFLATED_COMMISSION_BPS

TTL == 1

SignedFields == {"assertion_id", "publisher_id", "product_id", "search_request_id",
                 "issued_at", "expires_at", "commission_bps"}

(* A mistake: the signature does not cover who is paid.                    *)
CanonicalizeWithoutPublisher(a) == [f \in SignedFields \ {"publisher_id"} |-> a[f]]

(* The same bytes in Go and in TypeScript.                                 *)
CanonicalizeForSigning(a) == [f \in SignedFields |-> a[f]]

Signature(over) == [form |-> "bytes", over |-> over]
Signed(a) == a.signature.form = "bytes" /\ CanonicalizeForSigning(a) \in a.signature.over

(* Signer.Mint                                                             *)
Mint(id, publisher, product, search, bps, issuedAt) ==
    LET a == [assertion_id |-> id, publisher_id |-> publisher, product_id |-> product,
              search_request_id |-> search, issued_at |-> issuedAt,
              expires_at |-> issuedAt + TTL, commission_bps |-> bps,
              signature |-> Signature({})]
    IN  [a EXCEPT !.signature = Signature({CanonicalizeForSigning(a)})]

(* verifyAssertion and Verifier.Verify: the signature before the expiry,   *)
(* which is signed.  Where there is no signature to look at, the           *)
(* TypeScript throws something that is no verification error.              *)
AssertionFault(a, now) ==
    IF a.signature.form = "absent" THEN "thrown"
    ELSE IF a.signature.form = "malformed" THEN "malformed_signature"
    ELSE IF ~Signed(a) THEN "invalid_signature"
    ELSE IF a.expires_at \notin Int THEN "malformed_signature"
    ELSE IF now >= a.expires_at THEN "expired"
    ELSE "none"

-----------------------------------------------------------------------------
FRAUD_MODES == {"tampered_publisher", "tampered_commission", "expired",
                "forged_signature", "unknown_publisher"}

(* applyFraud: all but one of the modes leave the signature as it was.     *)
ApplyFraud(a, mode, now) ==
    CASE mode = "tampered_publisher" -> [a EXCEPT !.publisher_id = ATTACKER_PUBLISHER]
      [] mode = "tampered_commission" -> [a EXCEPT !.commission_bps = INFLATED_COMMISSION_BPS]
      [] mode = "expired" -> [a EXCEPT !.issued_at = now - 3, !.expires_at = now - 2]
      [] mode = "forged_signature" -> [a EXCEPT !.signature = Signature({})]
      [] mode = "unknown_publisher" ->
            [a EXCEPT !.publisher_id = ATTACKER_PUBLISHER,
                      !.commission_bps = INFLATED_COMMISSION_BPS]
=============================================================================
