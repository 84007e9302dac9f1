---------------------------- MODULE MCFacilitator ---------------------------
(***************************************************************************)
(* Small instances of Facilitator, with a clock that counts minutes.  An   *)
(* agent signs at its minute 1 or 2; what it signed is presented as it is, *)
(* for other terms, altered, or in a body that lacks a field.              *)
(***************************************************************************)
EXTENDS Facilitator, TLC

CONSTANTS c1, c2, sepolia, elsewhere, shop, usdc, alice, mallory, nonce1, nonce2, shouted1, bytes1, bytes2

(* The first nonce in lower case and in capitals, and another. *)
MCBytes32 == (nonce1 :> bytes1) @@ (shouted1 :> bytes1) @@ (nonce2 :> bytes2)

MCNetworks == {[name |-> sepolia, usdcAddress |-> usdc]}
Shop == [network |-> sepolia, assetAddress |-> usdc, payToAddress |-> shop]

Terms  == RequirementsFor(Shop, 5)
Dearer == RequirementsFor(Shop, 7)
Away   == RequirementsFor([Shop EXCEPT !.network = elsewhere], 5)
Early  == SignAuthorization(alice, Terms, 1, nonce1)
Late   == SignAuthorization(alice, Terms, 2, nonce2)
(* The same nonce under another authorization. *)
Second == SignAuthorization(alice, Dearer, 1, nonce1)

Altered(payment, f, value) == [payment EXCEPT !.authorization[f] = value]

(* The first authorization, its nonce in capitals. *)
Respelt == Altered(Early, "nonce", shouted1)

Body(payment, terms) == [paymentPayload |-> payment, paymentRequirements |-> terms]

Bodies ==
    {Absent, Unreadable,
     Body(Early, Terms), Body(Late, Terms), Body(Second, Dearer), Body(Second, Terms),
     Body(Respelt, Terms),
     Body(SignAuthorization(alice, Away, 1, nonce2), Away),
     (* Whoever alters a field, or signs for another, has no signature for it. *)
     Body(Altered(Late, "value", Dearer.maxAmountRequired), Dearer),
     Body(Altered(Late, "from", mallory), Terms),
     Body(Altered(Late, "to", Absent), Terms),
     Body(Altered(Late, "value", Unreadable), Terms),
     Body(Altered(Late, "nonce", Unreadable), Terms),
     Body([Late EXCEPT !.signature.readable = FALSE], Terms),
     Body(Late, [Terms EXCEPT !.maxAmountRequired = Unreadable])}

MCRequests ==
    {[route |-> route, body |-> body] : route \in Routes, body \in Bodies}
    \cup {[route |-> "/other", body |-> Absent]}

CallsAreAlike == Permutations(Calls)
=============================================================================
