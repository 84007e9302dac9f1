-------------------------- MODULE MCSearchService ---------------------------
(***************************************************************************)
(* Small instances of SearchService: three products, one of them out of    *)
(* stock at one of its merchants and one with a rate above the whole       *)
(* price, and payloads that are refused, filtered or name a publisher      *)
(* nobody knows.                                                           *)
(***************************************************************************)
EXTENDS SearchService, TLC

CONSTANTS mA, mB, pub, stranger, pX, pY, pZ

MCProducts == {pX, pY, pZ}
MCOverRate == {pZ}
MCOffers ==
    (pX :> {[merchant |-> mA, inStock |-> FALSE], [merchant |-> mB, inStock |-> TRUE]}) @@
    (pY :> {[merchant |-> mB, inStock |-> FALSE]}) @@
    (pZ :> {[merchant |-> mA, inStock |-> TRUE]})

Plain(publisher) ==
    [query |-> TRUE, publisher |-> publisher, merchant |-> AnyMerchant, inStock |-> FALSE, size |-> 0]

MCAsks ==
    {Plain(pub), Plain(stranger), Plain(Nobody),
     [Plain(pub) EXCEPT !.query = FALSE],
     [Plain(pub) EXCEPT !.merchant = mB, !.inStock = TRUE, !.size = 9]}
=============================================================================
