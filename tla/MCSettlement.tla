---------------------------- MODULE MCSettlement ----------------------------
(***************************************************************************)
(* Instances of Settlement for TLC.                                        *)
(***************************************************************************)
EXTENDS Settlement, TLC

CONSTANTS a1, a2, forged, r1, r2, r3, USD, EUR

(* 999 cents at 1250 bps truncates in both divisions of the split. *)
Fresh    == [priceCents |-> 999,  currency |-> USD, inStock |-> TRUE,  commissionBps |-> 1250]
Cheaper  == [priceCents |-> 999,  currency |-> USD, inStock |-> TRUE,  commissionBps |-> 800]
Repriced == [priceCents |-> 1049, currency |-> USD, inStock |-> TRUE,  commissionBps |-> 1250]
SoldOut  == [priceCents |-> 999,  currency |-> USD, inStock |-> FALSE, commissionBps |-> 1250]

Free     == [priceCents |-> 0,    currency |-> USD, inStock |-> TRUE,  commissionBps |-> 1250]

Quote      == [gross |-> 999, currency |-> USD]
EuroQuote  == [gross |-> 999, currency |-> EUR]
FreeQuote  == [gross |-> 0,   currency |-> USD]

(* The signed rate of a1 lies between the two published ones. *)
MCSignedBps == [a \in Assertions |-> IF a = a1 THEN 1000 ELSE 1250]

(* A merchant may list a product twice; the program reads either row. *)
AllFeeds    == {{}, {Fresh}, {Fresh, Cheaper}, {Repriced}, {SoldOut}, {Free}}
RateFeeds   == {{Fresh}, {Cheaper}}
OneQuote    == {Quote}
AllQuotes   == {Quote, EuroQuote, FreeQuote}

Symmetry == Permutations(Requests) \cup Permutations(Authorizations)
            \cup Permutations(Spellings)
=============================================================================
