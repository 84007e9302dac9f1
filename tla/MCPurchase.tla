----------------------------- MODULE MCPurchase -----------------------------
(***************************************************************************)
(* Instances of Purchase for TLC.                                          *)
(***************************************************************************)
EXTENDS Purchase

CONSTANTS book, lamp, m1, m2, s1, shop, nobody, p1, p2

(* The answer to one search, the bytes of which are all fresh.             *)
genuine  == Mint("a1", shop, book, s1, 5, 0)
lampSlip == Mint("a2", shop, lamp, s1, 5, 0)
OneSlip  == {genuine}
TwoSlips == {genuine, lampSlip}

(* Headers that decode to something the platform did not sign.             *)
nameless  == [genuine EXCEPT !.publisher_id = ""]
unsigned  == [genuine EXCEPT !.signature = [form |-> "absent", over |-> {}]]
truncated == [genuine EXCEPT !.signature = [form |-> "malformed", over |-> {}]]
NoSlips   == {}
BadSlips  == {nameless, unsigned, truncated}

Sells(p, m, price) == [product |-> p, merchant |-> m, priceCents |-> price, inStock |-> TRUE]
SoldOut(p, m)      == [Sells(p, m, 2) EXCEPT !.inStock = FALSE]

(* Both products cost the same until the book's price moves, another       *)
(* merchant undercuts it, it is sold out, given away or withdrawn.         *)
Lamps    == {Sells(lamp, m1, 2)}
Fresh    == Lamps \cup {Sells(book, m1, 2)}
Repriced == Lamps \cup {Sells(book, m1, 3)}
Undercut == Lamps \cup {Sells(book, m1, 3), Sells(book, m2, 2)}
Gone     == Lamps \cup {SoldOut(book, m1)}
Given    == {Sells(book, m1, 0)}

AllFeeds   == {Fresh, Repriced, Undercut, Gone, Given, {}}
PriceFeeds == {Fresh, Repriced}

Pays(cents) == [form |-> "signed", value |-> AtomicUnits(cents), toMerchant |-> TRUE]
Buys(a, payment) == [route |-> "purchase", body |-> "product", product |-> book,
                     assertion |-> a, payment |-> payment]

(* Of what goes past the gateway, what its checks would stop or would not. *)
Slips  == {Buys(genuine, Pays(2)), Buys(lampSlip, Pays(2)), Buys(Missing, Pays(2))}
Varied ==
    {Buys(a, Pays(2)) : a \in TwoSlips \cup BadSlips \cup {Missing, Garbled}}
    \cup {Buys(genuine, NoPayment), Buys(genuine, Pays(0)),
          Buys(genuine, [Pays(2) EXCEPT !.toMerchant = FALSE])}
    \cup {Buys(genuine, [NoPayment EXCEPT !.form = form]) : form \in {"garbled", "malformed"}}
    \cup {[Buys(genuine, Pays(2)) EXCEPT !.route = route] : route \in Routes}
    \cup {[Buys(genuine, Pays(2)) EXCEPT !.body = body] : body \in Bodies}
=============================================================================
