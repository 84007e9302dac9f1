------------------------------- MODULE Catalog ------------------------------
(***************************************************************************)
(* What a catalog load promises its readers, without staging tables,       *)
(* batches, retries or failures: the listings change only as a whole, from *)
(* one feed's to another's, and search moves only to an index built from   *)
(* the listings that are live at that moment.                              *)
(***************************************************************************)
CONSTANTS
    Feeds,
    NoFeed          \* what is read before the first load

VARIABLES
    listings,       \* the feed every read of the listings sees
    searched        \* the feed whose products search answers from

vars == <<listings, searched>>

Init == listings = NoFeed /\ searched = NoFeed

ReplaceListings ==
    /\ listings' \in Feeds
    /\ UNCHANGED searched

MoveSearch ==
    /\ listings # NoFeed
    /\ searched' = listings
    /\ UNCHANGED listings

Next == ReplaceListings \/ MoveSearch

Spec == Init /\ [][Next]_vars
=============================================================================
