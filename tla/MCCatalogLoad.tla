---------------------------- MODULE MCCatalogLoad ---------------------------
(***************************************************************************)
(* Small instances of CatalogLoad: two partitions, three products, two     *)
(* feeds that load, one that is empty and one whose listings name a        *)
(* product only another feed provides.                                     *)
(***************************************************************************)
EXTENDS CatalogLoad, TLC

CONSTANTS fBase, fNew, fEmpty, fOrphan

MCFeeds    == {fBase, fNew, fEmpty, fOrphan}
MCProducts == 1..3

MCProvides ==
    (fBase :> {1, 2}) @@ (fNew :> {1, 2, 3}) @@ (fEmpty :> {1}) @@ (fOrphan :> {1, 2})

Buckets(b0, b1) == (0 :> b0) @@ (1 :> b1)

MCListed ==
    (fBase :> Buckets({1}, {1, 2})) @@ (fNew :> Buckets({1, 2}, {3})) @@
    (fEmpty :> Buckets({}, {})) @@ (fOrphan :> Buckets({3}, {}))
=============================================================================
