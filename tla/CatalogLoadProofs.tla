-------------------------- MODULE CatalogLoadProofs -------------------------
(***************************************************************************)
(* What TLAPS proves of CatalogLoad, for any feeds, partitions, batch      *)
(* size, number of attempts and number of runs, each of which may fail     *)
(* anywhere.                                                               *)
(***************************************************************************)
EXTENDS CatalogLoad, FiniteSetTheorems, TLAPS

BeforeAlias == {"waiting", "reference", "stage", "validate", "build", "swap", "model", "create",
                "put", "count", "embed", "bulk", "settings", "refresh", "check", "alias"}
Indexed     == {"count", "embed", "bulk", "settings", "refresh", "check", "alias", "delete", "drop"}
Filled      == {"settings", "refresh", "check", "alias"}
Swapped     == {"model", "create", "put", "count", "embed", "bulk", "settings", "refresh",
                "check", "alias", "delete", "drop", "done"}

TablesOf(f) == [p \in Partitions |-> f]

(***************************************************************************)
(* A run has a feed and, once it has created its index, an index.          *)
(***************************************************************************)
RunInv ==
    /\ pc # "idle" => feed \in Feeds /\ version \in Versions
    /\ pc \in Indexed => index[version] # None
    /\ pc \in {"alias", "delete"} => version \notin retired

(***************************************************************************)
(* Each swap of the partitions finds them built from one validated feed,   *)
(* whatever an earlier run left in the staging table and the next tables.  *)
(***************************************************************************)
TablesInv ==
    /\ pc \in {"validate", "build", "swap"} => staging = feed
    /\ pc \in {"build", "swap"} => Staged # {} /\ Staged \subseteq products
    /\ pc = "build" => \A p \in Partitions : p < part => next[p] = feed
    /\ pc = "swap" => next = TablesOf(feed)
    /\ ListingsAreOneFeed
    /\ pc \in Swapped => live = TablesOf(feed)
    /\ live = NoTables => prev = NoTables

(***************************************************************************)
(* An index readers may be given.                                          *)
(***************************************************************************)
Complete(v) ==
    /\ index[v] # None
    /\ index[v].restored
    /\ Whole(index[v].from)
    /\ index[v].shown = index[v].docs
    /\ index[v].docs = Rows(index[v].from)

(***************************************************************************)
(* Where every run has a version of its own, the index it builds is not    *)
(* behind the alias before the swap, and alone there afterwards.           *)
(***************************************************************************)
AliasInv ==
    /\ pc # "idle" => version = runs
    /\ pc = "idle" => runs = 0
    /\ alias \subseteq 1..runs
    /\ pc \in BeforeAlias => version \notin alias
    /\ alias # {} => \E v \in Versions : alias = {v} /\ Complete(v)
    /\ pc = "alias" => retired = alias
    /\ pc \in {"delete", "drop", "done"} => alias = {version} /\ index[version].from = live

(***************************************************************************)
(* What is in the index, in the batch and still to be read add up to the   *)
(* listings.                                                               *)
(***************************************************************************)
IndexInv ==
    /\ pc \in {"embed", "bulk"} \cup Filled => snapshot = live
    /\ pc \in {"embed", "bulk"} /\ index[version].docs # {} => index[version].from = snapshot
    /\ pc \notin {"embed", "bulk"} => batch = {}
    /\ pc = "count" => index[version].docs = {}
    /\ pc \in {"embed", "bulk"} => index[version].docs \cup batch \cup left = Rows(live)
    /\ pc \in Filled => index[version].docs = Rows(live) /\ index[version].from = live
    /\ pc \in {"refresh", "check", "alias"} => index[version].restored
    /\ pc \in {"check", "alias"} => index[version].shown = index[version].docs

IInv == TypeOK /\ RunInv /\ TablesInv /\ IndexInv

(***************************************************************************)
(* The rows of tables built from one feed are what the feed lists.         *)
(***************************************************************************)
LEMMA RowsOfFeed ==
    ASSUME NEW f \in Feeds
    PROVE  /\ TablesOf(f) \in [Partitions -> TableOrNone]
           /\ Rows(TablesOf(f)) = UNION {Listed[f][p] : p \in Partitions}
           /\ Whole(TablesOf(f))
           /\ TablesOf(f) # NoTables
PROOF
<1>1. f # None /\ f \in TableOrNone
  BY FeedAssumption DEF TableOrNone
<1>2. \A p \in Partitions : TablesOf(f)[p] = f
  BY DEF TablesOf
<1>3. Rows(TablesOf(f)) = UNION {Listed[f][p] : p \in Partitions}
  BY <1>1, <1>2 DEF Rows
<1>4. 0 \in Partitions
  BY BoundAssumption DEF Partitions
<1>. QED
  BY <1>1, <1>2, <1>3, <1>4 DEF TablesOf, Whole, NoTables

(***************************************************************************)
(* A bulk request changes the documents and the origin of its own index.   *)
(***************************************************************************)
LEMMA WriteFacts ==
    ASSUME TypeOK, RunInv, pc = "bulk", NEW docs, docs \subseteq batch, Write(docs)
    PROVE  /\ index' \in [Versions -> {None} \cup IndexRecord]
           /\ index'[version] \in IndexRecord
           /\ index'[version].docs = index[version].docs \cup docs
           /\ index'[version].from = snapshot
           /\ index'[version].shown = index[version].shown
           /\ index'[version].restored = index[version].restored
           /\ \A v \in Versions : v # version => index'[v] = index[v]
PROOF
<1> DEFINE old == index[version]
           new == [old EXCEPT !.docs = @ \cup docs, !.from = snapshot]
<1>1. version \in Versions /\ old \in IndexRecord /\ docs \subseteq Products
  BY DEF TypeOK, RunInv, Indexed
<1>2. index' = [index EXCEPT ![version] = new]
  BY <1>1 DEF Write, TypeOK
<1>3. snapshot \in [Partitions -> TableOrNone] \cup {None}
  BY DEF TypeOK
<1>4. /\ new \in IndexRecord
      /\ new.docs = old.docs \cup docs /\ new.from = snapshot
      /\ new.shown = old.shown /\ new.restored = old.restored
  BY <1>1, <1>3 DEF IndexRecord
<1> HIDE DEF new
<1>5. /\ index' \in [Versions -> {None} \cup IndexRecord]
      /\ index'[version] = new
      /\ \A v \in Versions : v # version => index'[v] = index[v]
  BY <1>1, <1>2, <1>4 DEF TypeOK
<1>. QED
  BY <1>4, <1>5

(***************************************************************************)
(* FinalizeIndex changes the settings of its own index, then what readers  *)
(* of it see.                                                              *)
(***************************************************************************)
LEMMA FinalizeFacts ==
    ASSUME TypeOK, RunInv, RestoreSettings \/ Refresh
    PROVE  /\ index' \in [Versions -> {None} \cup IndexRecord]
           /\ index'[version] \in IndexRecord
           /\ index'[version].docs = index[version].docs
           /\ index'[version].from = index[version].from
           /\ \A v \in Versions : v # version => index'[v] = index[v]
           /\ RestoreSettings => index'[version].restored
           /\ Refresh => /\ index'[version].shown = index[version].docs
                         /\ index'[version].restored = index[version].restored
PROOF
<1> DEFINE old == index[version]
           set == [old EXCEPT !.restored = TRUE]
           shown == [old EXCEPT !.shown = old.docs]
<1>1. version \in Versions /\ old \in IndexRecord
  BY DEF TypeOK, RunInv, Indexed, RestoreSettings, Refresh
<1>2. /\ RestoreSettings => index' = [index EXCEPT ![version] = set]
      /\ Refresh => index' = [index EXCEPT ![version] = shown]
  BY <1>1 DEF RestoreSettings, Refresh, TypeOK
<1>3. /\ set \in IndexRecord /\ set.docs = old.docs /\ set.from = old.from /\ set.restored
      /\ shown \in IndexRecord /\ shown.docs = old.docs /\ shown.from = old.from
      /\ shown.shown = old.docs /\ shown.restored = old.restored
  BY <1>1 DEF IndexRecord
<1> HIDE DEF set, shown
<1>4. CASE RestoreSettings
  BY <1>1, <1>2, <1>3, <1>4 DEF TypeOK, RestoreSettings, Refresh
<1>5. CASE Refresh
  BY <1>1, <1>2, <1>3, <1>5 DEF TypeOK, RestoreSettings, Refresh
<1>. QED
  BY <1>4, <1>5

(***************************************************************************)
(* At first there is nothing to read.                                      *)
(***************************************************************************)
LEMMA InitHolds == Init => IInv /\ AliasInv
PROOF
<1> SUFFICES ASSUME Init PROVE IInv /\ AliasInv
  OBVIOUS
<1>1. TypeOK
  <2>1. /\ [p \in Partitions |-> None] \in [Partitions -> TableOrNone]
        /\ [v \in Versions |-> None] \in [Versions -> {None} \cup IndexRecord]
    BY DEF TableOrNone
  <2>2. 0 \in 0..N /\ 0 \in 0..MaxRuns /\ 0 \in 0..Attempts
    BY BoundAssumption
  <2>. QED
    BY <2>1, <2>2 DEF Init, TypeOK, Over, TableOrNone
<1>2. RunInv /\ AliasInv /\ IndexInv
  BY DEF Init, RunInv, AliasInv, IndexInv, Indexed, Filled, BeforeAlias
<1>3. TablesInv
  BY DEF Init, TablesInv, ListingsAreOneFeed, NoTables, Swapped
<1>. QED
  BY <1>1, <1>2, <1>3 DEF IInv

(***************************************************************************)
(* Every step leaves values of their kinds.                                *)
(***************************************************************************)
LEMMA TypesKept ==
    ASSUME TypeOK, RunInv, [Next]_vars
    PROVE  TypeOK'
PROOF
<1> USE DEF TypeOK, RunInv, Over, Running, jobVars, workVars, pgVars, osVars
<1>1. CASE Start
  <2>1. runs \in 0..MaxRuns /\ runs < MaxRuns /\ MaxRuns \in Nat
    BY <1>1, BoundAssumption DEF Start
  <2>2. runs + 1 \in 0..MaxRuns /\ 1..(runs + 1) \subseteq Versions /\ runs + 1 \in Versions
    BY <2>1 DEF Versions
  <2>3. version' \in Versions
    BY <1>1, <2>2 DEF Start
  <2>4. runs' \in 0..MaxRuns /\ feed' \in TableOrNone
    BY <1>1, <2>2 DEF Start, TableOrNone
  <2>. QED
    BY <1>1, <2>3, <2>4 DEF Start
<1>2. CASE WaitForCluster
  BY <1>2 DEF WaitForCluster
<1>3. CASE LoadReference
  BY <1>3, FeedAssumption DEF LoadReference
<1>4. CASE CopyStaging
  BY <1>4, FeedAssumption DEF CopyStaging, TableOrNone
<1>5. CASE ValidateStaging
  BY <1>5, BoundAssumption DEF ValidateStaging
<1>6. CASE BuildPartition
  BY <1>6, BoundAssumption DEF BuildPartition, Partitions
<1>7. CASE PartitionsBuilt
  BY <1>7 DEF PartitionsBuilt
<1>8. CASE SwapPartitions
  BY <1>8 DEF SwapPartitions, TableOrNone
<1>9. CASE RegisterEmbeddingModel
  BY <1>9 DEF RegisterEmbeddingModel
<1>10. CASE DeployedModelID
  BY <1>10 DEF DeployedModelID
<1>11. CASE DropSameVersion
  BY <1>11 DEF DropSameVersion
<1>12. CASE PutIndex
  <2>1. NewIndex \in IndexRecord
    BY DEF NewIndex, IndexRecord
  <2>. QED
    BY <1>12, <2>1 DEF PutIndex
<1>13. CASE OpenStream
  <2>1. Catalogued \subseteq products /\ IsFiniteSet(Products)
    BY FeedAssumption DEF Catalogued
  <2>2. Cardinality(Catalogued) \in Nat
    BY <2>1, FS_Subset, FS_CardinalityType
  <2>. QED
    BY <1>13, <2>1, <2>2 DEF OpenStream
<1>14. CASE NextBatch
  <2>1. FirstOf(left) \subseteq left
    BY DEF FirstOf
  <2>. QED
    BY <1>14, <2>1, BoundAssumption DEF NextBatch
<1>15. CASE Embed
  BY <1>15, BoundAssumption DEF Embed
<1>16. CASE BulkIndex
  <2>1. index' \in [Versions -> {None} \cup IndexRecord]
    BY <1>16, WriteFacts DEF BulkIndex
  <2>. QED
    BY <1>16, <2>1, BoundAssumption DEF BulkIndex
<1>17. CASE Rejected
  <2>1. CASE pc = "embed" /\ UNCHANGED index
    BY <1>17, <2>1, BoundAssumption DEF Rejected
  <2>2. ASSUME pc = "bulk", NEW written \in SUBSET batch, Write(written)
        PROVE  index' \in [Versions -> {None} \cup IndexRecord]
    BY <2>2, WriteFacts
  <2>. QED
    BY <1>17, <2>1, <2>2, BoundAssumption DEF Rejected
<1>18. CASE StreamEnds
  BY <1>18 DEF StreamEnds
<1>19. CASE RestoreSettings
  BY <1>19, FinalizeFacts DEF RestoreSettings
<1>20. CASE Refresh
  BY <1>20, FinalizeFacts DEF Refresh
<1>21. CASE CheckCount
  BY <1>21 DEF CheckCount
<1>22. CASE SwapAlias
  BY <1>22 DEF SwapAlias
<1>23. ASSUME NEW v \in Versions, DeleteIndex(v)
      PROVE  TypeOK'
  BY <1>23 DEF DeleteIndex
<1>24. CASE RetiredDeleted
  BY <1>24, BoundAssumption DEF RetiredDeleted
<1>25. CASE DropRetiredPartition
  BY <1>25, BoundAssumption DEF DropRetiredPartition, Partitions, TableOrNone
<1>26. CASE Finish
  BY <1>26 DEF Finish
<1>27. CASE Fail
  <2>1. CASE pc # "bulk"
    BY <1>27, <2>1, BoundAssumption DEF Fail
  <2>2. ASSUME pc = "bulk", NEW written \in SUBSET batch, Write(written)
        PROVE  index' \in [Versions -> {None} \cup IndexRecord]
    BY <2>2, WriteFacts
  <2>. QED
    BY <1>27, <2>1, <2>2, BoundAssumption DEF Fail
<1>28. CASE UNCHANGED vars
  BY <1>28 DEF vars
<1>. QED
  BY <1>1, <1>2, <1>3, <1>4, <1>5, <1>6, <1>7, <1>8, <1>9, <1>10, <1>11, <1>12, <1>13, <1>14,
     <1>15, <1>16, <1>17, <1>18, <1>19, <1>20, <1>21, <1>22, <1>23, <1>24, <1>25, <1>26, <1>27, <1>28
     DEF Next, Run, LoadPostgres, BuildIndex, Publish

(***************************************************************************)
(* A run keeps its feed and version to its end, and its index from its     *)
(* creation.                                                               *)
(***************************************************************************)
LEMMA RunKept ==
    ASSUME TypeOK, RunInv, [Next]_vars
    PROVE  RunInv'
PROOF
<1> USE DEF RunInv, Indexed, Over, jobVars, workVars, pgVars, osVars
<1>1. CASE Start
  <2>1. feed' \in Feeds /\ version' \in 1..(runs + 1) /\ pc' = "waiting"
    BY <1>1, BoundAssumption DEF Start, TypeOK
  <2>2. runs \in 0..MaxRuns /\ runs < MaxRuns /\ MaxRuns \in Nat
    BY <1>1, BoundAssumption DEF Start, TypeOK
  <2>3. 1..(runs + 1) \subseteq Versions
    BY <2>2 DEF Versions
  <2>. QED
    BY <2>1, <2>3
<1>2. CASE WaitForCluster
  BY <1>2 DEF WaitForCluster
<1>3. CASE LoadReference
  BY <1>3 DEF LoadReference
<1>4. CASE CopyStaging
  BY <1>4 DEF CopyStaging
<1>5. CASE ValidateStaging
  BY <1>5 DEF ValidateStaging
<1>6. CASE BuildPartition
  BY <1>6 DEF BuildPartition
<1>7. CASE PartitionsBuilt
  BY <1>7 DEF PartitionsBuilt
<1>8. CASE SwapPartitions
  BY <1>8 DEF SwapPartitions
<1>9. CASE RegisterEmbeddingModel
  BY <1>9 DEF RegisterEmbeddingModel
<1>10. CASE DeployedModelID
  BY <1>10 DEF DeployedModelID
<1>11. CASE DropSameVersion
  BY <1>11 DEF DropSameVersion
<1>12. CASE PutIndex
  <2>1. NewIndex \in IndexRecord
    BY DEF NewIndex, IndexRecord
  <2>. QED
    BY <1>12, <2>1, NoneAssumption DEF PutIndex, TypeOK
<1>13. CASE OpenStream
  BY <1>13 DEF OpenStream
<1>14. CASE NextBatch
  BY <1>14 DEF NextBatch
<1>15. CASE Embed
  BY <1>15 DEF Embed
<1>16. CASE BulkIndex
  <2>1. index'[version] \in IndexRecord
    BY <1>16, WriteFacts DEF BulkIndex
  <2>. QED
    BY <1>16, <2>1, NoneAssumption DEF BulkIndex
<1>17. CASE Rejected
  <2>1. CASE pc = "embed" /\ UNCHANGED index
    BY <1>17, <2>1 DEF Rejected
  <2>2. ASSUME pc = "bulk", NEW written \in SUBSET batch, Write(written)
        PROVE  index'[version] \in IndexRecord
    BY <2>2, WriteFacts
  <2>. QED
    BY <1>17, <2>1, <2>2, NoneAssumption DEF Rejected
<1>18. CASE StreamEnds
  BY <1>18 DEF StreamEnds
<1>19. CASE RestoreSettings
  BY <1>19, FinalizeFacts, NoneAssumption DEF RestoreSettings
<1>20. CASE Refresh
  BY <1>20, FinalizeFacts, NoneAssumption DEF Refresh
<1>21. CASE CheckCount
  BY <1>21 DEF CheckCount
<1>22. CASE SwapAlias
  BY <1>22 DEF SwapAlias
<1>23. ASSUME NEW v \in Versions, DeleteIndex(v)
      PROVE  RunInv'
  BY <1>23 DEF DeleteIndex, TypeOK
<1>24. CASE RetiredDeleted
  BY <1>24 DEF RetiredDeleted
<1>25. CASE DropRetiredPartition
  BY <1>25 DEF DropRetiredPartition
<1>26. CASE Finish
  BY <1>26 DEF Finish
<1>27. CASE Fail
  <2>1. pc # "idle" /\ pc' = "failed" /\ UNCHANGED jobVars
    BY <1>27 DEF Fail, Running
  <2>. QED
    BY <2>1
<1>28. CASE UNCHANGED vars
  BY <1>28 DEF vars
<1>. QED
  BY <1>1, <1>2, <1>3, <1>4, <1>5, <1>6, <1>7, <1>8, <1>9, <1>10, <1>11, <1>12, <1>13, <1>14,
     <1>15, <1>16, <1>17, <1>18, <1>19, <1>20, <1>21, <1>22, <1>23, <1>24, <1>25, <1>26, <1>27, <1>28
     DEF Next, Run, LoadPostgres, BuildIndex, Publish

(***************************************************************************)
(* Staging, the partitions being built and the live ones stay in step,     *)
(* wherever the run before ended.                                          *)
(***************************************************************************)
LEMMA TablesKept ==
    ASSUME TypeOK, RunInv, TablesInv, [Next]_vars
    PROVE  TablesInv'
PROOF
<1> USE DEF TablesInv, RunInv, Swapped, jobVars, workVars, pgVars, osVars
<1>1. CASE Start
  BY <1>1 DEF Start, ListingsAreOneFeed, Over
<1>2. CASE WaitForCluster
  BY <1>2 DEF WaitForCluster, ListingsAreOneFeed
<1>3. CASE LoadReference
  BY <1>3 DEF LoadReference, ListingsAreOneFeed
<1>4. CASE CopyStaging
  BY <1>4 DEF CopyStaging, ListingsAreOneFeed
<1>5. CASE ValidateStaging
  <2>1. staging = feed /\ feed \in Feeds /\ part' = 0
    BY <1>5 DEF ValidateStaging
  <2>2. \A p \in Partitions : ~(p < 0)
    BY DEF Partitions
  <2>. QED
    BY <1>5, <2>1, <2>2 DEF ValidateStaging, ListingsAreOneFeed, Staged
<1>6. CASE BuildPartition
  <2>1. /\ part \in Partitions /\ next' = [next EXCEPT ![part] = feed] /\ part' = part + 1
        /\ staging = feed /\ pc = "build" /\ pc' = "build"
        /\ UNCHANGED <<feed, staging, products, live, prev>>
    BY <1>6, BoundAssumption DEF BuildPartition, TypeOK, Partitions
  <2>2. \A p \in Partitions : p < part + 1 => next'[p] = feed
    <3>1. \A p \in Partitions : p < part + 1 => p < part \/ p = part
      BY <2>1 DEF Partitions
    <3>. QED
      BY <1>6, <2>1, <3>1 DEF TypeOK
  <2>. QED
    BY <2>1, <2>2 DEF ListingsAreOneFeed, Staged
<1>7. CASE PartitionsBuilt
  <2>1. next = TablesOf(feed)
    <3>1. \A p \in Partitions : p < N
      BY BoundAssumption DEF Partitions
    <3>2. next \in [Partitions -> TableOrNone] /\ \A p \in Partitions : next[p] = feed
      BY <1>7, <3>1 DEF PartitionsBuilt, TypeOK
    <3>. QED
      BY <3>2 DEF TablesOf
  <2>. QED
    BY <1>7, <2>1 DEF PartitionsBuilt, ListingsAreOneFeed, Staged
<1>8. CASE SwapPartitions
  <2>1. /\ pc = "swap" /\ pc' = "model" /\ feed \in Feeds /\ staging = feed
        /\ live' = TablesOf(feed) /\ UNCHANGED <<feed, products>>
    BY <1>8 DEF SwapPartitions
  <2>2. Rows(TablesOf(feed)) = Staged /\ Staged # {} /\ Staged \subseteq products
    BY <2>1, RowsOfFeed DEF Staged
  <2>3. Whole(TablesOf(feed)) /\ TablesOf(feed) # NoTables
    BY <2>1, RowsOfFeed
  <2>4. ListingsAreOneFeed'
    BY <2>1, <2>2, <2>3 DEF ListingsAreOneFeed, Rows, Whole
  <2>. QED
    BY <2>1, <2>3, <2>4
<1>9. CASE RegisterEmbeddingModel
  BY <1>9 DEF RegisterEmbeddingModel, ListingsAreOneFeed
<1>10. CASE DeployedModelID
  BY <1>10 DEF DeployedModelID, ListingsAreOneFeed
<1>11. CASE DropSameVersion
  BY <1>11 DEF DropSameVersion, ListingsAreOneFeed
<1>12. CASE PutIndex
  BY <1>12 DEF PutIndex, ListingsAreOneFeed
<1>13. CASE OpenStream
  BY <1>13 DEF OpenStream, ListingsAreOneFeed
<1>14. CASE NextBatch
  BY <1>14 DEF NextBatch, ListingsAreOneFeed
<1>15. CASE Embed
  BY <1>15 DEF Embed, ListingsAreOneFeed
<1>16. CASE BulkIndex
  BY <1>16 DEF BulkIndex, ListingsAreOneFeed
<1>17. CASE Rejected
  BY <1>17 DEF Rejected, ListingsAreOneFeed
<1>18. CASE StreamEnds
  BY <1>18 DEF StreamEnds, ListingsAreOneFeed
<1>19. CASE RestoreSettings
  BY <1>19 DEF RestoreSettings, ListingsAreOneFeed
<1>20. CASE Refresh
  BY <1>20 DEF Refresh, ListingsAreOneFeed
<1>21. CASE CheckCount
  BY <1>21 DEF CheckCount, ListingsAreOneFeed
<1>22. CASE SwapAlias
  BY <1>22 DEF SwapAlias, ListingsAreOneFeed
<1>23. ASSUME NEW v \in Versions, DeleteIndex(v)
      PROVE  TablesInv'
  BY <1>23 DEF DeleteIndex, ListingsAreOneFeed
<1>24. CASE RetiredDeleted
  BY <1>24 DEF RetiredDeleted, ListingsAreOneFeed
<1>25. CASE DropRetiredPartition
  <2>1. live # NoTables
    BY <1>25, RowsOfFeed DEF DropRetiredPartition
  <2>. QED
    BY <1>25, <2>1 DEF DropRetiredPartition, ListingsAreOneFeed
<1>26. CASE Finish
  BY <1>26 DEF Finish, ListingsAreOneFeed
<1>27. CASE Fail
  BY <1>27 DEF Fail, ListingsAreOneFeed
<1>28. CASE UNCHANGED vars
  BY <1>28 DEF vars, ListingsAreOneFeed, Staged
<1>. QED
  BY <1>1, <1>2, <1>3, <1>4, <1>5, <1>6, <1>7, <1>8, <1>9, <1>10, <1>11, <1>12, <1>13, <1>14,
     <1>15, <1>16, <1>17, <1>18, <1>19, <1>20, <1>21, <1>22, <1>23, <1>24, <1>25, <1>26, <1>27, <1>28
     DEF Next, Run, LoadPostgres, BuildIndex, Publish

(***************************************************************************)
(* After the swap the live rows are the ones CountProducts counts and      *)
(* documentQuery joins, and there are some.                                *)
(***************************************************************************)
LEMMA LiveRows ==
    ASSUME RunInv, TablesInv, pc \in Swapped
    PROVE  Catalogued = Rows(live) /\ Rows(live) # {} /\ Whole(live) /\ live # NoTables
PROOF
<1>1. live = TablesOf(feed) /\ feed \in Feeds
  BY DEF TablesInv, RunInv, Swapped
<1>2. live # NoTables
  BY <1>1, RowsOfFeed
<1>3. Whole(live) /\ Rows(live) # {} /\ Rows(live) \subseteq products
  BY <1>2 DEF TablesInv, ListingsAreOneFeed
<1>. QED
  BY <1>2, <1>3 DEF Catalogued

(***************************************************************************)
(* No document is lost between the cursor, the batch and the index,        *)
(* however often the batch is refused.                                     *)
(***************************************************************************)
LEMMA IndexKept ==
    ASSUME TypeOK, RunInv, TablesInv, IndexInv, [Next]_vars
    PROVE  IndexInv'
PROOF
<1> USE DEF IndexInv, RunInv, Filled, Indexed, jobVars, workVars, pgVars, osVars
<1>1. CASE Start
  BY <1>1 DEF Start, Over
<1>2. CASE WaitForCluster
  BY <1>2 DEF WaitForCluster, Rows
<1>3. CASE LoadReference
  BY <1>3 DEF LoadReference, Rows
<1>4. CASE CopyStaging
  BY <1>4 DEF CopyStaging, Rows
<1>5. CASE ValidateStaging
  BY <1>5 DEF ValidateStaging, Rows
<1>6. CASE BuildPartition
  BY <1>6 DEF BuildPartition, Rows
<1>7. CASE PartitionsBuilt
  BY <1>7 DEF PartitionsBuilt, Rows
<1>8. CASE SwapPartitions
  BY <1>8 DEF SwapPartitions, Rows
<1>9. CASE RegisterEmbeddingModel
  BY <1>9 DEF RegisterEmbeddingModel, Rows
<1>10. CASE DeployedModelID
  BY <1>10 DEF DeployedModelID, Rows
<1>11. CASE DropSameVersion
  BY <1>11 DEF DropSameVersion, Rows
<1>12. CASE PutIndex
  <2>1. /\ NewIndex \in IndexRecord /\ NewIndex.docs = {}
    BY DEF NewIndex, IndexRecord
  <2>2. index'[version] = NewIndex
    BY <1>12 DEF PutIndex, TypeOK
  <2>. QED
    BY <1>12, <2>1, <2>2 DEF PutIndex
<1>13. CASE OpenStream
  <2>1. Catalogued = Rows(live)
    BY <1>13, LiveRows DEF OpenStream, Swapped
  <2>. QED
    BY <1>13, <2>1 DEF OpenStream, Rows
<1>14. CASE NextBatch
  <2>1. FirstOf(left) \subseteq left
    BY DEF FirstOf
  <2>2. batch' \cup left' = left
    BY <1>14, <2>1 DEF NextBatch
  <2>. QED
    BY <1>14, <2>2 DEF NextBatch, Rows
<1>15. CASE Embed
  BY <1>15 DEF Embed, Rows
<1>16. CASE BulkIndex
  <2>1. /\ index'[version].docs = index[version].docs \cup batch
        /\ index'[version].from = snapshot
    BY <1>16, WriteFacts DEF BulkIndex
  <2>. QED
    BY <1>16, <2>1 DEF BulkIndex, Rows
<1>17. CASE Rejected
  <2>1. CASE pc = "embed" /\ UNCHANGED index
    BY <1>17, <2>1 DEF Rejected, Rows
  <2>2. ASSUME pc = "bulk", NEW written \in SUBSET batch, Write(written)
        PROVE  /\ index'[version].docs = index[version].docs \cup written
               /\ index'[version].from = snapshot
    BY <2>2, WriteFacts
  <2>3. CASE pc = "bulk"
    BY <1>17, <2>2, <2>3 DEF Rejected, Rows
  <2>. QED
    BY <1>17, <2>1, <2>3 DEF Rejected
<1>18. CASE StreamEnds
  <2>1. index[version].docs = Rows(live) /\ Rows(live) # {} /\ snapshot = live
    BY <1>18, LiveRows DEF StreamEnds, Swapped
  <2>2. index[version].from = live
    BY <1>18, <2>1 DEF StreamEnds
  <2>. QED
    BY <1>18, <2>1, <2>2 DEF StreamEnds, Rows
<1>19. CASE RestoreSettings
  <2>1. /\ index'[version].docs = index[version].docs
        /\ index'[version].from = index[version].from
        /\ index'[version].restored
    BY <1>19, FinalizeFacts
  <2>2. /\ pc = "settings" /\ pc' = "refresh"
        /\ UNCHANGED <<version, batch, snapshot, live>>
    BY <1>19 DEF RestoreSettings
  <2>. QED
    BY <2>1, <2>2 DEF Rows
<1>20. CASE Refresh
  BY <1>20, FinalizeFacts DEF Refresh, Rows
<1>21. CASE CheckCount
  BY <1>21 DEF CheckCount, Rows
<1>22. CASE SwapAlias
  BY <1>22 DEF SwapAlias, Rows
<1>23. ASSUME NEW v \in Versions, DeleteIndex(v)
      PROVE  IndexInv'
  BY <1>23 DEF DeleteIndex, Rows
<1>24. CASE RetiredDeleted
  BY <1>24 DEF RetiredDeleted, Rows
<1>25. CASE DropRetiredPartition
  BY <1>25 DEF DropRetiredPartition, Rows
<1>26. CASE Finish
  BY <1>26 DEF Finish, Rows
<1>27. CASE Fail
  BY <1>27 DEF Fail, Running
<1>28. CASE UNCHANGED vars
  BY <1>28 DEF vars, Rows
<1>. QED
  BY <1>1, <1>2, <1>3, <1>4, <1>5, <1>6, <1>7, <1>8, <1>9, <1>10, <1>11, <1>12, <1>13, <1>14,
     <1>15, <1>16, <1>17, <1>18, <1>19, <1>20, <1>21, <1>22, <1>23, <1>24, <1>25, <1>26, <1>27, <1>28
     DEF Next, Run, LoadPostgres, BuildIndex, Publish

(***************************************************************************)
(* What happens to another index, and to the listings after they were      *)
(* read, leaves a complete index complete.                                 *)
(***************************************************************************)
LEMMA StaysComplete ==
    ASSUME NEW v \in Versions, Complete(v), index'[v] = index[v]
    PROVE  Complete(v)'
PROOF
<1>1. /\ index'[v].restored = index[v].restored
      /\ index'[v].from = index[v].from
      /\ index'[v].shown = index[v].shown
      /\ index'[v].docs = index[v].docs
  OBVIOUS
<1>2. Whole(index'[v].from) /\ Rows(index'[v].from) = Rows(index[v].from)
  BY <1>1 DEF Complete
<1>. QED
  BY <1>1, <1>2 DEF Complete

(***************************************************************************)
(* Until the swap the alias leads where it led; from then on to the index  *)
(* the run has built.                                                      *)
(***************************************************************************)
LEMMA AliasKept ==
    ASSUME ~Reuse, IInv, AliasInv, [Next]_vars
    PROVE  AliasInv'
PROOF
<1> USE DEF IInv, AliasInv, RunInv, BeforeAlias, Over, jobVars, workVars, pgVars, osVars
<1>1. CASE Start
  <2>1. /\ runs' = runs + 1 /\ version' = runs + 1 /\ pc' = "waiting"
        /\ alias' = alias /\ index' = index
    BY <1>1, ~Reuse DEF Start
  <2>2. runs \in Nat /\ alias \subseteq 1..runs
    BY BoundAssumption DEF TypeOK
  <2>3. alias \subseteq 1..(runs + 1) /\ (runs + 1) \notin alias
    BY <2>2
  <2>. QED
    BY <2>1, <2>3, StaysComplete
<1>2. CASE WaitForCluster
  BY <1>2, StaysComplete DEF WaitForCluster
<1>3. CASE LoadReference
  BY <1>3, StaysComplete DEF LoadReference
<1>4. CASE CopyStaging
  BY <1>4, StaysComplete DEF CopyStaging
<1>5. CASE ValidateStaging
  BY <1>5, StaysComplete DEF ValidateStaging
<1>6. CASE BuildPartition
  BY <1>6, StaysComplete DEF BuildPartition
<1>7. CASE PartitionsBuilt
  BY <1>7, StaysComplete DEF PartitionsBuilt
<1>8. CASE SwapPartitions
  BY <1>8, StaysComplete DEF SwapPartitions
<1>9. CASE RegisterEmbeddingModel
  BY <1>9, StaysComplete DEF RegisterEmbeddingModel
<1>10. CASE DeployedModelID
  BY <1>10, StaysComplete DEF DeployedModelID
<1>11. CASE DropSameVersion
  <2>1. /\ alias' = alias /\ runs' = runs /\ version' = version /\ version \notin alias
        /\ \A v \in Versions : v # version => index'[v] = index[v]
        /\ pc # "idle" /\ pc' \in BeforeAlias \ {"alias"}
    BY <1>11 DEF DropSameVersion, TypeOK
  <2>. QED
    BY <2>1, StaysComplete
<1>12. CASE PutIndex
  <2>1. /\ alias' = alias /\ runs' = runs /\ version' = version /\ version \notin alias
        /\ \A v \in Versions : v # version => index'[v] = index[v]
        /\ pc # "idle" /\ pc' \in BeforeAlias \ {"alias"}
    BY <1>12 DEF PutIndex, TypeOK
  <2>. QED
    BY <2>1, StaysComplete
<1>13. CASE OpenStream
  BY <1>13, StaysComplete DEF OpenStream
<1>14. CASE NextBatch
  BY <1>14, StaysComplete DEF NextBatch
<1>15. CASE Embed
  BY <1>15, StaysComplete DEF Embed
<1>16. CASE BulkIndex
  <2>1. /\ alias' = alias /\ runs' = runs /\ version' = version /\ version \notin alias
        /\ \A v \in Versions : v # version => index'[v] = index[v]
        /\ pc # "idle" /\ pc' \in BeforeAlias \ {"alias"}
    BY <1>16, WriteFacts DEF BulkIndex, TypeOK
  <2>. QED
    BY <2>1, StaysComplete
<1>17. CASE Rejected
  <2>1. \A v \in Versions : v # version => index'[v] = index[v]
    BY <1>17, WriteFacts DEF Rejected
  <2>2. /\ alias' = alias /\ runs' = runs /\ version' = version /\ version \notin alias
        /\ pc' = pc /\ pc \in {"embed", "bulk"}
    BY <1>17 DEF Rejected
  <2>. QED
    BY <2>1, <2>2, StaysComplete
<1>18. CASE StreamEnds
  BY <1>18, StaysComplete DEF StreamEnds
<1>19. CASE RestoreSettings
  <2>1. /\ alias' = alias /\ runs' = runs /\ version' = version /\ version \notin alias
        /\ \A v \in Versions : v # version => index'[v] = index[v]
        /\ pc # "idle" /\ pc' \in BeforeAlias \ {"alias"}
    BY <1>19, FinalizeFacts DEF RestoreSettings, TypeOK
  <2>. QED
    BY <2>1, StaysComplete
<1>20. CASE Refresh
  <2>1. /\ alias' = alias /\ runs' = runs /\ version' = version /\ version \notin alias
        /\ \A v \in Versions : v # version => index'[v] = index[v]
        /\ pc # "idle" /\ pc' \in BeforeAlias \ {"alias"}
    BY <1>20, FinalizeFacts DEF Refresh, TypeOK
  <2>. QED
    BY <2>1, StaysComplete
<1>21. CASE CheckCount
  <2>1. retired' = alias /\ alias' = alias /\ index' = index /\ pc' = "alias"
    BY <1>21 DEF CheckCount
  <2>. QED
    BY <1>21, <2>1, StaysComplete DEF CheckCount
<1>22. CASE SwapAlias
  <2>1. /\ retired = alias /\ version \notin alias /\ version \in Versions /\ version = runs
        /\ pc = "alias" /\ pc' \in {"delete", "done"}
        /\ UNCHANGED <<index, runs, version, retired, live>>
    BY <1>22 DEF SwapAlias
  <2>2. alias' = {version}
    BY <1>22, <2>1 DEF SwapAlias
  <2>3. Complete(version) /\ index[version].from = live
    BY <2>1, LiveRows DEF Complete, IndexInv, Filled, Indexed, Swapped
  <2>4. version \in 1..runs
    BY <2>1 DEF Versions
  <2>. QED
    BY <2>1, <2>2, <2>3, <2>4, StaysComplete
<1>23. ASSUME NEW v \in Versions, DeleteIndex(v)
      PROVE  AliasInv'
  <2>1. v # version /\ alias = {version} /\ alias' = alias
    BY <1>23 DEF DeleteIndex
  <2>2. index'[version] = index[version] /\ version \in Versions
    BY <1>23, <2>1 DEF DeleteIndex, TypeOK
  <2>. QED
    BY <1>23, <2>1, <2>2, StaysComplete DEF DeleteIndex
<1>24. CASE RetiredDeleted
  BY <1>24, StaysComplete DEF RetiredDeleted
<1>25. CASE DropRetiredPartition
  BY <1>25, StaysComplete DEF DropRetiredPartition
<1>26. CASE Finish
  BY <1>26, StaysComplete DEF Finish
<1>27. CASE Fail
  <2>1. CASE pc = "bulk"
    <3>1. \A v \in Versions : v # version => index'[v] = index[v]
      BY <1>27, <2>1, WriteFacts DEF Fail
    <3>2. /\ alias' = alias /\ runs' = runs /\ version' = version /\ version \notin alias
          /\ pc' = "failed"
      BY <1>27, <2>1 DEF Fail
    <3>. QED
      BY <2>1, <3>1, <3>2, StaysComplete
  <2>2. CASE pc # "bulk"
    BY <1>27, <2>2, StaysComplete DEF Fail, Running
  <2>. QED
    BY <2>1, <2>2
<1>28. CASE UNCHANGED vars
  BY <1>28, StaysComplete DEF vars
<1>. QED
  BY <1>1, <1>2, <1>3, <1>4, <1>5, <1>6, <1>7, <1>8, <1>9, <1>10, <1>11, <1>12, <1>13, <1>14,
     <1>15, <1>16, <1>17, <1>18, <1>19, <1>20, <1>21, <1>22, <1>23, <1>24, <1>25, <1>26, <1>27, <1>28
     DEF Next, Run, LoadPostgres, BuildIndex, Publish

(***************************************************************************)
(* Apart from the swap no step touches the alias or an index behind it.    *)
(***************************************************************************)
LEMMA AliasStep ==
    ASSUME ~Reuse, IInv, AliasInv, [Next]_vars
    PROVE  \/ SwapAlias
           \/ alias' = alias /\ \A v \in alias : index'[v] = index[v]
PROOF
<1> USE DEF IInv, AliasInv, RunInv, BeforeAlias, Indexed, jobVars, workVars, pgVars, osVars
<1>1. CASE \/ Start \/ LoadPostgres \/ UNCHANGED vars
           \/ RegisterEmbeddingModel \/ DeployedModelID \/ OpenStream
           \/ NextBatch \/ Embed \/ StreamEnds \/ CheckCount
           \/ RetiredDeleted \/ DropRetiredPartition \/ Finish
  BY <1>1 DEF Start, LoadPostgres, WaitForCluster, LoadReference, CopyStaging, ValidateStaging,
     BuildPartition, PartitionsBuilt, SwapPartitions, vars, RegisterEmbeddingModel,
     DeployedModelID, OpenStream, NextBatch, Embed, StreamEnds, CheckCount, RetiredDeleted,
     DropRetiredPartition, Finish
<1>2. ASSUME version \notin alias, alias' = alias,
             \A v \in Versions : v # version => index'[v] = index[v]
      PROVE  alias' = alias /\ \A v \in alias : index'[v] = index[v]
  BY <1>2 DEF TypeOK
<1>3. CASE DropSameVersion \/ PutIndex
  <2>1. /\ version \notin alias /\ alias' = alias
        /\ \A v \in Versions : v # version => index'[v] = index[v]
    BY <1>3 DEF DropSameVersion, PutIndex, TypeOK
  <2>. QED
    BY <2>1, <1>2
<1>4. CASE BulkIndex \/ Rejected
  <2>1. /\ version \notin alias /\ alias' = alias
        /\ \A v \in Versions : v # version => index'[v] = index[v]
    BY <1>4, WriteFacts DEF BulkIndex, Rejected
  <2>. QED
    BY <2>1, <1>2
<1>5. CASE RestoreSettings \/ Refresh
  <2>1. /\ version \notin alias /\ alias' = alias
    BY <1>5 DEF RestoreSettings, Refresh
  <2>2. \A v \in Versions : v # version => index'[v] = index[v]
    BY <1>5, FinalizeFacts
  <2>. QED
    BY <2>1, <2>2, <1>2
<1>6. CASE Fail
  <2>1. CASE pc # "bulk"
    BY <1>6, <2>1 DEF Fail
  <2>2. CASE pc = "bulk"
    <3>1. /\ version \notin alias /\ alias' = alias
          /\ \A v \in Versions : v # version => index'[v] = index[v]
      BY <1>6, <2>2, WriteFacts DEF Fail
    <3>. QED
      BY <3>1, <1>2
  <2>. QED
    BY <2>1, <2>2
<1>7. ASSUME NEW v \in Versions, DeleteIndex(v)
      PROVE  alias' = alias /\ \A w \in alias : index'[w] = index[w]
  <2>1. v # version /\ alias = {version}
    BY <1>7 DEF DeleteIndex
  <2>. QED
    BY <1>7, <2>1 DEF DeleteIndex, TypeOK
<1>. QED
  BY <1>1, <1>3, <1>4, <1>5, <1>6, <1>7 DEF Next, Run, BuildIndex, Publish

(***************************************************************************)
(* What search answers from is the origin of the one index it leads to.    *)
(***************************************************************************)
LEMMA SearchedFacts ==
    ASSUME AliasInv
    PROVE  /\ alias = {} => Searched = None
           /\ \A v : alias = {v} => Searched = index[v].from
           /\ alias # {} => Whole(Searched)
PROOF
<1>1. alias = {} => Searched = None
  BY DEF Searched
<1>2. ASSUME NEW v, alias = {v} PROVE Searched = index[v].from
  <2>1. (CHOOSE w \in alias : TRUE) = v
    BY <1>2
  <2>. QED
    BY <1>2, <2>1 DEF Searched
<1>3. ASSUME alias # {} PROVE Whole(Searched)
  <2>1. PICK v \in Versions : alias = {v} /\ Complete(v)
    BY <1>3 DEF AliasInv
  <2>. QED
    BY <1>2, <2>1 DEF Complete
<1>. QED
  BY <1>1, <1>2, <1>3

(***************************************************************************)
(* A step leaves what search answers from alone, or moves it to the live   *)
(* listings.                                                               *)
(***************************************************************************)
LEMMA SearchedStep ==
    ASSUME ~Reuse, IInv, AliasInv, [Next]_vars
    PROVE  \/ Searched' = Searched
           \/ /\ pc = "alias" /\ live' = live
              /\ alias' # {} /\ Searched' = live /\ live # NoTables
PROOF
<1>1. AliasInv'
  BY AliasKept
<1>2. CASE SwapAlias
  <2>1. pc = "alias" /\ live' = live /\ version' = version
    BY <1>2 DEF SwapAlias, jobVars, pgVars
  <2>2. alias' = {version'} /\ index'[version'].from = live
    <3>1. retired = alias /\ index[version].from = live
      BY <2>1 DEF AliasInv, IInv, IndexInv, Filled
    <3>. QED
      BY <1>2, <2>1, <3>1 DEF SwapAlias
  <2>3. (CHOOSE w \in alias' : TRUE) = version'
    BY <2>2
  <2>4. Searched' = live
    BY <2>2, <2>3 DEF Searched
  <2>5. live # NoTables
    BY <2>1, LiveRows DEF IInv, Swapped
  <2>. QED
    BY <2>1, <2>2, <2>4, <2>5
<1>3. CASE alias' = alias /\ \A v \in alias : index'[v] = index[v]
  <2>1. CASE alias = {}
    BY <1>3, <2>1 DEF Searched
  <2>2. CASE alias # {}
    <3>1. (CHOOSE w \in alias : TRUE) \in alias
      BY <2>2
    <3>. QED
      BY <1>3, <2>2, <3>1 DEF Searched
  <2>. QED
    BY <2>1, <2>2
<1>. QED
  BY <1>2, <1>3, AliasStep

(***************************************************************************)
(* A step leaves the listings alone, or replaces them all with a feed's.   *)
(***************************************************************************)
LEMMA ListingsStep ==
    ASSUME IInv, [Next]_vars
    PROVE  \/ live' = live
           \/ /\ \E f \in Feeds : live' = TablesOf(f)
              /\ pc # "alias"
PROOF
<1>1. CASE SwapPartitions
  <2>1. live' = TablesOf(feed) /\ feed \in Feeds /\ pc = "swap"
    BY <1>1 DEF SwapPartitions, IInv, TablesInv, RunInv
  <2>. QED
    BY <2>1
<1>2. CASE ~SwapPartitions
  BY <1>2 DEF Next, Start, Run, LoadPostgres, BuildIndex, Publish, Fail, WaitForCluster,
     LoadReference, CopyStaging, ValidateStaging, BuildPartition, PartitionsBuilt,
     RegisterEmbeddingModel, DeployedModelID, DropSameVersion, PutIndex, OpenStream, NextBatch,
     Embed, BulkIndex, Rejected, StreamEnds, RestoreSettings, Refresh, CheckCount, SwapAlias,
     DeleteIndex, RetiredDeleted, DropRetiredPartition, Finish, vars, pgVars
<1>. QED
  BY <1>1, <1>2

(***************************************************************************)
(* In every reachable state a run's own state, the tables and the index it *)
(* builds agree.                                                           *)
(***************************************************************************)
THEOREM InvariantHolds == Spec => []IInv
PROOF
<1>1. Init => IInv
  BY InitHolds
<1>2. IInv /\ [Next]_vars => IInv'
  BY TypesKept, RunKept, TablesKept, IndexKept DEF IInv
<1>. QED
  BY <1>1, <1>2, PTL DEF Spec

(***************************************************************************)
(* Every variable of the pipeline and its stores keeps its type.           *)
(***************************************************************************)
THEOREM TypeCorrect == Spec => []TypeOK
PROOF
<1>1. IInv => TypeOK
  BY DEF IInv
<1>. QED
  BY <1>1, InvariantHolds, PTL

(***************************************************************************)
(* The live listings are one validated feed, also where a run is given an  *)
(* earlier run's version.                                                  *)
(***************************************************************************)
THEOREM ListingsAreWhole == Spec => []ListingsAreOneFeed
PROOF
<1>1. IInv => ListingsAreOneFeed
  BY DEF IInv, TablesInv
<1>. QED
  BY <1>1, InvariantHolds, PTL

(***************************************************************************)
(* Where each run has its own version, the alias leads to one complete     *)
(* index, never to the one being built.                                    *)
(***************************************************************************)
THEOREM AliasInvariantHolds ==
    ASSUME ~Reuse
    PROVE  Spec => [](IInv /\ AliasInv)
PROOF
<1>1. Init => IInv /\ AliasInv
  BY InitHolds
<1>2. IInv /\ AliasInv /\ [Next]_vars => (IInv /\ AliasInv)'
  BY TypesKept, RunKept, TablesKept, IndexKept, AliasKept DEF IInv
<1>. QED
  BY <1>1, <1>2, PTL DEF Spec

(***************************************************************************)
(* Readers of the alias always find one complete index.                    *)
(***************************************************************************)
THEOREM SearchStaysComplete ==
    ASSUME ~Reuse
    PROVE  Spec => []SearchIsComplete
PROOF
<1>1. IInv /\ AliasInv => SearchIsComplete
  BY DEF AliasInv, SearchIsComplete, Complete
<1>. QED
  BY <1>1, AliasInvariantHolds, PTL

(***************************************************************************)
(* A run that ends well has moved the listings and search to its feed.     *)
(***************************************************************************)
THEOREM SuccessIsWhole ==
    ASSUME ~Reuse
    PROVE  Spec => []SuccessMovesBoth
PROOF
<1>1. IInv /\ AliasInv => SuccessMovesBoth
  <2> SUFFICES ASSUME IInv, AliasInv, pc = "done" PROVE SuccessMovesBoth
    BY DEF SuccessMovesBoth
  <2>1. live = TablesOf(feed)
    BY DEF IInv, TablesInv, Swapped
  <2>2. alias = {version} /\ index[version].from = live
    BY DEF AliasInv
  <2>3. Searched = live
    BY <2>2, SearchedFacts
  <2>. QED
    BY <2>1, <2>2, <2>3 DEF SuccessMovesBoth, TablesOf
<1>. QED
  BY <1>1, AliasInvariantHolds, PTL

(***************************************************************************)
(* No step deletes the index search answers from, nor the one generation   *)
(* of listings that a step has just replaced.                              *)
(***************************************************************************)
THEOREM OneGenerationStays ==
    ASSUME ~Reuse
    PROVE  Spec => OneGenerationIsKept
PROOF
<1> DEFINE Loses    == \E p \in Partitions : prev[p] # None /\ prev'[p] # prev[p]
           Survives == Searched = live /\ live # NoTables => live \in {live', prev'}
           Excused  == \/ Searched = live /\ Searched' = live /\ live' = live
                       \/ prev' = live /\ Whole(live) /\ Whole(live')
           Kept     == (\A v \in alias : index'[v] # None) /\ Survives /\ (Loses => Excused)
<1>1. ASSUME IInv, AliasInv, [Next]_vars PROVE Kept
  <2>1. \A v \in alias : index[v] # None
    BY <1>1 DEF AliasInv, Complete
  <2>2. \A v \in alias : index'[v] # None
    <3>1. CASE SwapAlias
      BY <2>1, <3>1 DEF SwapAlias
    <3>2. CASE alias' = alias /\ \A v \in alias : index'[v] = index[v]
      BY <2>1, <3>2
    <3>. QED
      BY <1>1, <3>1, <3>2, AliasStep
  <2>3. CASE DropRetiredPartition
    <3>1. pc = "drop" /\ UNCHANGED <<live, index, alias>>
      BY <2>3 DEF DropRetiredPartition, osVars
    <3>2. Searched = live
      BY <1>1, <3>1, SearchedFacts DEF AliasInv
    <3>3. Searched' = Searched
      BY <3>1 DEF Searched
    <3>. QED
      BY <2>2, <3>1, <3>2, <3>3
  <2>4. CASE SwapPartitions
    <3>1. prev' = live
      BY <2>4 DEF SwapPartitions
    <3>2. Whole(live')
      <4>1. live' = TablesOf(feed) /\ feed \in Feeds
        BY <1>1, <2>4 DEF SwapPartitions, IInv, TablesInv, RunInv
      <4>. QED
        BY <4>1, RowsOfFeed
    <3>3. CASE live = NoTables
      <4>1. ~Loses
        BY <1>1, <3>3 DEF IInv, TablesInv, NoTables
      <4>. QED
        BY <2>2, <3>3, <4>1
    <3>4. CASE live # NoTables
      <4>1. Whole(live)
        BY <1>1, <3>4 DEF IInv, TablesInv, ListingsAreOneFeed
      <4>. QED
        BY <2>2, <3>1, <3>2, <4>1
    <3>. QED
      BY <3>3, <3>4
  <2>5. CASE ~DropRetiredPartition /\ ~SwapPartitions
    <3>1. prev' = prev /\ live' = live
      BY <1>1, <2>5 DEF Next, Start, Run, LoadPostgres, BuildIndex, Publish, Fail,
         WaitForCluster, LoadReference, CopyStaging, ValidateStaging, BuildPartition,
         PartitionsBuilt, RegisterEmbeddingModel, DeployedModelID, DropSameVersion, PutIndex,
         OpenStream, NextBatch, Embed, BulkIndex, Rejected, StreamEnds, RestoreSettings,
         Refresh, CheckCount, SwapAlias, DeleteIndex, RetiredDeleted, Finish, vars, pgVars
    <3>. QED
      BY <2>2, <3>1
  <2>. QED
    BY <2>3, <2>4, <2>5
<1>2. IInv /\ AliasInv /\ [Next]_vars => [Kept]_vars
  BY <1>1
<1>. QED
  BY <1>2, AliasInvariantHolds, PTL DEF Spec, OneGenerationIsKept

(***************************************************************************)
(* Where each run has its own version, what search answers from moves only *)
(* with the alias.                                                         *)
(***************************************************************************)
THEOREM SearchMovesOnce ==
    ASSUME ~Reuse
    PROVE  Spec => OnlyTheSwapMovesSearch
PROOF
<1>1. IInv /\ AliasInv /\ [Next]_vars => [Searched' # Searched => pc = "alias"]_vars
  BY SearchedStep
<1>. QED
  BY <1>1, AliasInvariantHolds, PTL DEF Spec, OnlyTheSwapMovesSearch

(***************************************************************************)
(* Before the first load readers of Catalog see nothing.                   *)
(***************************************************************************)
LEMMA RefinesInit == Init => Promise!Init
PROOF
  BY DEF Init, Promise!Init, Searched, NoTables

(***************************************************************************)
(* A swap of the partitions is a ReplaceListings, a swap of the alias a    *)
(* MoveSearch, and every other step a stutter.                             *)
(***************************************************************************)
LEMMA RefinesNext ==
    ASSUME ~Reuse, IInv, AliasInv, [Next]_vars
    PROVE  [Promise!Next]_(Promise!vars)
PROOF
<1>1. CASE Searched' = Searched
  BY <1>1, ListingsStep DEF Promise!Next, Promise!ReplaceListings, Promise!vars, TablesOf
<1>2. CASE pc = "alias" /\ live' = live /\ alias' # {} /\ Searched' = live /\ live # NoTables
  <2>1. live # None
    BY NoneAssumption DEF IInv, TypeOK
  <2>. QED
    BY <1>2, <2>1 DEF Promise!Next, Promise!MoveSearch
<1>. QED
  BY <1>1, <1>2, SearchedStep

(***************************************************************************)
(* Runs that fail anywhere, one after another, show their readers what     *)
(* Catalog promises, if each has a version of its own.                     *)
(***************************************************************************)
THEOREM ImplementsCatalog ==
    ASSUME ~Reuse
    PROVE  Spec => KeepsPromise
PROOF
<1>1. IInv /\ AliasInv /\ [Next]_vars => [Promise!Next]_(Promise!vars)
  BY RefinesNext
<1>. QED
  BY <1>1, RefinesInit, AliasInvariantHolds, PTL DEF Spec, KeepsPromise, Promise!Spec
=============================================================================
