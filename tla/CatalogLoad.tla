----------------------------- MODULE CatalogLoad ----------------------------
(***************************************************************************)
(* The ingest pipeline (internal/ingest, cmd/ingest): Postgres tables, the *)
(* OpenSearch indices behind the alias "products", and the runs of         *)
(* Pipeline.Run that replace both, one after another.                      *)
(*                                                                         *)
(* One action per statement or request whose effect outlives the run, so   *)
(* that a run may fail, be cancelled or be killed between any two: no      *)
(* error path of the pipeline undoes anything, so Fail is all three.  An   *)
(* effect whose acknowledgement is lost is its action followed by Fail.    *)
(*                                                                         *)
(* A feed is the seed directory of one run.  A listing is named by its     *)
(* partition and product; prices, titles and merchants are left out.       *)
(* A run names its index after the time it starts, here its number, unless *)
(* it is told an earlier one (Reuse).                                      *)
(***************************************************************************)
EXTENDS Integers, FiniteSets

CONSTANTS
    Feeds,
    Products,       \* product ids, in their order
    N,              \* ListingPartitions
    Provides,       \* the products each feed's products.csv holds
    Listed,         \* the products each feed lists, by partition
    Attempts,       \* bulkMaxAttempts
    BatchSize,      \* BulkBatchSize
    MaxRuns,        \* how many runs are modelled
    Reuse,          \* may a run be given the version of an earlier one?
    None            \* no such table, index or snapshot

Partitions == 0..N-1
Versions   == 1..MaxRuns

TableOrNone == Feeds \cup {None}

(* An index: its documents, the listings they were read from, what a       *)
(* refresh has made visible, and whether it has its serving settings.      *)
IndexRecord ==
    [docs: SUBSET Products, from: [Partitions -> TableOrNone] \cup {None},
     shown: SUBSET Products, restored: BOOLEAN]

ASSUME FeedAssumption ==
    /\ None \notin Feeds
    /\ Products \subseteq Nat /\ IsFiniteSet(Products)
    /\ Provides \in [Feeds -> SUBSET Products]
    /\ Listed \in [Feeds -> [Partitions -> SUBSET Products]]
ASSUME NoneAssumption ==
    /\ None \notin IndexRecord
    /\ None \notin [Partitions -> TableOrNone]
ASSUME BoundAssumption ==
    /\ N \in Nat \ {0}
    /\ Attempts \in Nat \ {0}
    /\ BatchSize \in Nat \ {0}
    /\ MaxRuns \in Nat
    /\ Reuse \in BOOLEAN

VARIABLES
    \* the current run, or the last one
    pc, feed, version, skipModel, dropRetired,
    runs,           \* runs started
    part,           \* the partition the current loop is at
    left,           \* products the cursor has not handed out yet
    batch,          \* the documents being embedded or indexed
    tries,          \* attempts made on the batch's current request
    snapshot,       \* the listings as the cursor's query saw them
    expected,       \* CountProducts
    retired,        \* the indices SwapAlias moved the alias away from
    \* Postgres
    products,       \* rows of products
    staging,        \* listings_staging: the feed it holds
    next,           \* listings_pN_next
    live,           \* listings_pN, attached
    prev,           \* listings_pN_prev
    \* OpenSearch
    deployed,       \* an embedding model is deployed
    index,          \* products_vN
    alias           \* the indices behind the alias

jobVars  == <<feed, version, skipModel, dropRetired, runs>>
workVars == <<part, left, batch, tries, snapshot, expected, retired>>
pgVars   == <<products, staging, next, live, prev>>
osVars   == <<deployed, index, alias>>
vars     == <<pc, jobVars, workVars, pgVars, osVars>>

Over    == {"idle", "done", "failed"}
Running == {"waiting", "reference", "stage", "validate", "build", "swap",
            "model", "create", "put", "count", "embed", "bulk", "settings",
            "refresh", "check", "alias", "delete", "drop"}

(* A row of listings joins products on its product.                        *)
Rows(tables) ==
    UNION {IF tables[p] = None THEN {} ELSE Listed[tables[p]][p] : p \in Partitions}
Catalogued == Rows(live) \cap products

(* CreateVersionedIndex's index, set up for bulk loading.                  *)
NewIndex == [docs |-> {}, from |-> None, shown |-> {}, restored |-> FALSE]

-----------------------------------------------------------------------------
(***************************************************************************)
(* Mistakes.  Each operator here is a step of the program as a plausible   *)
(* bug would have it.  No specification uses them: they say which change   *)
(* of the code each property below is there to catch.                      *)
(***************************************************************************)

(* CREATE TABLE IF NOT EXISTS, without the DROP before it.                 *)
BuildMissingPartition ==
    /\ pc = "build" /\ part < N
    /\ next' = [next EXCEPT ![part] = IF @ = None THEN staging ELSE @]
    /\ part' = part + 1
    /\ UNCHANGED <<pc, jobVars, left, batch, tries, snapshot, expected, retired,
                   products, staging, live, prev, osVars>>

(* Each partition is exchanged in a transaction of its own.                *)
SwapPartitionsOneByOne ==
    /\ pc = "swap"
    /\ \E p \in Partitions :
          /\ next[p] # None
          /\ live' = [live EXCEPT ![p] = next[p]]
          /\ prev' = [prev EXCEPT ![p] = live[p]]
          /\ next' = [next EXCEPT ![p] = None]
    /\ pc' = IF next' = [p \in Partitions |-> None] THEN "model" ELSE "swap"
    /\ UNCHANGED <<jobVars, workVars, products, staging, osVars>>

(* After the last attempt the count starts over.                           *)
RejectedAnew ==
    /\ pc = "embed" /\ batch # {}
    /\ tries' = IF tries < Attempts THEN tries + 1 ELSE 1
    /\ UNCHANGED <<pc, jobVars, part, left, batch, snapshot, expected, retired, pgVars, osVars>>

(* The partitions go as soon as they are replaced.                         *)
SwapPartitionsDropping ==
    /\ pc = "swap"
    /\ live' = next
    /\ prev' = [p \in Partitions |-> None]
    /\ next' = [p \in Partitions |-> None]
    /\ pc' = "model"
    /\ UNCHANGED <<jobVars, workVars, products, staging, osVars>>

(* The alias gets the new index beside the old ones.                       *)
SwapAliasAdding ==
    /\ pc = "alias"
    /\ alias' = alias \cup {version}
    /\ pc' = IF dropRetired THEN "delete" ELSE "done"
    /\ UNCHANGED <<jobVars, workVars, pgVars, deployed, index>>

(* An alias that is there already is taken to be right.                    *)
SwapAliasIfMissing ==
    /\ pc = "alias"
    /\ alias' = IF alias = {} THEN {version} ELSE alias
    /\ pc' = "done"
    /\ UNCHANGED <<jobVars, workVars, pgVars, deployed, index>>

-----------------------------------------------------------------------------
Init ==
    /\ pc = "idle"
    /\ feed = None
    /\ version = None
    /\ skipModel = FALSE
    /\ dropRetired = FALSE
    /\ runs = 0
    /\ part = 0 /\ left = {} /\ batch = {} /\ tries = 0
    /\ snapshot = None /\ expected = 0 /\ retired = {}
    /\ products = {}
    /\ staging = None
    /\ next = [p \in Partitions |-> None]
    /\ live = [p \in Partitions |-> None]
    /\ prev = [p \in Partitions |-> None]
    /\ deployed = FALSE
    /\ index = [v \in Versions |-> None]
    /\ alias = {}

Start ==
    /\ pc \in Over
    /\ runs < MaxRuns
    /\ runs' = runs + 1
    /\ feed' \in Feeds
    /\ version' \in IF Reuse THEN 1..(runs + 1) ELSE {runs + 1}
    /\ skipModel' \in BOOLEAN
    /\ dropRetired' \in BOOLEAN
    /\ pc' = "waiting"
    /\ UNCHANGED <<workVars, pgVars, osVars>>

(* Until this returns nothing has been touched.                            *)
WaitForCluster ==
    /\ pc = "waiting"
    /\ pc' = "reference"
    /\ UNCHANGED <<jobVars, workVars, pgVars, osVars>>

(* Upserts: what the tables held before stays.                             *)
LoadReference ==
    /\ pc = "reference"
    /\ products' = products \cup Provides[feed]
    /\ pc' = "stage"
    /\ UNCHANGED <<jobVars, workVars, staging, next, live, prev, osVars>>

CopyStaging ==
    /\ pc = "stage"
    /\ staging' = feed
    /\ pc' = "validate"
    /\ UNCHANGED <<jobVars, workVars, products, next, live, prev, osVars>>

Staged == UNION {Listed[staging][p] : p \in Partitions}

ValidateStaging ==
    /\ pc = "validate"
    /\ Staged # {}
    /\ Staged \subseteq products
    /\ part' = 0
    /\ pc' = "build"
    /\ UNCHANGED <<jobVars, left, batch, tries, snapshot, expected, retired, pgVars, osVars>>

(* DROP, CREATE and INSERT of one partition: an earlier run that got no    *)
(* further has left its tables behind.                                     *)
BuildPartition ==
    /\ pc = "build" /\ part < N
    /\ next' = [next EXCEPT ![part] = staging]
    /\ part' = part + 1
    /\ UNCHANGED <<pc, jobVars, left, batch, tries, snapshot, expected, retired,
                   products, staging, live, prev, osVars>>

PartitionsBuilt ==
    /\ pc = "build" /\ part = N
    /\ pc' = "swap"
    /\ UNCHANGED <<jobVars, workVars, pgVars, osVars>>

(* One transaction.  It drops the partitions an earlier swap retained,     *)
(* whatever search answers from, and retains those it replaces.            *)
SwapPartitions ==
    /\ pc = "swap"
    /\ live' = next
    /\ prev' = live
    /\ next' = [p \in Partitions |-> None]
    /\ pc' = "model"
    /\ UNCHANGED <<jobVars, workVars, products, staging, osVars>>

-----------------------------------------------------------------------------
RegisterEmbeddingModel ==
    /\ pc = "model" /\ ~skipModel
    /\ deployed' = TRUE
    /\ pc' = "create"
    /\ UNCHANGED <<jobVars, workVars, pgVars, index, alias>>

DeployedModelID ==
    /\ pc = "model" /\ skipModel
    /\ deployed
    /\ pc' = "create"
    /\ UNCHANGED <<jobVars, workVars, pgVars, osVars>>

(* CreateVersionedIndex: DELETE, which takes the index out of the alias    *)
(* with it, then PUT.                                                      *)
DropSameVersion ==
    /\ pc = "create"
    /\ index' = [index EXCEPT ![version] = None]
    /\ alias' = alias \ {version}
    /\ pc' = "put"
    /\ UNCHANGED <<jobVars, workVars, pgVars, deployed>>

PutIndex ==
    /\ pc = "put"
    /\ index' = [index EXCEPT ![version] = NewIndex]
    /\ pc' = "count"
    /\ UNCHANGED <<jobVars, workVars, pgVars, deployed, alias>>

(* CountProducts, then the one query whose cursor feeds every batch.       *)
OpenStream ==
    /\ pc = "count"
    /\ expected' = Cardinality(Catalogued)
    /\ left' = Catalogued
    /\ snapshot' = live
    /\ pc' = "embed"
    /\ UNCHANGED <<jobVars, part, batch, tries, retired, pgVars, osVars>>

(* At most BatchSize of the documents left, in the order of their product. *)
FirstOf(ps) == {q \in ps : Cardinality({r \in ps : r < q}) < BatchSize}

(* The next documents of the cursor become a batch and are embedded.       *)
NextBatch ==
    /\ pc = "embed" /\ batch = {}
    /\ left # {}
    /\ batch' = FirstOf(left)
    /\ left' = left \ batch'
    /\ tries' = 1
    /\ UNCHANGED <<pc, jobVars, part, snapshot, expected, retired, pgVars, osVars>>

Embed ==
    /\ pc = "embed" /\ batch # {}
    /\ tries' = 1
    /\ pc' = "bulk"
    /\ UNCHANGED <<jobVars, part, left, batch, snapshot, expected, retired, pgVars, osVars>>

(* A bulk request writes each document under its product_id.               *)
Write(docs) ==
    index' = [index EXCEPT ![version].docs = @ \cup docs,
                           ![version].from = snapshot]

BulkIndex ==
    /\ pc = "bulk"
    /\ Write(batch)
    /\ batch' = {}
    /\ tries' = 0
    /\ pc' = "embed"
    /\ UNCHANGED <<jobVars, part, left, snapshot, expected, retired, pgVars, deployed, alias>>

(* A cluster that sheds load refuses the request, or some items of it; the *)
(* batch is tried again, and after its last attempt the run fails.         *)
Rejected ==
    /\ \/ pc = "embed" /\ batch # {} /\ UNCHANGED index
       \/ pc = "bulk" /\ \E written \in SUBSET batch : written # batch /\ Write(written)
    /\ tries < Attempts
    /\ tries' = tries + 1
    /\ UNCHANGED <<pc, jobVars, part, left, batch, snapshot, expected, retired, pgVars, deployed, alias>>

StreamEnds ==
    /\ pc = "embed" /\ batch = {} /\ left = {}
    /\ pc' = "settings"
    /\ UNCHANGED <<jobVars, workVars, pgVars, osVars>>

(* FinalizeIndex: settings, refresh, force merge.                          *)
RestoreSettings ==
    /\ pc = "settings"
    /\ index' = [index EXCEPT ![version].restored = TRUE]
    /\ pc' = "refresh"
    /\ UNCHANGED <<jobVars, workVars, pgVars, deployed, alias>>

Refresh ==
    /\ pc = "refresh"
    /\ index' = [index EXCEPT ![version].shown = index[version].docs]
    /\ pc' = "check"
    /\ UNCHANGED <<jobVars, workVars, pgVars, deployed, alias>>

CheckCount ==
    /\ pc = "check"
    /\ Cardinality(index[version].shown) = expected
    /\ retired' = alias \ {version}
    /\ pc' = "alias"
    /\ UNCHANGED <<jobVars, part, left, batch, tries, snapshot, expected, pgVars, osVars>>

SwapAlias ==
    /\ pc = "alias"
    /\ alias' = (alias \ retired) \cup {version}
    /\ pc' = IF dropRetired THEN "delete" ELSE "done"
    /\ UNCHANGED <<jobVars, workVars, pgVars, deployed, index>>

DeleteIndex(v) ==
    /\ pc = "delete"
    /\ v \in retired
    /\ index' = [index EXCEPT ![v] = None]
    /\ alias' = alias \ {v}
    /\ retired' = retired \ {v}
    /\ UNCHANGED <<pc, jobVars, part, left, batch, tries, snapshot, expected, pgVars, deployed>>

RetiredDeleted ==
    /\ pc = "delete" /\ retired = {}
    /\ part' = 0
    /\ pc' = "drop"
    /\ UNCHANGED <<jobVars, left, batch, tries, snapshot, expected, retired, pgVars, osVars>>

DropRetiredPartition ==
    /\ pc = "drop" /\ part < N
    /\ prev' = [prev EXCEPT ![part] = None]
    /\ part' = part + 1
    /\ UNCHANGED <<pc, jobVars, left, batch, tries, snapshot, expected, retired,
                   products, staging, next, live, osVars>>

Finish ==
    /\ pc = "drop" /\ part = N
    /\ pc' = "done"
    /\ UNCHANGED <<jobVars, workVars, pgVars, osVars>>

(* A validation that refuses, an error, a batch out of attempts, a signal, *)
(* a crash.  A bulk request may have written some of its documents first.  *)
Fail ==
    /\ pc \in Running
    /\ IF pc = "bulk" THEN \E written \in SUBSET batch : Write(written)
                      ELSE UNCHANGED index
    /\ pc' = "failed"
    /\ UNCHANGED <<jobVars, pgVars, deployed, alias>>
    /\ part' = 0 /\ left' = {} /\ batch' = {} /\ tries' = 0
    /\ snapshot' = None /\ expected' = 0 /\ retired' = {}

LoadPostgres ==
    \/ WaitForCluster \/ LoadReference \/ CopyStaging \/ ValidateStaging
    \/ BuildPartition
    \/ PartitionsBuilt \/ SwapPartitions

BuildIndex ==
    \/ RegisterEmbeddingModel \/ DeployedModelID
    \/ DropSameVersion \/ PutIndex \/ OpenStream
    \/ NextBatch \/ Embed \/ BulkIndex \/ Rejected \/ StreamEnds
    \/ RestoreSettings \/ Refresh \/ CheckCount

Publish ==
    \/ SwapAlias
    \/ \E v \in Versions : DeleteIndex(v)
    \/ RetiredDeleted
    \/ DropRetiredPartition
    \/ Finish

Run == LoadPostgres \/ BuildIndex \/ Publish \/ Fail

Next == Start \/ Run

(* A run is one thread that keeps going: every call it makes is answered   *)
(* or times out.                                                           *)
Spec == Init /\ [][Next]_vars /\ WF_vars(Run)

-----------------------------------------------------------------------------
(* Properties                                                              *)

Whole(tables) == \E f \in Feeds : tables = [p \in Partitions |-> f]

NoTables == [p \in Partitions |-> None]

Searched == IF alias = {} THEN None ELSE index[CHOOSE v \in alias : TRUE].from

(* Every variable holds a value of its kind.                               *)
TypeOK ==
    /\ pc \in Over \cup Running
    /\ feed \in TableOrNone
    /\ version \in Versions \cup {None}
    /\ skipModel \in BOOLEAN /\ dropRetired \in BOOLEAN
    /\ runs \in 0..MaxRuns
    /\ part \in 0..N
    /\ left \subseteq Products /\ batch \subseteq Products
    /\ tries \in 0..Attempts
    /\ snapshot \in [Partitions -> TableOrNone] \cup {None}
    /\ expected \in Nat
    /\ retired \subseteq Versions
    /\ products \subseteq Products
    /\ staging \in TableOrNone
    /\ next \in [Partitions -> TableOrNone]
    /\ live \in [Partitions -> TableOrNone]
    /\ prev \in [Partitions -> TableOrNone]
    /\ deployed \in BOOLEAN
    /\ index \in [Versions -> {None} \cup IndexRecord]
    /\ alias \subseteq Versions

(* Whatever runs failed before, and wherever they left their tables, the   *)
(* live partitions hold one feed, which lists something and nothing the    *)
(* products table lacks; before the first swap they hold nothing           *)
(* (LoadListings, swapPartitions).                                         *)
ListingsAreOneFeed ==
    \/ live = NoTables
    \/ /\ Whole(live)
       /\ Rows(live) # {}
       /\ Rows(live) \subseteq products

(* The alias leads to one index, which exists, has its serving settings,   *)
(* shows every document it was given and has one for each product of the   *)
(* listings it was built from (FinalizeIndex, CountDocuments, SwapAlias).  *)
SearchIsComplete ==
    \/ alias = {}
    \/ \E v \in Versions :
          /\ alias = {v}
          /\ index[v] # None
          /\ index[v].restored
          /\ Whole(index[v].from)
          /\ index[v].shown = index[v].docs
          /\ index[v].docs = Rows(index[v].from)

(* A run that reports success has moved both stores to its feed.           *)
SuccessMovesBoth ==
    pc = "done" => /\ live = [p \in Partitions |-> feed]
                   /\ alias = {version}
                   /\ Searched = live

(* What the last step of a run took away can be put back.  No index is     *)
(* deleted from behind the alias.  The listings search answers from, if    *)
(* they are live, survive the swap that replaces them.  Listings retained  *)
(* by a swap go only when search answers from their replacement, or when   *)
(* another swap retains all of the ones it replaces; that may be while     *)
(* search still answers from the older ones, which a run that failed       *)
(* between its swap and its alias left it at (DeleteIndex, swapPartitions, *)
(* DropRetiredPartitions).                                                 *)
OneGenerationIsKept ==
    [][/\ \A v \in alias : index'[v] # None
       /\ Searched = live /\ live # NoTables => live \in {live', prev'}
       /\ (\E p \in Partitions : prev[p] # None /\ prev'[p] # prev[p]) =>
             \/ Searched = live /\ Searched' = live /\ live' = live
             \/ prev' = live /\ Whole(live) /\ Whole(live')]_vars

(* Every run ends: attempts on a batch are bounded and so are the batches  *)
(* (retryUnderPressure, Stream).                                           *)
EveryRunEnds == (pc \in Running) ~> (pc \in Over)

(* "Only now does serving traffic move. Everything before this point was   *)
(* invisible to readers": what search answers from changes only with the   *)
(* swap of the alias (Run).                                                *)
OnlyTheSwapMovesSearch == [][Searched' # Searched => pc = "alias"]_vars

(* The pipeline implements Catalog.                                        *)
Promise == INSTANCE Catalog WITH
    Feeds <- {[p \in Partitions |-> f] : f \in Feeds},
    NoFeed <- NoTables,
    listings <- live,
    searched <- IF Searched = None THEN NoTables ELSE Searched
KeepsPromise == Promise!Spec
=============================================================================
