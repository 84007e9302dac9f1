---------------------------- MODULE SearchService ---------------------------
(***************************************************************************)
(* The search service (internal/search, cmd/search) through the lives of   *)
(* its process, and the settlement that later spends what it minted.       *)
(*                                                                         *)
(* One process per POST /search request and one for the goroutine it       *)
(* leaves behind to record the search.  A request's context may end, and   *)
(* OpenSearch may fail, at any call: each call has an outcome for that.    *)
(***************************************************************************)
EXTENDS Integers, Sequences, FiniteSets

CONSTANTS
    Requests,       \* each request, and the search_request_id made for it
    Asks,           \* the payloads requests may carry
    Products,       \* the documents of the index
    Offers,         \* the offers of each: sets of [merchant, inStock]
    OverRate,       \* those whose max_commission_bps Mint refuses
    Publishers,     \* the rows of publishers
    AnyMerchant,    \* no merchant filter
    Nobody,         \* an empty publisher_id
    DefaultSize, MaxSize,
    Capacity,       \* of the latency window
    MaxObserved,    \* how many observations one process makes
    MaxLives        \* how often the process may be started

ASSUME SearchAssumption ==
    /\ "new" \notin Requests /\ "spent" \notin Requests
    /\ IsFiniteSet(Products)
    /\ Nobody \notin Publishers
    /\ DefaultSize \in 1..MaxSize /\ MaxSize \in Nat
    /\ Capacity \in Nat \ {0} /\ MaxLives \in Nat \ {0}
    /\ MaxObserved \in Nat
    /\ \A a \in Asks : a.size \in Nat /\ a.query \in BOOLEAN /\ a.inStock \in BOOLEAN

VARIABLES
    pc,             \* where each request's handler is
    ask,            \* its payload
    hits,           \* results.Products, and so the assertions it mints
    answer,         \* the status it answered
    recorder,       \* its recordSearch goroutine
    life,           \* how often the process has been started
    mode,           \* "up", "stopping" once told to stop, "down"
    once,           \* modelOnce: "new", the request inside it, or "spent"
    model,          \* what it left: "none" yet, "found" or "error"
    total, samples, \* the latency window; an observation is its ordinal
    deployed,       \* OpenSearch has a deployed model
    indexed,        \* OpenSearch has an index behind the alias
    rows,           \* search_requests
    settlements     \* settlement rows, as <<search, product>>

requestVars == <<pc, ask, hits, answer>>
windowVars  == <<total, samples>>
processVars == <<life, mode, once, model, windowVars>>
clusterVars == <<deployed, indexed>>
vars == <<requestVars, recorder, processVars, clusterVars, rows, settlements>>

InFlight == {"resolve", "lookup", "query", "mint"}

Init ==
    /\ pc = [r \in Requests |-> "new"]
    /\ ask \in [Requests -> Asks]
    /\ hits = [r \in Requests |-> {}]
    /\ answer = [r \in Requests |-> 0]
    /\ recorder = [r \in Requests |-> "none"]
    /\ life = 1 /\ mode = "up"
    /\ once = "new" /\ model = "none"
    /\ total = 0 /\ samples = <<>>
    /\ deployed = FALSE /\ indexed = FALSE
    /\ rows = {}
    /\ settlements = {}

Reply(r, code) ==
    /\ pc' = [pc EXCEPT ![r] = "over"]
    /\ answer' = [answer EXCEPT ![r] = code]

ResolvedSize(a) ==
    IF a.size = 0 THEN DefaultSize ELSE IF a.size > MaxSize THEN MaxSize ELSE a.size

(* merchant_ids and in_stock_anywhere are roll-ups over a document's       *)
(* offers: the filters need not hold of one and the same offer.            *)
Passes(a, p) ==
    /\ a.merchant # AnyMerchant => \E o \in Offers[p] : o.merchant = a.merchant
    /\ a.inStock => \E o \in Offers[p] : o.inStock

(* What either subquery of the hybrid query may find, behind the filters.  *)
Branch(a) == SUBSET {p \in Products : Passes(a, p)}

-----------------------------------------------------------------------------
(***************************************************************************)
(* Mistakes.  Each operator here is a step of the program as a plausible   *)
(* bug would have it.  No specification uses them: they say which change   *)
(* of the code each property below is there to catch.                      *)
(***************************************************************************)

(* The model is cached without a lock around the lookup.                   *)
StartLookupUnguarded(r) ==
    /\ pc[r] = "resolve" /\ model = "none"
    /\ once' = r
    /\ pc' = [pc EXCEPT ![r] = "lookup"]
    /\ UNCHANGED <<ask, hits, answer, recorder, life, mode, model, windowVars,
                   clusterVars, rows, settlements>>

(* A lookup that fails answers its own request and leaves the lock behind. *)
EndLookupLocked(r) ==
    /\ pc[r] = "lookup"
    /\ \/ /\ deployed
          /\ model' = "found" /\ once' = "spent"
          /\ pc' = [pc EXCEPT ![r] = "resolve"]
          /\ UNCHANGED answer
       \/ Reply(r, 502) /\ UNCHANGED <<model, once>>
    /\ UNCHANGED <<ask, hits, recorder, life, mode, windowVars, clusterVars, rows, settlements>>

(* The filters are put around the keyword subquery only.                   *)
FoundHalfFiltered(a) ==
    {h \in SUBSET Products : Cardinality(h) <= ResolvedSize(a)
                               /\ \E keyword \in Branch(a), semantic \in SUBSET Products :
                                     h = keyword \cup semantic}

(* The position comes from the length of a window that is full.            *)
ObserveByLength ==
    /\ total' = total + 1
    /\ samples' = IF Len(samples) < Capacity
                  THEN Append(samples, total')
                  ELSE [samples EXCEPT ![(Len(samples) % Capacity) + 1] = total']

(* search_request_id references nothing.                                   *)
BeginUnreferenced(r, p) ==
    /\ answer[r] = 200 /\ p \in hits[r]
    /\ ask[r].publisher \in Publishers
    /\ settlements' = settlements \cup {<<r, p>>}
    /\ UNCHANGED <<requestVars, recorder, processVars, clusterVars, rows>>

-----------------------------------------------------------------------------
(* handleSearch                                                            *)

Receive(r) ==
    /\ pc[r] = "new" /\ mode = "up"
    /\ IF ask[r].query /\ ask[r].publisher # Nobody
       THEN pc' = [pc EXCEPT ![r] = "resolve"] /\ UNCHANGED answer
       ELSE Reply(r, 400)
    /\ UNCHANGED <<ask, hits, recorder, processVars, clusterVars, rows, settlements>>

(* The first request looks the model up; the others wait for it.           *)
StartLookup(r) ==
    /\ pc[r] = "resolve" /\ once = "new"
    /\ once' = r
    /\ pc' = [pc EXCEPT ![r] = "lookup"]
    /\ UNCHANGED <<ask, hits, answer, recorder, life, mode, model, windowVars,
                   clusterVars, rows, settlements>>

LookupOutcome == {"error"} \cup (IF deployed THEN {"found"} ELSE {})

EndLookup(r) ==
    /\ pc[r] = "lookup"
    /\ model' \in LookupOutcome
    /\ once' = "spent"
    /\ pc' = [pc EXCEPT ![r] = "resolve"]
    /\ UNCHANGED <<ask, hits, answer, recorder, life, mode, windowVars,
                   clusterVars, rows, settlements>>

UseModel(r) ==
    /\ pc[r] = "resolve" /\ once = "spent"
    /\ IF model = "found"
       THEN pc' = [pc EXCEPT ![r] = "query"] /\ UNCHANGED answer
       ELSE Reply(r, 502)
    /\ UNCHANGED <<ask, hits, recorder, processVars, clusterVars, rows, settlements>>

(* The hybrid query: what its subqueries find together.                    *)
Found(a) ==
    {h \in SUBSET Products : Cardinality(h) <= ResolvedSize(a)
                               /\ \E keyword, semantic \in Branch(a) : h = keyword \cup semantic}

Query(r) ==
    /\ pc[r] = "query"
    /\ \/ /\ indexed
          /\ \E found \in Found(ask[r]) : hits' = [hits EXCEPT ![r] = found]
          /\ pc' = [pc EXCEPT ![r] = "mint"]
          /\ UNCHANGED answer
       \/ Reply(r, 502) /\ UNCHANGED hits
    /\ UNCHANGED <<ask, recorder, processVars, clusterVars, rows, settlements>>

(* latencyRecorder.observe of the observation numbered total'; samples[0]  *)
(* of the code is samples[1] here.                                         *)
Observe ==
    /\ total' = total + 1
    /\ samples' = IF Len(samples) < Capacity
                  THEN Append(samples, total')
                  ELSE [samples EXCEPT ![(total' % Capacity) + 1] = total']

(* One assertion for each hit, or none.  The listings table admits no rate *)
(* that Mint refuses; the index would.                                     *)
MintFails(r) ==
    /\ pc[r] = "mint"
    /\ hits[r] \cap OverRate # {}
    /\ Reply(r, 500)
    /\ UNCHANGED <<ask, hits, recorder, processVars, clusterVars, rows, settlements>>

MintAndAnswer(r) ==
    /\ pc[r] = "mint"
    /\ hits[r] \cap OverRate = {}
    /\ Observe
    /\ recorder' = [recorder EXCEPT ![r] = "pending"]
    /\ Reply(r, 200)
    /\ UNCHANGED <<ask, hits, life, mode, once, model, clusterVars, rows, settlements>>

(* The INSERT, which a missing publisher, its timeout or the database may  *)
(* refuse; nobody tries it again.                                          *)
RecordSearch(r) ==
    /\ recorder[r] = "pending"
    /\ \/ /\ ask[r].publisher \in Publishers
          /\ rows' = rows \cup {r}
          /\ recorder' = [recorder EXCEPT ![r] = "stored"]
       \/ /\ recorder' = [recorder EXCEPT ![r] = "lost"]
          /\ UNCHANGED rows
    /\ UNCHANGED <<requestVars, processVars, clusterVars, settlements>>

(* A search that is not followed leaves nothing but its latency.           *)
OtherSearch ==
    /\ mode # "down" /\ model = "found" /\ indexed
    /\ total < MaxObserved
    /\ Observe
    /\ UNCHANGED <<requestVars, recorder, life, mode, once, model,
                   clusterVars, rows, settlements>>

-----------------------------------------------------------------------------
(* The process                                                             *)

Stop ==
    /\ mode = "up"
    /\ mode' = "stopping"
    /\ UNCHANGED <<requestVars, recorder, life, once, model, windowVars,
                   clusterVars, rows, settlements>>

(* A crash, the end of the grace period, or main returning once the last   *)
(* handler has answered: nothing waits for the goroutines of recordSearch. *)
Die ==
    /\ mode # "down"
    /\ mode' = "down"
    /\ pc' = [r \in Requests |-> IF pc[r] \in InFlight THEN "over" ELSE pc[r]]
    /\ recorder' = [r \in Requests |-> IF recorder[r] = "pending" THEN "lost" ELSE recorder[r]]
    /\ UNCHANGED <<ask, hits, answer, life, once, model, windowVars,
                   clusterVars, rows, settlements>>

Restart ==
    /\ mode = "down" /\ life < MaxLives
    /\ life' = life + 1
    /\ mode' = "up"
    /\ once' = "new" /\ model' = "none"
    /\ total' = 0 /\ samples' = <<>>
    /\ UNCHANGED <<requestVars, recorder, clusterVars, rows, settlements>>

-----------------------------------------------------------------------------
(* Around it                                                               *)

(* An ingest run deploys the model, then builds the index.                 *)
Ingest ==
    /\ \/ ~deployed /\ deployed' = TRUE /\ UNCHANGED indexed
       \/ deployed /\ ~indexed /\ indexed' = TRUE /\ UNCHANGED deployed
    /\ UNCHANGED <<requestVars, recorder, processVars, rows, settlements>>

(* Store.Begin for an assertion of search r: its foreign keys refuse the   *)
(* row while the search is not recorded, and the claim rolls back with it. *)
Begin(r, p) ==
    /\ answer[r] = 200 /\ p \in hits[r]
    /\ ask[r].publisher \in Publishers
    /\ r \in rows
    /\ settlements' = settlements \cup {<<r, p>>}
    /\ UNCHANGED <<requestVars, recorder, processVars, clusterVars, rows>>

Handler(r) ==
    \/ StartLookup(r) \/ EndLookup(r) \/ UseModel(r)
    \/ Query(r) \/ MintFails(r) \/ MintAndAnswer(r)

Next ==
    \/ \E r \in Requests : Receive(r) \/ Handler(r) \/ RecordSearch(r)
    \/ OtherSearch
    \/ Stop \/ Die \/ Restart
    \/ Ingest
    \/ \E r \in Requests, p \in Products : Begin(r, p)

(* Handlers and the goroutines they start keep going: calls to OpenSearch  *)
(* end within requestTimeout and the INSERT within five seconds.           *)
Fairness == \A r \in Requests : WF_vars(Handler(r)) /\ WF_vars(RecordSearch(r))

Spec == Init /\ [][Next]_vars /\ Fairness

-----------------------------------------------------------------------------
(* Properties                                                              *)

(* Every variable holds a value of its kind.                               *)
TypeOK ==
    /\ pc \in [Requests -> InFlight \cup {"new", "over"}]
    /\ ask \in [Requests -> Asks]
    /\ hits \in [Requests -> SUBSET Products]
    /\ answer \in [Requests -> {0, 200, 400, 500, 502}]
    /\ recorder \in [Requests -> {"none", "pending", "stored", "lost"}]
    /\ life \in 1..MaxLives
    /\ mode \in {"up", "stopping", "down"}
    /\ once \in Requests \cup {"new", "spent"}
    /\ model \in {"none", "found", "error"}
    /\ total \in Nat
    /\ samples \in Seq(Nat) /\ Len(samples) <= Capacity
    /\ deployed \in BOOLEAN /\ indexed \in BOOLEAN
    /\ rows \subseteq Requests
    /\ settlements \subseteq Requests \X Products

(* However requests meet at the sync.Once, one of them at a time is inside *)
(* it, nobody queries without a model, and an answer it left stays until   *)
(* the process ends (embeddingModelID).                                    *)
OneLookup ==
    mode # "down" =>
        /\ \A r \in Requests : pc[r] = "lookup" <=> once = r
        /\ once = "spent" <=> model # "none"
        /\ \A r \in Requests : pc[r] \in {"query", "mint"} => model = "found"

(* What a search returns and mints assertions for passes its filters,      *)
(* whichever subquery found it, and is no more than it asks for: the size  *)
(* of its payload, the default one or the largest (BuildQuery,             *)
(* resolvedSize).                                                          *)
HitsPassFilters ==
    \A r \in Requests : /\ \A p \in hits[r] : Passes(ask[r], p)
                        /\ Cardinality(hits[r]) <= ResolvedSize(ask[r])

(* The latency window holds the latest observations, all of them once it   *)
(* has been overwritten as often as it was filled; while it is overwritten *)
(* for the first time it still holds the very first one in place of one    *)
(* that came later (latencyRecorder.observe).                              *)
LatestObservations == {n \in 1..total : n + Capacity > total}
Window == {samples[i] : i \in DOMAIN samples}
WindowIsRecent ==
    /\ Cardinality(Window) = Cardinality(LatestObservations)
    /\ Window \subseteq LatestObservations \cup {1}
    /\ total >= 2 * Capacity => Window = LatestObservations

(* A settlement leads back to the search it came from: the row is there,   *)
(* the search was answered and the product was among its results, whatever *)
(* was lost on the way (recordSearch, the foreign key of settlements).     *)
SettlementsTraceToSearch ==
    /\ \A r \in rows : answer[r] = 200 /\ recorder[r] = "stored"
    /\ \A s \in settlements : s[1] \in rows /\ s[2] \in hits[s[1]]

(* A request that was taken in ends, also when it waits for the lookup of  *)
(* another, and so does the recording of its search.                       *)
EverySearchEnds ==
    \A r \in Requests :
        /\ pc[r] \in InFlight ~> pc[r] = "over"
        /\ recorder[r] = "pending" ~> recorder[r] \in {"stored", "lost"}
=============================================================================
