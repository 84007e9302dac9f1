# Agentic attribution: a verification project

TLA+ modules for the commission platform in `src/`: agents search a catalog, buy
from merchants over x402, and the publisher that led them there is paid a
commission. The modules are written from the code; the configurations check them
with TLC on small instances and the proof modules are checked by TLAPS for every
value of the constants.

## The system

| Part | Source | State | Operations |
| --- | --- | --- | --- |
| Settlement service | `internal/settlement`, `cmd/settlement` | none of its own; Postgres holds `consumed_assertions`, `settlements`, `ledger_entries`, `rejected_attempts` | `POST /settle`, `POST /rejections`, reports |
| Attribution | `internal/attribution`, `packages/types` | keys | mint and verify assertions, split a commission |
| Facilitator mock | `facilitator` | the nonces it has settled, an injected fault | `/verify`, `/settle`, `/fault` |
| Merchant | `merchant` | none; reads `listings` | the 402 challenge, the purchase, reports of refusals |
| Gateway | `gateway` | an imported key | proxies search and purchase, checks the assertion first |
| Search | `internal/search`, `cmd/search` | cached model id, latency window, `search_requests` | query, mint an assertion per product, record the search |
| Ingest | `internal/ingest`, `cmd/ingest` | listing partitions, OpenSearch indices and the alias | load, validate, swap, index, swap the alias |
| Purchase driver | `simulator` | loops and counters | start, stop, configure, one purchase |
| Generator, dashboard, smoke test | `internal/generator`, `app`, `simulator/src/smoke.ts` | none | seed files, pages, a scripted run |

An agent searches through the gateway and gets an assertion signed with a
commission rate. It asks the merchant for a challenge, signs an EIP-3009
authorization and sends both. Gateway and merchant check the assertion; the
settlement service checks it again, reads the listing, asks the facilitator to
verify the payment, claims the assertion and inserts a pending row in one
transaction, asks the facilitator to settle, and then confirms the row with three
ledger entries or marks it failed.

What is hard in it:

* two requests with one assertion, or one authorization, at once;
* a failure or a crash between the claim, the transfer and the outcome, and a
  transfer whose reply never arrives;
* a commit whose acknowledgement is lost;
* listings that change while a settlement is running;
* timeouts stacked on each other (gateway 30 s, merchant 45 s, two facilitator
  calls of 20 s, 30 s of shutdown grace);
* work done after the answer has gone out (recording searches and refusals);
* a catalog load that fails half way, or is run again over what the last one left;
* counters, caches and flags shared by requests that meet in the middle: the
  facilitator's nonces, the search service's `sync.Once`, the runner's loops.

What makes each part correct: an assertion is spent once, an authorization once
for each way its nonce is written, and tables, ledger and answers agree on it
(settlement); a price and a verdict
survive two proxies and their timeouts (gateway, merchant); readers see a whole
catalog and search never answers from half an index (ingest); what is minted can
be traced and passes the caller's filters (search); a transfer was owed
(facilitator); pressing start or stop does what it says (driver).

## The modules

| Module | Models |
| --- | --- |
| `Commission` | `CalculateCommission`, `effectiveCommissionBps`, the three ledger entries |
| `Settlement` | the settlement service, its tables and the facilitator it calls |
| `AttributionLedger` | the promise: what happens to one assertion, without requests or failures |
| `Assertion` | what the platform signs, how it is verified, and what `applyFraud` makes of it |
| `Purchase` | gateway, merchant and settlement as one purchase, their timeouts, the catalog that changes under them, the journal of refusals |
| `CatalogLoad` | the ingest pipeline, its tables, its index and the alias, run after run |
| `Catalog` | the promise: readers see whole catalogs, search follows the listings |
| `SearchService` | a search from request to record, the process around it, the settlement that spends it |
| `Payments` | what a payment is made of: a merchant's terms, an agent's authorization and signature, the conversions signer and verifier share |
| `Facilitator` | the mock's routes, the validation of a body, its checks in order, its nonces, its fault control |
| `Runner` | the driver's routes and the population of agents behind them |
| `MCSettlement`, `MCPurchase`, `MCCatalogLoad`, `MCSearchService`, `MCFacilitator`, `MCRunner` | instances for TLC |
| `CommissionProofs`, `SettlementProofs`, `SettlementRefinement`, `PurchaseProofs`, `CatalogLoadProofs`, `SearchServiceProofs`, `FacilitatorProofs`, `RunnerProofs` | what TLAPS proves |

`Settlement` extends `Commission` and looks at one service closely; `Purchase`
extends `Assertion` and looks at the services around it and has that service only in
the steps its callers can tell apart. The other modules each look at one part:
`CatalogLoad` at what changes the listings under both of them, `Facilitator` and
`SearchService` at the services they call or follow, `Runner` at what makes the
purchases. They share no variables; where one stands for another's part it says so
(`ReplaceListings` in `Settlement` and `Purchase` is `SwapPartitions`, `Begin` in
`SearchService` is the foreign key of `Settlement`'s claim, an attempt in `Runner`
is a purchase).

### Settlement

One process for each `POST /settle`. Its program counter names the step of
`Service.Settle` it stands before:

| `pc` | next in the code |
| --- | --- |
| `new` | decode the body, `Verifier.Verify` |
| `verified` | `Store.LookupListing` and the comparisons with the offer |
| `priced` | `Facilitator.Verify` |
| `cleared` | `Store.Begin` |
| `begun` | send `Facilitator.Settle` |
| `settling` | wait for its reply |
| `settled` | `Store.Confirm` |
| `voiding` | `Store.Fail` |
| `refusing` | `Store.RecordRejection`, then the response |
| `done`, `lost` | answered; died with the process |

`status`, `consumed`, `ledger` and `journal` are the tables. Each action is one
transaction, one statement or one message, because that is where another process,
a failure or a crash can come between. `terms` holds the columns of a row that are
fixed when the handler builds its `PendingSettlement`. The facilitator's side of a
settle call is `call` and `nonces`: a call, once sent, is handled whenever it
arrives, whether its caller still waits or not. A request says how it spells the
nonce of its authorization (`spelling`): a signature covers the bytes, so any
spelling of a genuine authorization verifies, and `nonces` holds the texts
(`NonceText`), because that is what `NonceLedger` compares.

`journal` is `rejected_attempts`, which two services write: `handleSettle`
(`Journal`), and the merchant through `POST /rejections` for whatever it was
answered without a 402, internal errors included (`MerchantReports`). A report may
come at any time after the answer, or never. A refusal whose body is cut reaches
the merchant as a status, and it then reports `settlement_unavailable`; that is
part of `lost_reply`. What the merchant refuses on its own, before it calls
`/settle`, is in `Purchase`.

`Faults` switches failures on:

| Fault | In the code |
| --- | --- |
| `store` | a query, statement or transaction returns an error and changes nothing |
| `lost_ack` | the transaction of `Begin` or `Confirm` commits and `Commit` returns an error |
| `lost_reply` | a facilitator call fails for its caller: timeout, broken connection, status other than 200; the merchant gets a refusal's status and not its body |
| `crash` | the settlement service dies and comes back; handlers are gone, tables and calls stay |
| `amnesia` | the mock facilitator restarts and its nonces are gone |

Abstractions: signatures are membership in `Genuine`; a request names the one
product and merchant of the model, since requests for other listings share only
the assertion and the authorization, which are modelled; payments are compared by
the facilitator, so its verify call may refuse any of them; the clock is `Expire`.
The JSON, the log and the tables' descriptive columns are left out. Integers are
unbounded: a product of gross and rate overflows `int64` only for a gross above
9 * 10^14 cents, and the gross has to equal a listing's price first.

The section "Mistakes", here and in the other modules, holds steps as a plausible
bug would have them. No specification uses them; each is the change one of the
properties is there to catch.

### AttributionLedger

Five sets over assertions: claimed, moved, paid, void and the postings. Claim
once; move value once and under a claim; end at most once, as paid (with one
balanced posting, at a rate no higher than the signed one) or as void. A void
assertion may still see its value move: that is what the code does, and the first
finding below is about it. `Settlement!KeepsPromise` maps the tables and the
facilitator to these sets.

### Assertion and Purchase

`Assertion` has no variables. An assertion is a record of the seven signed fields
and a signature, and a signature is what the platform's key made it over:
`CanonicalizeForSigning`, the fields without the signature, or nothing. `Signed`
compares that with the fields as they are now, so an assertion that was changed
after it was minted is invalid because it was changed, and not by declaration; that
nobody else makes the platform's signatures is what Ed25519 is assumed to give.
`AssertionFault` is `verifyAssertion`, in its order, and the Go verifier for the
settlement service, which answers with two reasons only. `ApplyFraud` is
`applyFraud`.

`Purchase` has three processes for each purchase, in the services it passes through:

| Variable | Values | In the code |
| --- | --- | --- |
| `client` | `idle`, `quoted`, `sent`, `waiting`, `done` | `Agent.purchase`, and the gateway's `handle` from `sent` on |
| `merchant` | `idle`, `finding`, `checking`, `settling`, `done` | `PurchaseHandler.handle`: the query, the checks, the wait for settlement |
| `service` | `idle`, `received`, `verified`, `priced`, `cleared`, `claimed`, `done` | `Service.Settle` |

`Agents` are purchases made by the simulator's `Agent`, which asks for a challenge
and signs what it was asked for; `fraud` says which mode of `applyFraud` its runner
has drawn, if any, and `SignAndPay` is where the assertion is rewritten. `Direct` go
past the gateway to the merchant's own port. The others send what `OtherRequests`
holds, through the gateway. A request is a route, a body as its readers tell it
apart (a product, JSON without one, no JSON, over the merchant's limit, over the
gateway's), an assertion header that is missing, garbled or an assertion, and a
payment: how far it decodes, its value and whether it goes to the merchant. Checks
that refuse without a difference to any state (network, asset, validity window)
are left out: `FacilitatorVerify` may refuse any payment.

`clock` counts hours, the life of an assertion is one. Each of the three
verifications reads it at its own time, the merchant's before its query (`arrived`).
`EdgeFault`, `RequestFault`, `HeaderFault` and `MerchantFault` give the first check
of a service that refuses. Answers without a reason (`Plain`) and an exception that
ends in the catch around a handler (`merchant_error`, `gateway_error`) are not
reported to the journal, the others are. `MerchantHearsHalf` is the merchant
reading a refusal's status and failing at its body: it answers and reports
`settlement_unavailable`, with that status. Since the settlement behind it may be
confirmed (a `Confirm` that fails or goes unacknowledged is an internal error), it
is one of the answers that leave the outcome open (`Inconclusive`).

`listings` is replaced by another of the `Feeds` at any time. The merchant keeps
the listing it read in `found` and sends its price on as `gross`. A report to
`POST /rejections` is in `outbox` until it is handled, in any order; the fetch is
not awaited, so it may also be lost. When the merchant gives up it closes the
connection, which cancels the request context in the settlement service, so from
then on any of its statements and calls may fail (`Failing`). Writing a refusal to
the journal is part of the step that answers, since nothing in the system reads
the journal in between. A `Confirm` that fails and a transfer whose reply is lost
are in `Settle` and `SettleFails`; how they come about is in module `Settlement`.

| Fault | In the code |
| --- | --- |
| `store` | a statement fails, or commits and seems to have failed |
| `lost_reply` | a facilitator call fails for the settlement service |
| `timeout` | the gateway (30 s) or the merchant (45 s) gives up, or reads half of an answer; a report is not delivered |

### CatalogLoad and Catalog

One run of `Pipeline.Run` after another over three stores. `pc` names the next
statement or request whose effect outlives the run:

| `pc` | next in the code |
| --- | --- |
| `waiting`, `reference` | `WaitForCluster`, `LoadReference` |
| `stage`, `validate` | `listings_staging` filled, `validateStaging` |
| `build`, `swap` | `buildReplacementPartitions`, one table at a time; `swapPartitions`, one transaction |
| `model` | `RegisterEmbeddingModel` or `DeployedModelID` |
| `create`, `put` | the `DELETE` and the `PUT` of `CreateVersionedIndex` |
| `count`, `embed`, `bulk` | `CountProducts` and the cursor of `Stream`, `Embed`, `BulkIndex`, batch by batch |
| `settings`, `refresh`, `check` | `FinalizeIndex`, `CountDocuments` against the expected number |
| `alias`, `delete`, `drop` | `SwapAlias`, `DeleteIndex` of each retired index, `DropRetiredPartitions` |

`staging`, `next`, `live` and `prev` are the tables, each holding a feed's rows or
not there; `index` and `alias` are OpenSearch's. The pipeline undoes nothing on an
error, so one action, `Fail`, is a validation that refuses, an error, a signal and
a kill. What a run leaves behind the next one finds. `Rejected` is a request shed
under load, with any part of a bulk request done; `retryUnderPressure` repeats it
until `Attempts` are used up. The query of the cursor reads one snapshot. `Embed`
splits a batch further in the code; its sub-batches write nothing and are left out,
as is the search pipeline, a constant that every run puts again. Prices and titles
are left out.

`swapPartitions` first drops the generation it had retained before (`prev`), then
retains the one it replaces. Two runs that fail after their swaps can therefore
leave search answering from a load that is in neither `live` nor `prev`, and
`OneGenerationIsKept` does not claim otherwise: it says what search answers from,
while it is live, survives the swap, and that retained tables go only when search
has moved past them or another whole generation is retained in their place.

`Catalog` has two variables, what the listings are and what search answers from.
The listings change as a whole; search moves only to the listings that are live
then. `KeepsPromise` maps the live partitions and the index behind the alias to
them, so that partitions swapped one by one, or an index built from an older load,
would be steps the abstraction does not have.

### SearchService

Two kinds of processes: the handler of a `POST /search`, and the goroutine it
starts to record the search after it has answered.

| Variable | In the code |
| --- | --- |
| `pc` | `handleSearch`: `resolve` and `lookup` around `modelOnce.Do`, `query`, `mint` |
| `once`, `model` | `modelOnce`, and what it left in `modelID` and `modelErr` |
| `recorder` | the goroutine of `recordSearch` |
| `total`, `samples` | `latencyRecorder`, with observations numbered |
| `rows`, `settlements` | `search_requests`, and settlement rows by search and product |
| `mode`, `life` | running, told to stop, down; how often it was started |

A process that ends takes its handlers and recorders with it: `main` waits for
handlers within its grace period, and for recorders not at all. `Begin` is the claim
of `Settlement` seen from here: it needs the search's row and its publisher's, by
foreign key, so a settlement that comes before the recorder fails and one whose
recorder was lost fails always. Minting takes the best rate of each hit from the
index, and one above 10000 basis points (`OverRate`), which the listings table
refuses and the index does not, is answered 500 (`MintFails`). Scoring is left out:
either subquery may find any set of documents behind its filters.

### Payments and Facilitator

`Payments` has no variables. It holds what three programs have to agree on: the
terms a merchant writes (`RequirementsFor`), what an agent signs for them
(`SignAuthorization`) and how both it and the facilitator turn the wire's strings
into the message that is hashed (`ToTypedMessage`). A field is a number, `Unreadable`
for a string that is none, or `Absent`. A signature says who made it over which
digest, and whether its bytes can be a signature at all; that nobody else can make
it is what ECDSA is assumed to give. Case of addresses is left out. That of a nonce
is not: `Bytes32` maps each text to the bytes it spells, `ToTypedMessage` puts the
bytes into the message, and the ledger of nonces keeps the text. So two texts of
one nonce are one to the signature and two to the ledger.

In `Facilitator` a call is two steps, because `handle` awaits the signature check
and everything else runs to its end: `Receive` reads the fault, the route, the body
and the clock, and `AnswerVerify`, `RejectSettle` or `Settle` do the rest. A body
that is no JSON or lacks what verification reads without a catch is refused by
`WellFormed`. `Verdict` gives the first of eleven checks that fails, in the order
of `verifyPayment`; the fifth is the comparison that throws when there is no payee.
A restart forgets nonces and faults. `SpellingsTransferOnce` is what single use
comes to: one transfer for each text, so for an authorization at most as many as
its nonce has spellings.

### Runner

Loops run the same code and share everything, so the model counts them:
`honest` and `fraudulent` in an attempt, `asleep` in a pause. Between two awaits
JavaScript runs alone, so `start` carries its new loops into their first attempts
and the end of an attempt takes its loop to its pause or out. `call` follows the
requests to the driver through `readBody` and `ensurePublishers`. `Rates` are the
shares of fraud a caller may ask for. `numberOr` and `clamp` let a fraction through,
so concurrency is counted in halves and `Loops` rounds up, as the loop over
`i < concurrency` does. A body that breaks off (`BodyCut`) or is the JSON value
`null` (`NullBody`) throws in a handler that nothing catches; the process ends and
comes back with nothing (`ProcessEnds`). An attempt has one of the outcomes
`runOnce` distinguishes. It counts itself settled before it reads the fields of the
answer (`runner.ts:194`); a 200 whose body is `null` would throw after that and be
counted twice, but the merchant answers a 200 with an object, so the model has no
such answer.

## The checks

| Run | Question | Instance |
| --- | --- | --- |
| `settlement_faults` | does an assertion settle and pay at most once, do claims, rows, ledger, journal, answers and transfers agree, and does what is final stay, whatever fails? | two requests, a genuine and a forged assertion, two authorizations, offers in the right and the wrong currency and of zero cents, six states of the listing, all faults |
| `settlement_refines` | does the service keep the ledger's promise, and what does it take to transfer an authorization twice? | two requests, two genuine assertions, two spellings of a nonce, all faults but `amnesia` |
| `settlement_answers` | is every accepted request answered, and does its settlement end? | two requests, lost replies and crashes, fair handlers |
| `purchase_client` | is a purchase sent to the gateway answered, and has a client that is refused paid nothing? | one client of the gateway, nine kinds of headers and payments, every route and body, three assertions nobody signed, an hour, six states of the listings, all faults, a fair gateway |
| `purchase_replay` | is what is settled what the buyer signed and was quoted, is an order paid and attributed once, does what an agent forges stop at the gateway, and do the reasons journalled for it ever conflict? | an agent in every fraud mode and in none, and a client at the merchant's own port who may hold the same assertion, one for another product or none; an hour; a price that moves up and down; all faults |
| `catalog_load` | do readers always see a whole catalog, does success move both stores, is a generation of each store always kept, does every run end? | three runs, four feeds (two good, one empty, one naming an unknown product), two partitions, three products, batches of two, two attempts |
| `search_service` | is the model looked up once, do results pass the filters, is the latency window recent, does a settlement lead back to its search, does every search end? | two requests over five payloads, three products of which one cannot be minted for, two lives, a window of two, other searches until four are observed |
| `facilitator` | does each spelling of a nonce transfer once, was every transfer owed, do verify and settle agree, is what an agent signed for a merchant's terms accepted? | two calls of either route, or of none, over fifteen bodies, a clock that passes a payment's window on both sides, two uses of the fault control, one restart |
| `runner` | do the counters add up, does only a start that finds the agents stopped add any, does a stopped population end? | three requests, at most two agents, pauses that end while fewer than three attempts have begun |

Bounds. The interactions of the settlement service are between two requests that
share an assertion or an authorization, and two show them; that a third does not
bring back what two lost is proved. Two authorizations let requests share one or
not. The listing goes through every state that `Settle` compares (absent, sold
out, repriced, another rate, free), and 999 cents at 1250 basis points truncates
in both divisions. No counter of these runs is unbounded, so none is cut short.
The proofs below do not depend on the bounds.

In `Purchase` two clients meet only in an assertion they share, and one client is
enough for what happens along a single path; so there is an instance with many
headers and listings and one client, and one with two clients and fewer of each.
Six listings cover the ways in which a load can come between two reads: the price
rises, another merchant undercuts it, the product is sold out, free or gone. Both
products cost the same to begin with, so that a wrong product is not caught by its
price. `EndOfTime = 1` is one hour, in which every assertion of the instance expires
between any two of the three verifications; nothing in the code looks at a second.

`catalog_load`: a run meets what the one before it left and search may be two runs
behind, so `MaxRuns = 3` lets a success follow a failure follow a success. Three
products in batches of two make two batches, `Attempts = 2` a retry that succeeds
and one that does not. The products two feeds share and the one only the second has
tell a new index from an old one. `search_service`: two requests are enough to wait
for one another; `MaxObserved` fills a window of two, overwrites it once and again,
and two lives show what a restart forgets. `facilitator`: the clock counts minutes,
`Backdate` is one and `PaymentTimeout` two, so the clock passes both ends of a
payment signed at 1 and reaches both of one signed at 2; two calls can share a
nonce, a payment, or neither. `runner`: `MaxCalls = 3` is start, stop, start;
`MaxStarted` ends the wakings, not the attempts, so that the totals stay finite.

Every safety property that a run checks is also proved, or a conjunct of an
invariant that is, except `HitsPassFilters`, which TLC compares with the two
subqueries of `Found`; those of `CatalogLoad` other than `ListingsAreOneFeed` under the
assumption that no version is used twice. So the bounds matter for the liveness
properties and for the mistakes only. The type invariants of the modules are
proved, and no run checks them again.

Fairness. In `Settlement`, `FairSpec` is weak fairness of each handler once its
request has been accepted: a goroutine runs on unless the process dies, and the HTTP
client's timeout (`facilitatorTimeout`, 20 s) ends each wait, which is why
`SettleUnavailable` counts as a step of the handler. Nothing is assumed of the
facilitator, the loads, the clock or the crashes. A handler's
statements end with the request's context or with the database. Both liveness properties are checked without
`store` and `lost_ack`: `EverySettlementResolves` would be false with them, since a
row whose `Fail` or `Confirm` failed stays pending. It also excepts the handlers
that died: nothing in the code goes back to such a row. In `Purchase`, `FairSpec` is
weak fairness of the gateway for each purchase: its event loop runs what is ready,
and the timeout on its fetch always fires. Nothing is assumed of the merchant or of
what is behind it, so `GatewayAnswers` holds in front of services that hang. It does
not hold of `Direct` clients, for the merchant's query has no timeout. `CatalogLoad`
has weak fairness of the current run: it is one thread, and its calls to OpenSearch
time out. Its calls to Postgres have no limit of their own and end with the signal's
context only, so `EveryRunEnds` assumes a database that answers or breaks the
connection; that a run fails is as good an end as that it succeeds. `SearchService`
has it of each handler and each recorder, whose calls end with the timeout of the
client or the five seconds of `recordSearch`; a handler that waits in `modelOnce.Do`
is not asked to move until the one inside has left. `Runner` has it of the timers
and of attempts, which end because every request below them does; nothing makes
anybody press stop. `Facilitator` has no liveness property.

Where code and comments differ, a run shows it:

| Run | Said | Done |
| --- | --- | --- |
| `failed_was_not_paid` | `reports.go:34`, `README.md:276`: of a failed settlement "nobody got paid" | a call that times out marks the row failed while the transfer goes through |
| `rerun_moves_search` | `pipeline.go:208`: before the alias swap everything is invisible to readers | a run under the version that is live deletes its index, and the alias with it, before it builds the new one |
| `population_doubles` | `runner.test.ts:324`: starting twice must not double the agent population | stop only clears a flag; a start while an old loop is still in its attempt or its pause adds a second population |

Met while modelling, without a run of their own:

* `service.go:75` says a failure after the claim leaves a failed settlement; when
  `Confirm` or `Fail` itself errors the row stays pending.
* `reports.go:34` and `README.md:273` say failed is distinct from blocked; refusals
  after the claim are journalled as rejected attempts too.
* `docs/adr/0010-live-agent-driver.md:24` has an attempt written at a single point;
  the merchant reports the refusals that settlement has journalled already.
* `handler.go:128` of settlement keeps internal errors out of the journal, for they
  are no blocked fraud; the merchant reports them to `/rejections`
  (`merchant/src/index.ts:61`), also when the settlement was confirmed and only the
  acknowledgement was lost, and so they are counted as blocked.
* `merchant/src/settlement.ts:99` gives a refusal it cannot read the reason
  `settlement_unavailable` and the status it came with, so an internal error over a
  confirmed settlement, or a definite refusal, is answered and journalled under a
  second name (`ReasonsNeverConflict` states what holds).
* `facilitator/src/handler.ts:69` says a replayed authorization fails rather than
  transferring twice; that holds of a nonce's text (`handler.ts:223`), while
  `verify.ts:115` checks the bytes, so the same authorization with its nonce in
  another case is transferred again if it comes with another assertion.
* `postgres.go:412` says the retained partitions stay until the index swap
  succeeds; the next run's swap drops them at `postgres.go:394`, also when the run
  between failed before its index swap.
* `driver.ts:79` reads a body without a catch and `driver.ts:122` reads its fields;
  a connection that breaks or a body of `null` ends the process.
* `merchant/src/index.ts:50` says an attempt naming no publisher deserves a row; an
  empty `publisher_id` passes `??` and the report is answered 400.
* `fraud.ts:21` lists the reasons the platform answers with; the gateway has its own
  names for them and is first.
* `cmd/settlement/main.go:27` says a settlement holds its connection across a
  facilitator round trip; `Begin` commits before the call.
* `service.go:60` of search says the model is resolved at startup; it is at the
  first search, and an error is kept too.
* A purchase can be quicker than `recordSearch`; its settlement then fails on the
  foreign key and is answered `internal_error`.
* The first overwrite of the latency window skips slot 0, so the oldest sample
  outlives others (`WindowIsRecent` states what holds).
* `facilitator/src/handler.ts:299` says a bad field of the payload answers
  `malformed_payload` with a 200; a payload without `to` throws in `sameAddress`
  (`verify.ts:94`), outside of the `try`, and is answered 500.
* `fraud.ts:24` expects `assertion_expired` of the mode that changes the dates; the
  dates are signed, so the signature check refuses it first.
* `opensearch.go:526` says refresh first; `FinalizeIndex` puts the settings first.
* `runner.ts:84` says concurrency changes while running; `configure` stores it and
  no loop is added or ended until the next start.
* A stop that arrives while a start waits for the publishers is overtaken by it, and
  `drain` does not wait for a purchase of `/once`.

## The proofs

For `Settlement`. Assumed of the constants: `Genuine` is a subset of the assertions,
the signed rates and the listings' rates are basis points, offers have whole
amounts, and `Faults` names faults. Nothing is assumed of the number of requests,
and no set has to be finite.

`IInv` is inductive. The properties alone are not: that a 200 is true depends on
where its handler is, so `AnswersFollowHandlers` ties answers to program counters;
that a row is settled once depends on the handler at its row being the only one,
which is `RowsFollowHandlers`; that a row of the journal tells the truth about its
settlement needs `JournalFollowsHandlers`, for each of its two writers; and that a
posting is within the signed rate needs `RatesAreKnown` for the terms before they
become a row. `SettlementProofs` shows that `Init` implies `IInv` and that each
action keeps it, grouped by what they change, and reads the properties off it.
`CommissionProofs` supplies the arithmetic: the split is exact and monotone in the
rate. `SettlementRefinement` uses `IInv` to match each step of the service with a
step of the ledger.

For `Purchase`. Assumed of the constants: agents and direct clients are different
purchases; the headers that stand for no assertion are none; what searches have
answered with was made by `Mint`, with fresh identifiers, for a product there is
(`MintedAssumption`); whatever else a client presents carries no signature of the
platform over its fields (`UnforgeableAssumption`); and no minted assertion names
the publisher or the rate that `fraud.ts` puts in (`AttackerAssumption`: the
publisher does not exist and the rate is none of the catalog's). What `applyFraud`
makes is not covered by an assumption: `FraudBreaksSignature` shows that a mode
changes a signed field or takes the signature away, except that the mode `expired`
may hit the very dates of an assertion that was minted three hours ago, and that
one has expired. So `FraudIsRefused` holds at any time from then on.
`Purchase!IInv` follows a verdict out of the settlement service and a price
into it: `TermsAgree` says that whatever reaches settlement was signed for, at
the price the merchant read; `AgentsHoldTheirSlip` and `ForgeriesStopAtTheEdge`
what an agent holds before it signs, and that a forgery is still in front of the
gateway or has been refused by it; `RowsFollowService` and `ClaimsAreUnique` what a
verdict says of the row, the claim and the transfer; `RepliesFollowVerdicts` and
`AnswersFollowReplies` that each service passes on what it heard or an answer that
claims nothing; `ReportsFollowHandlers` that a report in flight or in the journal
has somebody who gave that reason. Without the last three the properties about
answers and the journal cannot be shown for the step that writes them, because
the state that justifies them is in another service. `TypeOK` alone is not
inductive either: a garbled header is kept out of `consumed_assertions` only by
`TermsAgree`.

| Theorem of `PurchaseProofs` | For all constants |
| --- | --- |
| `InvariantHolds`, `TypeCorrect` | the inductive invariant and the type invariant |
| `PriceIsTheBuyers` | a row is for what was signed, and for an Agent what was quoted |
| `OrdersArePaidAndAttributed` | an order has a paid settlement, a genuine assertion for its product, and no other order shares it |
| `FraudIsRefused` | whatever `applyFraud` makes of a minted assertion is refused, in every mode, from then on |
| `ForgeriesStayOutside` | a cheating agent gets no further than the gateway; every claim is a settlement of a minted assertion |
| `RefusalsAreFree` | a definite refusal has moved nothing |
| `ReasonsAgree` | two reasons of a purchase differ only where the merchant could not read the service's |

For `CatalogLoad`. Assumed: products are a finite set of numbers, what feeds
provide and list are functions, counts are positive. Nothing is assumed of the
number of partitions, feeds, runs or attempts. Two invariants build on each other:
`IInv` holds with or without reused versions: `TablesInv` says that while a run
builds, the partitions it has passed hold the staged feed (without that,
`ListingsAreOneFeed` cannot survive the swap) and that a feed past validation
lists known products; `IndexInv` that what the index holds, the batch and what the
cursor has left add up to the rows that are live. `AliasInv` needs `~Reuse`: the
index a run writes is not behind the alias before the swap and alone there after
it, and the one behind the alias is complete. The count that
`Run` compares is then not needed for the property, but the code has it for what
the model cannot see. `ImplementsCatalog` matches `SwapPartitions` and
`SwapAlias` with the two steps of `Catalog` and every other step with a stutter.
With reused versions `OnlyTheSwapMovesSearch` is false, as the run
`rerun_moves_search` shows, so `AliasInv` cannot be had there.

For `SearchService`, whose set of products is finite: `LookupInv` adds to
`OneLookup` that a process that is down has no handler, without which the restart
would break it; `RecordsInv` that only an answered search is recorded and that an
answered one finds nothing more, which is what keeps a settlement's product among
the hits of its search. `WindowIsRecent` needs `SlotsInv`: a slot holds an
observation whose number leaves the slot's as its remainder, and none that a later
one should have overwritten. Its lemmas are about remainders: one round of the
window leads to the same slot (`OnceRound`), and two numbers in one slot that are
less than a round apart are the same (`RemainderIsUnique`), so the slots hold
different observations, and no old ones.

For `Facilitator`: what is known of a digest's transfers is a count of texts:
different transfers had different texts, and all of those spell the bytes that were
signed, which bounds their number (`AtMostOncePerSpelling`). `TransfersInv` says of
each transfer that its call is over, was answered `settled` and had the verdict
`valid` at the time it came in, so that neither the clock nor a later call changes
it; the order of the checks enters through `ValidMeansAllHold`. `AnswersInv` adds
that every answer about a payment is the verdict at the time its call came in, or
says that the nonce was spent; then `VerdictsOnlyAge` follows from
`OnlyTimeChangesVerdicts`, where only the two checks that look at the clock can
turn, and each in one direction. `HonestPaymentIsValid` goes through the eleven
checks for a payment that `SignAuthorization` made, and `HonestPaymentsAreAccepted`
carries it to the answers. For `Runner`: `TypeOK`, the counters and
`PublishersFirst` are inductive together.

| Theorem of the other modules | For all constants |
| --- | --- |
| `SplitIsExact` | the shares add up to the commission |
| `TypeCorrect`, `InvariantHolds` of `SettlementProofs` | the type invariant and the inductive one |
| `SingleUseHolds`, `ClaimsMatch`, `AssertionPaysOnce` | an assertion is claimed with exactly one row and pays once |
| `RowsFollow` | value moves only after the claim, and rows are where their handlers are |
| `ConfirmedIsPaid`, `LedgerMirrors`, `LedgerIsBalanced` | the ledger posts what was paid, once, balanced, within the signed rate |
| `RefusalsAreFree`, `AnswersHold`, `JournalIsTrue` | what callers and the journal are told is true |
| `OutcomesStay` | nothing final is taken back |
| `ReplaysMeetBoth` | if the facilitator does not forget, a second transfer of an authorization had another assertion and another spelling |
| `ImplementsLedger` | the refinement of `AttributionLedger` |
| `ListingsAreWhole` | the live listings are one validated feed |
| `SearchStaysComplete`, `SuccessIsWhole`, `OneGenerationStays`, `SearchMovesOnce`, `ImplementsCatalog` | without reused versions: search answers from a finished index, success moves both stores, one generation can be put back, only the alias swap moves search, and the refinement of `Catalog` |
| `LookupHappensOnce`, `SettlementsAreTraceable` | one lookup at a time, and settlements that lead back to recorded searches |
| `WindowStaysRecent` | the latency window holds as many recent observations as it has slots |
| `SpellingIsSpentOnce`, `OnlyOwedIsTransferred` | one transfer for each text of a nonce, and only of what was owed |
| `VerdictsAge`, `HonestPaymentsAreAccepted` | verdicts change with time and nonces only, and what an agent signed for a merchant is accepted in its window |
| `BooksBalance`, `PublishersKnown`, `StartAndStop` | attempts are counted once, begin with publishers known, and only a start adds agents |

Only model-checked: the liveness properties, since fairness and `ENABLED` are out
of the prover's reach. `TypeCorrect` proves the type invariant of each module with
variables but the abstract ones.

## Not modelled

Because there is nothing for a model checker in it: the generator (a pure function
of its seed), the PHP dashboard (presentation), key handling and the arithmetic of
signatures (cryptography: a signature is what it was made over), the text of
queries, the smoke test, the health endpoints. The settlement reports are read-only
queries over the ledger and add no state.

Because the model would have to count what it does not: the 30 s of shutdown grace
against two facilitator calls of 20 s, and the eight connections of the pool. A
process that ends in the middle of a settlement is a crash of `Settlement`, and a
statement that cannot get a connection is one that fails.

Because the code promises nothing: two runs of the pipeline at once share the
staging and next tables and nothing locks one of them out; `listings_staging` is
`UNLOGGED`, so a crash of Postgres may empty it. The crash also breaks the
connection of the run, whose next statement fails, and the next run drops the
table; a run that stalled until its pool had reconnected would build empty
partitions, and that is not modelled.

What could follow: a refinement of the settlement service in `Purchase` by the one
in `Settlement`, which would tie those two modules together, and one of `Settlement`'s
facilitator by `Facilitator`.
