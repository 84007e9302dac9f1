------------------------------- MODULE Runner -------------------------------
(***************************************************************************)
(* The purchase driver (simulator/src/driver.ts) and the population of     *)
(* agents it starts and stops (simulator/src/runner.ts).                   *)
(*                                                                         *)
(* The agents' loops run the same code, so the model counts them by where  *)
(* they are.  Everything between two awaits is one action: a start carries *)
(* each new loop into its first attempt, the end of an attempt carries its *)
(* loop into its sleep or out of the loop.  What an attempt does is        *)
(* Purchase's; here it has an outcome.  The queries are a constant list,   *)
(* and PublishersFirst says why runOnce always finds a publisher too.      *)
(* A share of fraud is none, some or all.  A concurrency may be a fraction *)
(* of an agent, so it is counted in halves.                                *)
(***************************************************************************)
EXTENDS Integers, FiniteSets

CONSTANTS
    MaxCalls,           \* requests to /start, /once and /stop
    Limit,              \* the most agents configure allows
    DefaultConcurrency,
    Patches,            \* the concurrencies callers ask for, in halves
    Rates,              \* the fraud rates they ask for
    Absent,             \* no such field in the body
    MaxStarted,         \* no loop begins another attempt after so many
    None                \* no request

(* Requests, numbered in the order they are read.                          *)
Calls     == 1..MaxCalls
Commands  == {"/start", "/once", "/stop"}
FraudRate == {"none", "some", "all"}

ASSUME DriverAssumption ==
    /\ MaxCalls \in Nat
    /\ Limit \in Nat \ {0}
    /\ DefaultConcurrency \in 1..Limit
    /\ Patches \subseteq Nat /\ Absent \notin Nat
    /\ Rates \subseteq FraudRate /\ Absent \notin FraudRate
    /\ MaxStarted \in Nat

VARIABLES
    \* driver.ts
    call,               \* each request: where its handler is
    asked,              \* its route and body
    loaded,             \* publishersLoaded
    \* Runner
    running, concurrency, fraudRate,
    honest, fraudulent, \* loops inside an honest attempt, a fraudulent one
    asleep,             \* loops between two attempts
    started, settled, blocked, failed,
    recorded            \* what byReason adds up to

stats   == <<settled, blocked, failed, recorded>>
options == <<concurrency, fraudRate>>
loops   == <<honest, fraudulent, asleep>>
vars    == <<call, asked, loaded, running, options, loops, started, stats>>

\* #active
Active == honest + fraudulent + asleep

(* A body that is null has no fields to ask for; one that does not parse   *)
(* is taken for an empty one.                                              *)
Requests == [route: Commands, body: {"object"},
             concurrency: Patches \cup {Absent}, fraudRate: Rates \cup {Absent}] \cup
            [route: Commands, body: {"null"}, concurrency: {Absent}, fraudRate: {Absent}]

-----------------------------------------------------------------------------
Init ==
    /\ call = [c \in Calls |-> "new"]
    /\ asked = [c \in Calls |-> None]
    /\ loaded = FALSE
    /\ running = FALSE
    /\ concurrency = 2 * DefaultConcurrency
    /\ fraudRate = "none"
    /\ honest = 0 /\ fraudulent = 0 /\ asleep = 0
    /\ started = 0
    /\ settled = 0 /\ blocked = 0 /\ failed = 0 /\ recorded = 0

Goes(c, where) == call' = [call EXCEPT ![c] = where]

Arrives(c) == call[c] = "new" /\ \A d \in Calls : d < c => call[d] # "new"

(* Of n attempts beginning now, how many may be fraudulent.                *)
Frauds(n, rate) == CASE rate = "none" -> {0} [] rate = "all" -> {n} [] rate = "some" -> 0..n

clamp(value) == IF value < 2 THEN 2 ELSE IF value > 2 * Limit THEN 2 * Limit ELSE value

(* start's loop over i < concurrency begins one for what is left over.     *)
Loops(halves) == (halves + 1) \div 2

configure(patch) ==
    /\ concurrency' = IF patch.concurrency = Absent THEN concurrency ELSE clamp(patch.concurrency)
    /\ fraudRate' = IF patch.fraudRate = Absent THEN fraudRate ELSE patch.fraudRate

-----------------------------------------------------------------------------
(***************************************************************************)
(* Mistakes.  Each operator here is a step of the program as a plausible   *)
(* bug would have it.  No specification uses them: they say which change   *)
(* of the code each property below is there to catch.                      *)
(***************************************************************************)

(* start does not look whether the agents are running.                     *)
startAnyway(c) ==
    /\ configure(asked[c])
    /\ running' = TRUE
    /\ Goes(c, "answered")
    /\ started' = started + Loops(concurrency')
    /\ \E k \in Frauds(Loops(concurrency'), fraudRate') :
          /\ fraudulent' = fraudulent + k
          /\ honest' = honest + (Loops(concurrency') - k)
    /\ UNCHANGED <<asleep, stats>>

(* A fraud that was accepted is recorded and not counted.                  *)
FraudAcceptedUncounted == recorded' = recorded + 1 /\ UNCHANGED <<settled, blocked, failed>>

(* A loop that wakes up does not look whether it was stopped.              *)
WakeUpAnyway ==
    /\ asleep > 0
    /\ started < MaxStarted
    /\ started' = started + 1
    /\ asleep' = asleep - 1
    /\ \E k \in Frauds(1, fraudRate) :
          /\ fraudulent' = fraudulent + k
          /\ honest' = honest + (1 - k)
    /\ UNCHANGED <<call, asked, loaded, running, options, stats>>

(* A loop that was stopped pauses until the next start.                    *)
PauseStopped ==
    /\ asleep > 0
    /\ ~running
    /\ UNCHANGED vars

-----------------------------------------------------------------------------
(* Each of the new loops is in its first attempt when start returns.       *)
start(c) ==
    /\ configure(asked[c])
    /\ running' = TRUE
    /\ Goes(c, "answered")
    /\ \/ running /\ UNCHANGED <<started, loops>>
       \/ /\ ~running
          /\ started' = started + Loops(concurrency')
          /\ \E k \in Frauds(Loops(concurrency'), fraudRate') :
                /\ fraudulent' = fraudulent + k
                /\ honest' = honest + (Loops(concurrency') - k)
          /\ UNCHANGED asleep
    /\ UNCHANGED stats

(* The one attempt of /once, outside every loop.                           *)
runOnce(c) ==
    /\ configure(asked[c])
    /\ \E k \in Frauds(1, fraudRate') : Goes(c, IF k = 1 THEN "fraudulent" ELSE "honest")
    /\ started' = started + 1
    /\ UNCHANGED <<running, loops, stats>>

(* A request whose body has been read: each starts or stops nothing until  *)
(* then.                                                                   *)
Receive(c, request) ==
    /\ Arrives(c)
    /\ request.route # "/stop"
    /\ asked' = [asked EXCEPT ![c] = request]
    /\ Goes(c, "read")
    /\ UNCHANGED <<loaded, running, options, loops, started, stats>>

stop(c) ==
    /\ Arrives(c)
    /\ running' = FALSE
    /\ Goes(c, "answered")
    /\ UNCHANGED <<asked, loaded, options, loops, started, stats>>

(* ensurePublishers asks the settlement service while nobody has an answer. *)
AskForPublishers(c) ==
    /\ call[c] = "read" /\ ~loaded
    /\ Goes(c, "loading")
    /\ UNCHANGED <<asked, loaded, running, options, loops, started, stats>>

NoPublishers(c) ==
    /\ call[c] = "loading"
    /\ Goes(c, "answered")
    /\ asked' = [asked EXCEPT ![c] = None]
    /\ UNCHANGED <<loaded, running, options, loops, started, stats>>

Perform(c) ==
    /\ \/ call[c] = "read" /\ loaded
       \/ call[c] = "loading"
    /\ asked[c].body = "object"
    /\ loaded' = TRUE
    /\ \/ asked[c].route = "/start" /\ start(c)
       \/ asked[c].route = "/once" /\ runOnce(c)
    /\ asked' = [asked EXCEPT ![c] = None]

(* An exception in the handler, which nobody awaits, ends the process: the *)
(* one started in its place knows nothing of its loops and counters.       *)
ProcessEnds(c) ==
    /\ call' = [d \in Calls |-> IF call[d] = "new" /\ d # c THEN "new" ELSE "answered"]
    /\ asked' = [d \in Calls |-> None]
    /\ loaded' = FALSE /\ running' = FALSE
    /\ concurrency' = 2 * DefaultConcurrency /\ fraudRate' = "none"
    /\ honest' = 0 /\ fraudulent' = 0 /\ asleep' = 0
    /\ started' = 0
    /\ settled' = 0 /\ blocked' = 0 /\ failed' = 0 /\ recorded' = 0

(* The connection breaks before the body has been read.                    *)
BodyCut(c) == Arrives(c) /\ ProcessEnds(c)

(* The fields of null are looked up once the publishers are known.         *)
NullBody(c) ==
    /\ \/ call[c] = "read" /\ loaded
       \/ call[c] = "loading"
    /\ asked[c].body = "null"
    /\ ProcessEnds(c)

-----------------------------------------------------------------------------
(* How an attempt ends.  Only an attempt that found nothing to buy leaves  *)
(* no reason; a fraud that was accepted counts as failed.                  *)
NothingToBuy  == failed' = failed + 1 /\ UNCHANGED <<settled, blocked, recorded>>
Settled       == settled' = settled + 1 /\ UNCHANGED <<blocked, failed, recorded>>
Refused       == failed' = failed + 1 /\ recorded' = recorded + 1 /\ UNCHANGED <<settled, blocked>>
FraudBlocked  == blocked' = blocked + 1 /\ recorded' = recorded + 1 /\ UNCHANGED <<settled, failed>>
FraudAccepted == failed' = failed + 1 /\ recorded' = recorded + 1 /\ UNCHANGED <<settled, blocked>>

HonestEnds == NothingToBuy \/ Settled \/ Refused
FraudEnds  == NothingToBuy \/ FraudAccepted \/ FraudBlocked

(* ... and its loop looks whether it was stopped meanwhile.                *)
SleepUnlessStopped == asleep' = IF running THEN asleep + 1 ELSE asleep

EndHonest ==
    /\ honest > 0
    /\ HonestEnds
    /\ honest' = honest - 1
    /\ SleepUnlessStopped
    /\ UNCHANGED <<call, asked, loaded, running, options, fraudulent, started>>

EndFraud ==
    /\ fraudulent > 0
    /\ FraudEnds
    /\ fraudulent' = fraudulent - 1
    /\ SleepUnlessStopped
    /\ UNCHANGED <<call, asked, loaded, running, options, honest, started>>

EndOnce(c) ==
    /\ \/ call[c] = "honest" /\ HonestEnds
       \/ call[c] = "fraudulent" /\ FraudEnds
    /\ Goes(c, "answered")
    /\ UNCHANGED <<asked, loaded, running, options, loops, started>>

WakeUp ==
    /\ asleep > 0
    /\ running
    /\ started < MaxStarted
    /\ started' = started + 1
    /\ asleep' = asleep - 1
    /\ \E k \in Frauds(1, fraudRate) :
          /\ fraudulent' = fraudulent + k
          /\ honest' = honest + (1 - k)
    /\ UNCHANGED <<call, asked, loaded, running, options, stats>>

WakeUpStopped ==
    /\ asleep > 0
    /\ ~running
    /\ asleep' = asleep - 1
    /\ UNCHANGED <<call, asked, loaded, running, options, honest, fraudulent, started, stats>>

Handler(c) ==
    \/ AskForPublishers(c) \/ NoPublishers(c) \/ Perform(c) \/ NullBody(c)
    \/ EndOnce(c)

Loop == EndHonest \/ EndFraud \/ WakeUp \/ WakeUpStopped

Next ==
    \/ \E c \in Calls :
          \/ \E request \in Requests : Receive(c, request)
          \/ stop(c)
          \/ BodyCut(c)
          \/ Handler(c)
    \/ Loop

(* Timers fire and requests, each with the timeouts of the services below, *)
(* end.                                                                    *)
Spec ==
    /\ Init /\ [][Next]_vars
    /\ \A c \in Calls : WF_vars(Handler(c))
    /\ WF_vars(EndHonest) /\ WF_vars(EndFraud)
    /\ WF_vars(WakeUp) /\ WF_vars(WakeUpStopped)

-----------------------------------------------------------------------------
(* Properties                                                              *)

InFlight == {c \in Calls : call[c] \in {"honest", "fraudulent"}}

(* Every variable holds a value of its kind; configure has kept the number *)
(* of agents within its limits.                                            *)
TypeOK ==
    /\ call \in [Calls -> {"new", "read", "loading", "honest", "fraudulent", "answered"}]
    /\ asked \in [Calls -> Requests \cup {None}]
    /\ \A c \in Calls : call[c] \in {"read", "loading"} =>
          asked[c] \in Requests /\ asked[c].route \in {"/start", "/once"}
    /\ loaded \in BOOLEAN /\ running \in BOOLEAN
    /\ concurrency \in 2..(2 * Limit)
    /\ fraudRate \in FraudRate
    /\ honest \in Nat /\ fraudulent \in Nat /\ asleep \in Nat
    /\ started \in Nat
    /\ settled \in Nat /\ blocked \in Nat /\ failed \in Nat /\ recorded \in Nat

(* Whatever mixture of single purchases and restarted populations is under *)
(* way, every attempt counted as started is in flight or counted once as   *)
(* settled, blocked or failed, and every blocked one has its reason        *)
(* (runOnce, handleFailure).                                               *)
CountersAddUp ==
    /\ started = settled + blocked + failed + honest + fraudulent + Cardinality(InFlight)
    /\ blocked <= recorded /\ recorded <= blocked + failed

(* No agent looks for a publisher before the publishers are known: nothing *)
(* runs until a request has loaded them (ensurePublishers).                *)
PublishersFirst ==
    running \/ Active > 0 \/ InFlight # {} => loaded

(* An operator who presses start again adds no agents: the population      *)
(* grows only when a start finds it stopped, and then by what was asked    *)
(* for (start).                                                            *)
OnlyAStartAddsAgents ==
    [][Active' > Active => ~running /\ running' /\ Active' = Active + Loops(concurrency')]_vars

(* After a stop no loop begins another attempt (loop).                     *)
StoppedLoopsBeginNothing ==
    [][honest' + fraudulent' > honest + fraudulent => running']_vars

(* A population that was stopped dies out, unless it is started again      *)
(* (loop, drain).                                                          *)
StoppedPopulationEnds == ~running ~> (running \/ Active = 0)

(* "Starting twice must not double the agent population": it never exceeds *)
(* what configure allows (clamp, start).                                   *)
PopulationIsNotDoubled == Active <= Limit
=============================================================================
