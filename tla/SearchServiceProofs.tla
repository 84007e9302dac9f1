------------------------- MODULE SearchServiceProofs ------------------------
(***************************************************************************)
(* What TLAPS proves of SearchService, for any requests, payloads,         *)
(* catalog, sizes and number of restarts.                                  *)
(***************************************************************************)
EXTENDS SearchService, FiniteSetTheorems, TLAPS

(***************************************************************************)
(* What the handlers and their recorders hold.                             *)
(***************************************************************************)
TypesInv ==
    /\ pc \in [Requests -> InFlight \cup {"new", "over"}]
    /\ ask \in [Requests -> Asks]
    /\ hits \in [Requests -> SUBSET Products]
    /\ answer \in [Requests -> {0, 200, 400, 500, 502}]
    /\ recorder \in [Requests -> {"none", "pending", "stored", "lost"}]
    /\ mode \in {"up", "stopping", "down"}
    /\ once \in Requests \cup {"new", "spent"}
    /\ model \in {"none", "found", "error"}
    /\ rows \subseteq Requests
    /\ settlements \subseteq Requests \X Products

(***************************************************************************)
(* OneLookup, and what makes it true again after a restart: a process that *)
(* is down has no handler.                                                 *)
(***************************************************************************)
LookupInv ==
    /\ OneLookup
    /\ mode = "down" => \A r \in Requests : pc[r] \notin InFlight

(***************************************************************************)
(* A search is recorded once it has been answered, and a request that has  *)
(* been answered finds nothing more.                                       *)
(***************************************************************************)
RecordsInv ==
    /\ \A r \in Requests : recorder[r] # "none" => pc[r] = "over" /\ answer[r] = 200
    /\ \A r \in Requests : answer[r] # 0 => pc[r] = "over"
    /\ SettlementsTraceToSearch

IInv == TypesInv /\ LookupInv /\ RecordsInv

(***************************************************************************)
(* A process that has just started has answered nothing.                   *)
(***************************************************************************)
LEMMA InitHolds == Init => IInv
PROOF
<1> SUFFICES ASSUME Init PROVE IInv
  OBVIOUS
<1>1. TypesInv
  BY DEF Init, TypesInv
<1>2. LookupInv
  BY SearchAssumption DEF Init, LookupInv, OneLookup, InFlight
<1>3. RecordsInv
  BY DEF Init, RecordsInv, SettlementsTraceToSearch
<1>. QED
  BY <1>1, <1>2, <1>3 DEF IInv

(***************************************************************************)
(* Every step leaves values of their kinds.                                *)
(***************************************************************************)
LEMMA TypesKept == IInv /\ [Next]_vars => TypesInv'
PROOF
<1> SUFFICES ASSUME IInv, [Next]_vars PROVE TypesInv'
  OBVIOUS
<1> USE DEF IInv, TypesInv, InFlight, requestVars, processVars, clusterVars, windowVars
<1>1. ASSUME NEW r \in Requests, Receive(r)
      PROVE  TypesInv'
  BY <1>1 DEF Receive, Reply
<1>2. ASSUME NEW r \in Requests, StartLookup(r)
      PROVE  TypesInv'
  BY <1>2 DEF StartLookup
<1>3. ASSUME NEW r \in Requests, EndLookup(r)
      PROVE  TypesInv'
  BY <1>3 DEF EndLookup, LookupOutcome
<1>4. ASSUME NEW r \in Requests, UseModel(r)
      PROVE  TypesInv'
  BY <1>4 DEF UseModel, Reply
<1>5. ASSUME NEW r \in Requests, Query(r)
      PROVE  TypesInv'
  <2>1. hits' \in [Requests -> SUBSET Products]
    <3>1. CASE hits' = hits
      BY <3>1
    <3>2. ASSUME NEW found \in Found(ask[r]), hits' = [hits EXCEPT ![r] = found]
          PROVE  hits' \in [Requests -> SUBSET Products]
      <4>1. found \subseteq Products
        BY <3>2 DEF Found
      <4>. QED
        BY <3>2, <4>1
    <3>. QED
      BY <1>5, <3>1, <3>2 DEF Query
  <2>. QED
    BY <1>5, <2>1 DEF Query, Reply
<1>6. ASSUME NEW r \in Requests, MintAndAnswer(r)
      PROVE  TypesInv'
  BY <1>6 DEF MintAndAnswer, Reply, Observe
<1>7. ASSUME NEW r \in Requests, RecordSearch(r)
      PROVE  TypesInv'
  BY <1>7 DEF RecordSearch
<1>8. CASE OtherSearch
  BY <1>8 DEF OtherSearch, Observe
<1>9. CASE Stop
  BY <1>9 DEF Stop
<1>10. CASE Die
  BY <1>10 DEF Die
<1>11. CASE Restart
  BY <1>11 DEF Restart
<1>12. CASE Ingest
  BY <1>12 DEF Ingest
<1>13. ASSUME NEW r \in Requests, NEW p \in Products, Begin(r, p)
      PROVE  TypesInv'
  BY <1>13 DEF Begin
<1>14. CASE UNCHANGED vars
  BY <1>14 DEF vars
<1>15. ASSUME NEW r \in Requests, MintFails(r)
      PROVE  TypesInv'
  BY <1>15 DEF MintFails, Reply
<1>. QED
  BY <1>1, <1>2, <1>3, <1>4, <1>5, <1>6, <1>7, <1>8, <1>9, <1>10, <1>11, <1>12, <1>13, <1>14, <1>15 DEF Next, Handler

(***************************************************************************)
(* Only the request inside the sync.Once ends its lookup.                  *)
(***************************************************************************)
LEMMA LookupKept == IInv /\ [Next]_vars => LookupInv'
PROOF
<1> SUFFICES ASSUME IInv, [Next]_vars PROVE LookupInv'
  OBVIOUS
<1> USE DEF IInv, TypesInv, InFlight, requestVars, processVars, clusterVars, windowVars,
            LookupInv, OneLookup
<1>1. ASSUME NEW r \in Requests, Receive(r)
      PROVE  LookupInv'
  BY <1>1, SearchAssumption DEF Receive, Reply
<1>2. ASSUME NEW r \in Requests, StartLookup(r)
      PROVE  LookupInv'
  BY <1>2, SearchAssumption DEF StartLookup
<1>3. ASSUME NEW r \in Requests, EndLookup(r)
      PROVE  LookupInv'
  <2>1. /\ once = r /\ mode # "down" /\ once # "new" /\ once # "spent"
        /\ \A q \in Requests : pc[q] = "lookup" => q = r
        /\ \A q \in Requests : pc[q] \notin {"query", "mint"}
    BY <1>3, SearchAssumption DEF EndLookup
  <2>2. /\ once' = "spent" /\ model' \in {"found", "error"} /\ mode' = mode
        /\ \A q \in Requests : pc'[q] = IF q = r THEN "resolve" ELSE pc[q]
    BY <1>3 DEF EndLookup, LookupOutcome
  <2>. QED
    BY <2>1, <2>2, SearchAssumption
<1>4. ASSUME NEW r \in Requests, UseModel(r)
      PROVE  LookupInv'
  BY <1>4, SearchAssumption DEF UseModel, Reply
<1>5. ASSUME NEW r \in Requests, Query(r)
      PROVE  LookupInv'
  BY <1>5, SearchAssumption DEF Query, Reply
<1>6. ASSUME NEW r \in Requests, MintAndAnswer(r)
      PROVE  LookupInv'
  BY <1>6, SearchAssumption DEF MintAndAnswer, Reply, Observe
<1>7. ASSUME NEW r \in Requests, RecordSearch(r)
      PROVE  LookupInv'
  BY <1>7, SearchAssumption DEF RecordSearch
<1>8. CASE OtherSearch
  BY <1>8, SearchAssumption DEF OtherSearch, Observe
<1>9. CASE Stop
  BY <1>9, SearchAssumption DEF Stop
<1>10. CASE Die
  BY <1>10, SearchAssumption DEF Die
<1>11. CASE Restart
  BY <1>11, SearchAssumption DEF Restart
<1>12. CASE Ingest
  BY <1>12, SearchAssumption DEF Ingest
<1>13. ASSUME NEW r \in Requests, NEW p \in Products, Begin(r, p)
      PROVE  LookupInv'
  BY <1>13, SearchAssumption DEF Begin
<1>14. CASE UNCHANGED vars
  BY <1>14, SearchAssumption DEF vars
<1>15. ASSUME NEW r \in Requests, MintFails(r)
      PROVE  LookupInv'
  BY <1>15, SearchAssumption DEF MintFails, Reply
<1>. QED
  BY <1>1, <1>2, <1>3, <1>4, <1>5, <1>6, <1>7, <1>8, <1>9, <1>10, <1>11, <1>12, <1>13, <1>14, <1>15 DEF Next, Handler

(***************************************************************************)
(* Rows come from answered searches and stay; settlements come from rows.  *)
(***************************************************************************)
LEMMA RecordsKept == IInv /\ [Next]_vars => RecordsInv'
PROOF
<1> SUFFICES ASSUME IInv, [Next]_vars PROVE RecordsInv'
  OBVIOUS
<1> USE DEF IInv, TypesInv, InFlight, requestVars, processVars, clusterVars, windowVars,
            RecordsInv, SettlementsTraceToSearch
<1>1. ASSUME NEW r \in Requests, Receive(r)
      PROVE  RecordsInv'
  BY <1>1 DEF Receive, Reply
<1>2. ASSUME NEW r \in Requests, StartLookup(r)
      PROVE  RecordsInv'
  BY <1>2 DEF StartLookup
<1>3. ASSUME NEW r \in Requests, EndLookup(r)
      PROVE  RecordsInv'
  BY <1>3 DEF EndLookup
<1>4. ASSUME NEW r \in Requests, UseModel(r)
      PROVE  RecordsInv'
  BY <1>4 DEF UseModel, Reply
<1>5. ASSUME NEW r \in Requests, Query(r)
      PROVE  RecordsInv'
  BY <1>5 DEF Query, Reply
<1>6. ASSUME NEW r \in Requests, MintAndAnswer(r)
      PROVE  RecordsInv'
  BY <1>6 DEF MintAndAnswer, Reply, Observe
<1>7. ASSUME NEW r \in Requests, RecordSearch(r)
      PROVE  RecordsInv'
  BY <1>7 DEF RecordSearch
<1>8. CASE OtherSearch
  BY <1>8 DEF OtherSearch, Observe
<1>9. CASE Stop
  BY <1>9 DEF Stop
<1>10. CASE Die
  BY <1>10 DEF Die
<1>11. CASE Restart
  BY <1>11 DEF Restart
<1>12. CASE Ingest
  BY <1>12 DEF Ingest
<1>13. ASSUME NEW r \in Requests, NEW p \in Products, Begin(r, p)
      PROVE  RecordsInv'
  BY <1>13 DEF Begin
<1>14. CASE UNCHANGED vars
  BY <1>14 DEF vars
<1>15. ASSUME NEW r \in Requests, MintFails(r)
      PROVE  RecordsInv'
  BY <1>15 DEF MintFails, Reply
<1>. QED
  BY <1>1, <1>2, <1>3, <1>4, <1>5, <1>6, <1>7, <1>8, <1>9, <1>10, <1>11, <1>12, <1>13, <1>14, <1>15 DEF Next, Handler

(***************************************************************************)
(* Every behaviour of the service keeps the invariant.                     *)
(***************************************************************************)
THEOREM InvariantHolds == Spec => []IInv
PROOF
<1>1. IInv /\ [Next]_vars => IInv'
  BY TypesKept, LookupKept, RecordsKept DEF IInv
<1>. QED
  BY <1>1, InitHolds, PTL DEF Spec

(***************************************************************************)
(* Through any number of restarts one request at a time looks the model    *)
(* up, and no request queries without one (embeddingModelID).              *)
(***************************************************************************)
THEOREM LookupHappensOnce == Spec => []OneLookup
PROOF
<1>1. IInv => OneLookup
  BY DEF IInv, LookupInv
<1>. QED
  BY <1>1, InvariantHolds, PTL

(***************************************************************************)
(* Every settlement leads back to a recorded search that returned its      *)
(* product, whatever the recorders lost (recordSearch, Store.Begin).       *)
(***************************************************************************)
THEOREM SettlementsAreTraceable == Spec => []SettlementsTraceToSearch
PROOF
<1>1. IInv => SettlementsTraceToSearch
  BY DEF IInv, RecordsInv
<1>. QED
  BY <1>1, InvariantHolds, PTL

-----------------------------------------------------------------------------
(***************************************************************************)
(* The rest of the type invariant: the process, its latency window and the *)
(* cluster.                                                                *)
(***************************************************************************)
WindowInv == total \in Nat /\ samples \in Seq(Nat) /\ Len(samples) <= Capacity

ProcessInv ==
    /\ life \in 1..MaxLives
    /\ deployed \in BOOLEAN /\ indexed \in BOOLEAN
    /\ WindowInv

(***************************************************************************)
(* A sequence keeps its length when one of its elements is replaced.       *)
(***************************************************************************)
LEMMA ReplaceInSequence ==
    ASSUME NEW s \in Seq(Nat), NEW i, NEW v \in Nat
    PROVE  /\ [s EXCEPT ![i] = v] \in Seq(Nat)
           /\ Len([s EXCEPT ![i] = v]) = Len(s)
PROOF
<1> DEFINE n == Len(s)
           t == [s EXCEPT ![i] = v]
<1>1. n \in Nat /\ s \in [1..n -> Nat]
  OBVIOUS
<1>2. t \in [1..n -> Nat]
  BY <1>1
<1>3. t \in Seq(Nat)
  BY <1>1, <1>2
<1>4. Len(t) = n
  BY <1>1, <1>2, <1>3
<1>. QED
  BY <1>3, <1>4

(***************************************************************************)
(* An observation leaves the window within its capacity, whether it is     *)
(* appended or takes the place of another (latencyRecorder.observe).       *)
(***************************************************************************)
LEMMA ObserveKeeps ==
    ASSUME WindowInv, Observe
    PROVE  WindowInv'
PROOF
<1>1. total' \in Nat /\ Capacity \in Nat \ {0}
  BY SearchAssumption DEF WindowInv, Observe
<1>2. CASE Len(samples) < Capacity
  <2>1. samples' = Append(samples, total')
    BY <1>2 DEF Observe
  <2>2. samples' \in Seq(Nat) /\ Len(samples') = Len(samples) + 1
    BY <1>1, <2>1 DEF WindowInv
  <2>. QED
    BY <1>1, <1>2, <2>2 DEF WindowInv
<1>3. CASE ~(Len(samples) < Capacity)
  <2> DEFINE slot == (total' % Capacity) + 1
  <2>1. samples' = [samples EXCEPT ![slot] = total']
    BY <1>3 DEF Observe
  <2>2. samples' \in Seq(Nat) /\ Len(samples') = Len(samples)
    BY <1>1, <2>1, ReplaceInSequence DEF WindowInv
  <2>. QED
    BY <1>1, <2>2 DEF WindowInv
<1>. QED
  BY <1>2, <1>3

(***************************************************************************)
(* No step takes the process, its window or the cluster out of their types.*)
(***************************************************************************)
LEMMA ProcessKept == ProcessInv /\ [Next]_vars => ProcessInv'
PROOF
<1> SUFFICES ASSUME ProcessInv, [Next]_vars PROVE ProcessInv'
  OBVIOUS
<1> USE DEF ProcessInv, processVars, clusterVars, windowVars
<1>1. ASSUME NEW r \in Requests, Receive(r) \/ Handler(r) \/ RecordSearch(r), ~MintAndAnswer(r)
      PROVE  ProcessInv'
  BY <1>1 DEF Receive, Handler, StartLookup, EndLookup, UseModel, Query, MintFails,
     RecordSearch, WindowInv
<1>2. ASSUME (\E r \in Requests : MintAndAnswer(r)) \/ OtherSearch
      PROVE  ProcessInv'
  <2>1. Observe /\ UNCHANGED <<life, clusterVars>>
    BY <1>2 DEF MintAndAnswer, OtherSearch
  <2>. QED
    BY <2>1, ObserveKeeps
<1>3. CASE Stop \/ Die \/ Ingest
  BY <1>3 DEF Stop, Die, Ingest, WindowInv
<1>4. CASE Restart
  <2>1. life' \in 1..MaxLives
    BY <1>4, SearchAssumption DEF Restart
  <2>2. total' = 0 /\ samples' = <<>> /\ UNCHANGED clusterVars
    BY <1>4 DEF Restart
  <2>. QED
    BY <2>1, <2>2, SearchAssumption DEF WindowInv
<1>5. ASSUME NEW r \in Requests, NEW p \in Products, Begin(r, p)
      PROVE  ProcessInv'
  BY <1>5 DEF Begin, WindowInv
<1>6. CASE UNCHANGED vars
  BY <1>6 DEF vars, WindowInv
<1>. QED
  BY <1>1, <1>2, <1>3, <1>4, <1>5, <1>6 DEF Next

(***************************************************************************)
(* The process starts up in its types.                                     *)
(***************************************************************************)
LEMMA InitProcess == Init => ProcessInv
PROOF
<1> SUFFICES ASSUME Init PROVE ProcessInv
  OBVIOUS
<1>1. deployed \in BOOLEAN /\ indexed \in BOOLEAN
  BY Zenon DEF Init
<1>2. life = 1 /\ MaxLives \in Nat \ {0}
  BY SearchAssumption, Zenon DEF Init
<1>3. life \in 1..MaxLives
  BY <1>2
<1>4. total = 0 /\ samples = <<>> /\ Capacity \in Nat
  BY SearchAssumption, Zenon DEF Init
<1>5. samples \in Seq(Nat) /\ Len(samples) = 0
  BY <1>4
<1>6. WindowInv
  BY <1>4, <1>5 DEF WindowInv
<1>. QED
  BY <1>1, <1>3, <1>6 DEF ProcessInv

(***************************************************************************)
(* Every variable keeps its type; the window never outgrows its capacity.  *)
(***************************************************************************)
THEOREM TypeCorrect == Spec => []TypeOK
PROOF
<1>1. IInv /\ ProcessInv => TypeOK
  BY DEF IInv, TypesInv, ProcessInv, WindowInv, TypeOK
<1>. QED
  BY <1>1, InitProcess, ProcessKept, InvariantHolds, PTL DEF Spec

-----------------------------------------------------------------------------
(***************************************************************************)
(* What the window holds.  The slot of an observation is where it was      *)
(* appended, or where its number modulo the capacity puts it; what is held *)
(* of t observations is all of them, or the first beside the latest ones   *)
(* while the window is overwritten for the first time, or the latest.      *)
(***************************************************************************)
Slot(n) == IF n <= Capacity THEN n ELSE (n % Capacity) + 1

Held(t) ==
    IF t <= Capacity THEN 1..t
    ELSE IF t < 2 * Capacity THEN {1} \cup ((t - Capacity + 2)..t)
    ELSE (t - Capacity + 1)..t

SlotsInv ==
    /\ Len(samples) = IF total <= Capacity THEN total ELSE Capacity
    /\ \A n \in Held(total) : Slot(n) \in DOMAIN samples /\ samples[Slot(n)] = n
    /\ \A i \in DOMAIN samples : samples[i] \in Held(total) /\ Slot(samples[i]) = i

(***************************************************************************)
(* A number is its quotient times the divisor and a remainder.             *)
(***************************************************************************)
LEMMA Division ==
    ASSUME NEW c \in Nat \ {0}, NEW n \in Nat
    PROVE  n = c * (n \div c) + (n % c) /\ n \div c \in Nat /\ n % c \in 0..(c - 1)
PROOF
  OBVIOUS

(***************************************************************************)
(* ... and the remainder is the only one.                                  *)
(***************************************************************************)
LEMMA RemainderIsUnique ==
    ASSUME NEW c \in Nat \ {0}, NEW p \in Int, NEW q \in Int,
           NEW r \in 0..(c - 1), NEW s \in 0..(c - 1), c * p + r = c * q + s
    PROVE  r = s
PROOF
<1>1. c * p \in Int /\ c * q \in Int
  OBVIOUS
<1>2. ASSUME NEW a \in Int, NEW b \in Int, a < b
      PROVE  c * b - c * a >= c
  <2>1. b - a >= 1
    BY <1>2
  <2>2. c * (b - a) >= c
    BY <2>1
  <2>3. c * (b - a) = c * b - c * a
    OBVIOUS
  <2>. QED
    BY <2>2, <2>3
<1>3. CASE p < q
  BY <1>1, <1>2, <1>3
<1>4. CASE q < p
  BY <1>1, <1>2, <1>4
<1>5. CASE p = q
  BY <1>1, <1>5
<1>. QED
  BY <1>3, <1>4, <1>5

(***************************************************************************)
(* Going once round the window leads back to the same slot.                *)
(***************************************************************************)
LEMMA OnceRound ==
    ASSUME NEW c \in Nat \ {0}, NEW n \in Nat
    PROVE  (n + c) % c = n % c
PROOF
<1> DEFINE m == n + c
           p == (n \div c) + 1
           q == m \div c
           r == n % c
           s == m % c
<1>1. m \in Nat
  OBVIOUS
<1>2. n = c * (n \div c) + r /\ n \div c \in Int /\ r \in 0..(c - 1)
  BY Division
<1>3. m = c * q + s /\ q \in Int /\ s \in 0..(c - 1)
  BY <1>1, Division
<1>4. c * p = c * (n \div c) + c /\ p \in Int
  BY <1>2
<1>5. c * p \in Int /\ c * q \in Int /\ c * (n \div c) \in Int
  BY <1>2, <1>3, <1>4
<1>6. c * p + r = m
  BY <1>2, <1>4, <1>5
<1>7. r = s
  <2> HIDE DEF m, p, q, r, s
  <2>. QED
    BY <1>2, <1>3, <1>4, <1>6, RemainderIsUnique
<1>. QED
  BY <1>7

(***************************************************************************)
(* Once the window is full, an observation falls on the slot of the one    *)
(* that is held no longer.                                                 *)
(***************************************************************************)
LEMMA OneIsOverwritten ==
    ASSUME NEW t \in Nat, t >= Capacity
    PROVE  /\ (t + 1) % Capacity \in 0..(Capacity - 1)
           /\ Slot(t + 1) = ((t + 1) % Capacity) + 1
           /\ t + 1 \notin Held(t)
           /\ \E e \in Held(t) : /\ Slot(e) = Slot(t + 1)
                                 /\ Held(t + 1) = (Held(t) \ {e}) \cup {t + 1}
PROOF
<1> DEFINE n == t + 1
<1>1. Capacity \in Nat \ {0} /\ n \in Nat
  BY SearchAssumption
<1>2. n % Capacity \in 0..(Capacity - 1)
  BY <1>1, Division
<1>3. Slot(n) = (n % Capacity) + 1
  BY <1>1 DEF Slot
<1>4. n \notin Held(t)
  BY <1>1 DEF Held
<1>5. ASSUME NEW e \in Held(t), Slot(e) = Slot(n), Held(n) = (Held(t) \ {e}) \cup {n}
      PROVE  \E f \in Held(t) : Slot(f) = Slot(n) /\ Held(n) = (Held(t) \ {f}) \cup {n}
  BY <1>5
<1>6. CASE n < 2 * Capacity
  <2>1. n % Capacity = n - Capacity
    BY <1>1, <1>6
  <2> DEFINE e == n - Capacity + 1
  <2>2. e \in Held(t) /\ Slot(e) = e
    BY <1>1, <1>6 DEF Held, Slot
  <2>3. Held(n) = (Held(t) \ {e}) \cup {n}
    BY <1>1, <1>6 DEF Held
  <2>4. Slot(e) = Slot(n)
    BY <1>1, <1>3, <2>1, <2>2
  <2>. QED
    BY <1>2, <1>3, <1>4, <1>5, <2>2, <2>3, <2>4
<1>7. CASE n = 2 * Capacity
  <2>1. n % Capacity = 0
    BY <1>1, <1>7
  <2>2. 1 \in Held(t) /\ Slot(1) = 1
    BY <1>1, <1>7 DEF Held, Slot
  <2>3. Held(n) = (Held(t) \ {1}) \cup {n}
    BY <1>1, <1>7 DEF Held
  <2>4. Slot(1) = Slot(n)
    BY <1>3, <2>1, <2>2
  <2>. QED
    BY <1>2, <1>3, <1>4, <1>5, <2>2, <2>3, <2>4
<1>8. CASE n > 2 * Capacity
  <2> DEFINE e == n - Capacity
  <2>1. e \in Nat /\ e > Capacity /\ n = e + Capacity
    BY <1>1, <1>8
  <2>2. e \in Held(t)
    BY <1>1, <1>8 DEF Held
  <2>3. Held(n) = (Held(t) \ {e}) \cup {n}
    BY <1>1, <1>8 DEF Held
  <2>4. (e + Capacity) % Capacity = e % Capacity
    BY <1>1, <2>1, OnceRound
  <2>5. Slot(e) = (e % Capacity) + 1
    BY <1>1, <2>1 DEF Slot
  <2>6. Slot(e) = Slot(n)
    BY <1>3, <2>1, <2>4, <2>5
  <2>. QED
    BY <1>2, <1>3, <1>4, <1>5, <2>2, <2>3, <2>6
<1>. QED
  BY <1>1, <1>6, <1>7, <1>8

(***************************************************************************)
(* An observation is put where its slot is, and every other that is still  *)
(* held stays where it was (latencyRecorder.observe).                      *)
(***************************************************************************)
LEMMA ObserveFillsSlot ==
    ASSUME WindowInv, SlotsInv, Observe
    PROVE  SlotsInv'
PROOF
<1> DEFINE n == total + 1
           size == Len(samples)
<1>1. /\ total \in Nat /\ n \in Nat /\ total' = n /\ Capacity \in Nat \ {0}
      /\ samples \in Seq(Nat) /\ size \in Nat /\ DOMAIN samples = 1..size
  BY SearchAssumption DEF WindowInv, Observe
<1>2. CASE size < Capacity
  <2>1. size = total /\ n <= Capacity
    BY <1>1, <1>2 DEF SlotsInv
  <2>2. samples' = Append(samples, n)
    BY <1>1, <1>2 DEF Observe
  <2>3. /\ Len(samples') = n /\ DOMAIN samples' = 1..n /\ samples'[n] = n
        /\ \A i \in 1..total : samples'[i] = samples[i]
    BY <1>1, <2>1, <2>2
  <2>4. Held(n) = 1..n /\ Held(total) = 1..total /\ \A i \in 1..n : Slot(i) = i
    BY <1>1, <2>1 DEF Held, Slot
  <2>5. \A i \in 1..total : samples[i] = i
    BY <2>4, <1>1, <2>1 DEF SlotsInv
  <2>6. \A i \in 1..n : samples'[i] = i
    BY <1>1, <2>3, <2>5
  <2>. QED
    BY <1>1, <2>1, <2>3, <2>4, <2>6 DEF SlotsInv
<1>3. CASE ~(size < Capacity)
  <2> DEFINE slot == (n % Capacity) + 1
  <2>1. size = Capacity /\ total >= Capacity
    BY <1>1, <1>3 DEF SlotsInv, WindowInv
  <2>2. samples' = [samples EXCEPT ![slot] = n]
    BY <1>1, <1>3 DEF Observe
  <2>3. PICK e \in Held(total) : /\ Slot(e) = Slot(n)
                                 /\ Held(n) = (Held(total) \ {e}) \cup {n}
    BY <1>1, <2>1, OneIsOverwritten
  <2>4. slot \in 1..size /\ Slot(n) = slot /\ n \notin Held(total)
    BY <1>1, <2>1, OneIsOverwritten
  <2>5. samples' \in Seq(Nat) /\ Len(samples') = size
    BY <1>1, <2>2, ReplaceInSequence
  <2>6. /\ DOMAIN samples' = 1..size /\ samples'[slot] = n
        /\ \A i \in 1..size : i # slot => samples'[i] = samples[i]
    BY <1>1, <2>2, <2>4, <2>5
  <2>7. samples[slot] = e
    BY <2>3, <2>4 DEF SlotsInv
  <2> HIDE DEF size, slot, n
  <2>8. ASSUME NEW m \in Held(n)
        PROVE  Slot(m) \in 1..size /\ samples'[Slot(m)] = m
    <3>1. CASE m = n
      BY <2>4, <2>6, <3>1
    <3>2. CASE m # n
      <4>1. m \in Held(total) /\ m # e
        BY <2>3, <2>8, <3>2
      <4>2. Slot(m) \in 1..size /\ samples[Slot(m)] = m
        BY <1>1, <4>1 DEF SlotsInv
      <4>. QED
        BY <2>6, <2>7, <4>1, <4>2
    <3>. QED
      BY <3>1, <3>2
  <2>9. ASSUME NEW i \in 1..size
        PROVE  samples'[i] \in Held(n) /\ Slot(samples'[i]) = i
    <3>1. CASE i = slot
      BY <2>3, <2>4, <2>6, <3>1
    <3>2. CASE i # slot
      <4>1. samples'[i] = samples[i] /\ samples[i] \in Held(total) /\ Slot(samples[i]) = i
        BY <1>1, <2>6, <2>9, <3>2 DEF SlotsInv
      <4>2. samples[i] # e
        BY <2>3, <2>4, <3>2, <4>1
      <4>. QED
        BY <2>3, <4>1, <4>2
    <3>. QED
      BY <3>1, <3>2
  <2>10. Len(samples') = IF n <= Capacity THEN n ELSE Capacity
    BY <1>1, <2>1, <2>5 DEF n, size
  <2>. QED
    BY <1>1, <2>6, <2>8, <2>9, <2>10 DEF SlotsInv
<1>. QED
  BY <1>2, <1>3

(***************************************************************************)
(* What is held is as much as the latest observations are.                 *)
(***************************************************************************)
LEMMA HeldIsRecent ==
    ASSUME NEW t \in Nat
    PROVE  LET latest == {n \in 1..t : n + Capacity > t}
           IN  /\ Cardinality(Held(t)) = Cardinality(latest)
               /\ Held(t) \subseteq latest \cup {1}
               /\ t >= 2 * Capacity => Held(t) = latest
PROOF
<1> DEFINE latest == {n \in 1..t : n + Capacity > t}
<1>1. Capacity \in Nat \ {0}
  BY SearchAssumption
<1>2. CASE t <= Capacity
  <2>1. Held(t) = 1..t /\ latest = 1..t
    BY <1>1, <1>2 DEF Held
  <2>. QED
    BY <2>1
<1>3. CASE Capacity < t /\ t < 2 * Capacity
  <2> DEFINE later == (t - Capacity + 2)..t
  <2>1. Held(t) = later \cup {1} /\ 1 \notin later
    BY <1>1, <1>3 DEF Held
  <2>2. latest = (t - Capacity + 1)..t
    BY <1>1, <1>3
  <2>3. IsFiniteSet(later) /\ Cardinality(later) = Capacity - 1
    BY <1>1, <1>3, FS_Interval
  <2>4. Cardinality((t - Capacity + 1)..t) = Capacity
    BY <1>1, <1>3, FS_Interval
  <2>5. Cardinality(later \cup {1}) = Cardinality(later) + 1
    BY <2>1, <2>3, FS_AddElement
  <2>6. Held(t) \subseteq latest \cup {1}
    BY <1>1, <1>3, <2>1, <2>2
  <2>7. ~(t >= 2 * Capacity)
    BY <1>1, <1>3
  <2> HIDE DEF later, latest
  <2>8. Cardinality(Held(t)) = Cardinality(latest)
    BY <1>1, <2>1, <2>2, <2>3, <2>4, <2>5
  <2>. QED
    BY <2>6, <2>7, <2>8 DEF latest
<1>4. CASE t >= 2 * Capacity
  <2>1. Held(t) = (t - Capacity + 1)..t
    BY <1>1, <1>4 DEF Held
  <2>2. latest = (t - Capacity + 1)..t
    BY <1>1, <1>4
  <2>. QED
    BY <2>1, <2>2
<1>. QED
  BY <1>1, <1>2, <1>3, <1>4

(***************************************************************************)
(* Every step keeps the window what it should be; a new process starts     *)
(* with an empty one.                                                      *)
(***************************************************************************)
LEMMA SlotsKept == WindowInv /\ SlotsInv /\ [Next]_vars => SlotsInv'
PROOF
<1> SUFFICES ASSUME WindowInv, SlotsInv, [Next]_vars PROVE SlotsInv'
  OBVIOUS
<1>1. CASE Observe
  BY <1>1, ObserveFillsSlot
<1>2. CASE total' = 0 /\ samples' = <<>>
  <2>1. Held(0) = {} /\ Capacity \in Nat
    BY SearchAssumption DEF Held
  <2>. QED
    BY <1>2, <2>1 DEF SlotsInv
<1>3. CASE UNCHANGED windowVars
  BY <1>3 DEF SlotsInv, windowVars
<1>4. Observe \/ (total' = 0 /\ samples' = <<>>) \/ UNCHANGED windowVars
  BY DEF Next, Handler, Receive, StartLookup, EndLookup, UseModel, Query, MintFails, MintAndAnswer,
         RecordSearch, OtherSearch, Stop, Die, Restart, Ingest, Begin, vars, processVars
<1>. QED
  BY <1>1, <1>2, <1>3, <1>4

(***************************************************************************)
(* However requests follow each other and whenever the process starts      *)
(* anew, the latency window holds as many observations as there are recent *)
(* ones, the recent ones themselves but for the very first, and just them  *)
(* once it has been overwritten as often as it was filled                  *)
(* (latencyRecorder.observe).                                              *)
(***************************************************************************)
THEOREM WindowStaysRecent == Spec => []WindowIsRecent
PROOF
<1>1. Init => ProcessInv /\ SlotsInv
  <2>1. Init => ProcessInv
    BY InitProcess
  <2>2. Init => total = 0 /\ samples = <<>>
    BY Zenon DEF Init
  <2>3. Held(0) = {} /\ Capacity \in Nat
    BY SearchAssumption DEF Held
  <2>4. total = 0 /\ samples = <<>> => SlotsInv
    BY <2>3 DEF SlotsInv
  <2>. QED
    BY <2>1, <2>2, <2>4
<1>2. ProcessInv /\ SlotsInv => WindowIsRecent
  <2> SUFFICES ASSUME ProcessInv, SlotsInv PROVE WindowIsRecent
    OBVIOUS
  <2>1. total \in Nat
    BY DEF ProcessInv, WindowInv
  <2>2. Window = Held(total)
    BY DEF Window, SlotsInv
  <2>3. /\ Cardinality(Held(total)) = Cardinality(LatestObservations)
        /\ Held(total) \subseteq LatestObservations \cup {1}
        /\ total >= 2 * Capacity => Held(total) = LatestObservations
    BY <2>1, HeldIsRecent DEF LatestObservations
  <2>. QED
    BY <2>2, <2>3 DEF WindowIsRecent
<1>3. ProcessInv => WindowInv
  BY DEF ProcessInv
<1>. QED
  BY <1>1, <1>2, <1>3, ProcessKept, SlotsKept, PTL DEF Spec
=============================================================================
