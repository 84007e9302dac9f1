---------------------------- MODULE RunnerProofs ----------------------------
(***************************************************************************)
(* What TLAPS proves of Runner, for any number of requests, any limits and *)
(* any share of fraud.                                                     *)
(***************************************************************************)
EXTENDS Runner, FiniteSetTheorems, TLAPS

(***************************************************************************)
(* The inductive invariant: types, the books of the counters, and where    *)
(* the publishers come from.                                               *)
(***************************************************************************)
IInv == TypeOK /\ CountersAddUp /\ PublishersFirst

Phases == {"new", "read", "loading", "honest", "fraudulent", "answered"}

(***************************************************************************)
(* The requests in flight are finitely many.                               *)
(***************************************************************************)
LEMMA InFlightFinite == IsFiniteSet(InFlight) /\ Cardinality(InFlight) \in Nat
PROOF
<1>1. IsFiniteSet(Calls)
  BY FS_Interval, DriverAssumption DEF Calls
<1>2. InFlight \subseteq Calls
  BY DEF InFlight
<1>. QED
  BY <1>1, <1>2, FS_Subset, FS_CardinalityType

(***************************************************************************)
(* How many are in flight changes only with the request that moves.        *)
(***************************************************************************)
LEMMA InFlightMoves ==
    ASSUME call \in [Calls -> Phases], NEW c \in Calls, NEW where, Goes(c, where)
    PROVE  /\ where \in Phases => call' \in [Calls -> Phases]
           /\ (where \in {"honest", "fraudulent"} /\ c \notin InFlight) =>
                 Cardinality(InFlight') = Cardinality(InFlight) + 1
           /\ (where \notin {"honest", "fraudulent"} /\ c \in InFlight) =>
                 Cardinality(InFlight') = Cardinality(InFlight) - 1
           /\ (where \notin {"honest", "fraudulent"} /\ c \notin InFlight) =>
                 InFlight' = InFlight
PROOF
<1>1. \A d \in Calls : call'[d] = IF d = c THEN where ELSE call[d]
  BY DEF Goes
<1>2. where \in {"honest", "fraudulent"} => InFlight' = InFlight \cup {c}
  BY <1>1 DEF InFlight
<1>3. where \notin {"honest", "fraudulent"} => InFlight' = InFlight \ {c}
  BY <1>1 DEF InFlight
<1>4. where \in Phases => call' \in [Calls -> Phases]
  BY DEF Goes
<1>5. Cardinality(InFlight \cup {c}) =
          IF c \in InFlight THEN Cardinality(InFlight) ELSE Cardinality(InFlight) + 1
  BY FS_AddElement, InFlightFinite
<1>6. Cardinality(InFlight \ {c}) =
          IF c \in InFlight THEN Cardinality(InFlight) - 1 ELSE Cardinality(InFlight)
  BY FS_RemoveElement, InFlightFinite
<1>7. c \notin InFlight => InFlight \ {c} = InFlight
  OBVIOUS
<1>. QED
  BY <1>2, <1>3, <1>4, <1>5, <1>6, <1>7

(***************************************************************************)
(* At first nothing has started.                                           *)
(***************************************************************************)
LEMMA InitHolds == Init => IInv
PROOF
<1> SUFFICES ASSUME Init PROVE IInv
  OBVIOUS
<1>1. InFlight = {}
  BY DEF Init, InFlight
<1>2. Cardinality(InFlight) = 0
  BY <1>1, FS_EmptySet
<1>3. TypeOK
  <2>1. 2 * DefaultConcurrency \in 2..(2 * Limit)
    BY DriverAssumption
  <2>. QED
    BY <2>1 DEF Init, TypeOK, FraudRate
<1>4. CountersAddUp
  BY <1>2 DEF Init, CountersAddUp
<1>5. PublishersFirst
  BY <1>1 DEF Init, PublishersFirst, Active
<1>. QED
  BY <1>3, <1>4, <1>5 DEF IInv

(***************************************************************************)
(* configure keeps the options within their limits.                        *)
(***************************************************************************)
LEMMA ConfigureFacts ==
    ASSUME TypeOK, NEW patch \in Requests, configure(patch)
    PROVE  /\ concurrency' \in 2..(2 * Limit) /\ fraudRate' \in FraudRate
           /\ Loops(concurrency') \in 1..Limit
PROOF
<1>1. patch.concurrency \in Nat \cup {Absent} /\ patch.fraudRate \in FraudRate \cup {Absent}
  <2>1. CASE patch \in [route: Commands, body: {"object"},
                        concurrency: Patches \cup {Absent}, fraudRate: Rates \cup {Absent}]
    BY <2>1, DriverAssumption
  <2>2. CASE patch \in [route: Commands, body: {"null"}, concurrency: {Absent},
                        fraudRate: {Absent}]
    BY <2>2
  <2>. QED
    BY <2>1, <2>2 DEF Requests
<1>2. \A value \in Nat : clamp(value) \in 2..(2 * Limit)
  BY DriverAssumption DEF clamp
<1>3. concurrency' \in 2..(2 * Limit) /\ fraudRate' \in FraudRate
  BY <1>1, <1>2 DEF configure, TypeOK
<1>4. \A halves \in 2..(2 * Limit) : Loops(halves) \in 1..Limit
  BY DriverAssumption DEF Loops
<1>. QED
  BY <1>3, <1>4

(***************************************************************************)
(* Of n attempts, some number from none to all is fraudulent.              *)
(***************************************************************************)
LEMMA FraudsFacts ==
    ASSUME NEW n \in Nat, NEW rate \in FraudRate, NEW k \in Frauds(n, rate)
    PROVE  k \in 0..n
PROOF
<1>1. rate = "none" \/ rate = "some" \/ rate = "all"
  BY DEF FraudRate
<1>2. CASE rate = "none"
  BY <1>2 DEF Frauds
<1>3. CASE rate = "some"
  BY <1>3 DEF Frauds
<1>4. CASE rate = "all"
  BY <1>4 DEF Frauds
<1>. QED
  BY <1>1, <1>2, <1>3, <1>4

(***************************************************************************)
(* A start, a purchase or neither begins as many attempts as it counts.    *)
(***************************************************************************)
LEMMA PerformKeeps ==
    ASSUME IInv, NEW c \in Calls, Perform(c)
    PROVE  IInv'
PROOF
<1>1. TypeOK /\ CountersAddUp /\ call \in [Calls -> Phases]
  BY DEF IInv, TypeOK, Phases
<1>2. c \notin InFlight
  BY DEF Perform, InFlight
<1>3. asked[c] \in Requests
  BY <1>1 DEF Perform, TypeOK
<1>4. asked' \in [Calls -> Requests \cup {None}]
  BY <1>1 DEF Perform, TypeOK
<1>5. loaded' = TRUE
  BY DEF Perform
<1>6. Cardinality(InFlight) \in Nat
  BY InFlightFinite
<1>7. \A d \in Calls : d # c => asked'[d] = asked[d]
  BY <1>1 DEF Perform, TypeOK
<1>8. ASSUME call' \in [Calls -> Phases], \A d \in Calls : d # c => call'[d] = call[d],
             call'[c] \notin {"read", "loading"}
      PROVE  \A d \in Calls : call'[d] \in {"read", "loading"} =>
                asked'[d] \in Requests /\ asked'[d].route \in {"/start", "/once"}
  <2> SUFFICES ASSUME NEW d \in Calls, call'[d] \in {"read", "loading"}
               PROVE  asked'[d] \in Requests /\ asked'[d].route \in {"/start", "/once"}
    OBVIOUS
  <2>1. d # c
    BY <1>8
  <2>2. call[d] \in {"read", "loading"} /\ asked'[d] = asked[d]
    BY <1>7, <1>8, <2>1
  <2>. QED
    BY <1>1, <2>2 DEF TypeOK
<1>9. CASE start(c)
  <2>1. configure(asked[c]) /\ Goes(c, "answered") /\ UNCHANGED stats /\ running' = TRUE
    BY <1>9 DEF start
  <2>2. /\ concurrency' \in 2..(2 * Limit) /\ fraudRate' \in FraudRate
        /\ Loops(concurrency') \in 1..Limit
    BY <1>1, <1>3, <2>1, ConfigureFacts
  <2>3. call' \in [Calls -> Phases] /\ InFlight' = InFlight
    BY <1>1, <1>2, <2>1, InFlightMoves DEF Phases
  <2>4. \A d \in Calls : call'[d] = IF d = c THEN "answered" ELSE call[d]
    BY <1>1, <2>1 DEF Goes
  <2>5. /\ honest' \in Nat /\ fraudulent' \in Nat /\ asleep' \in Nat /\ started' \in Nat
        /\ started' - started = (honest' + fraudulent') - (honest + fraudulent)
    <3>1. CASE running /\ UNCHANGED <<started, loops>>
      BY <1>1, <3>1 DEF loops, TypeOK
    <3>2. CASE ~running
      <4>1. PICK n \in Nat : n = Loops(concurrency')
        BY <2>2, DriverAssumption
      <4>2. PICK k \in Frauds(n, fraudRate') :
               fraudulent' = fraudulent + k /\ honest' = honest + (n - k)
        BY <1>9, <3>2, <4>1 DEF start
      <4>3. k \in 0..n
        BY <2>2, <4>2, FraudsFacts
      <4>4. started' = started + n /\ asleep' = asleep
        BY <1>9, <3>2, <4>1 DEF start
      <4>5. honest \in Nat /\ fraudulent \in Nat /\ asleep \in Nat /\ started \in Nat
        BY <1>1 DEF TypeOK
      <4>. QED
        BY <4>2, <4>3, <4>4, <4>5
    <3>. QED
      BY <1>9, <3>1, <3>2 DEF start
  <2>6. TypeOK'
    BY <1>1, <1>4, <1>5, <1>8, <2>1, <2>2, <2>3, <2>4, <2>5 DEF TypeOK, stats, Phases
  <2>7. CountersAddUp'
    BY <1>1, <1>6, <2>1, <2>3, <2>5 DEF CountersAddUp, TypeOK, stats
  <2>. QED
    BY <1>5, <2>6, <2>7 DEF IInv, PublishersFirst
<1>10. CASE runOnce(c)
  <2>1. /\ configure(asked[c]) /\ UNCHANGED stats /\ UNCHANGED loops
        /\ started' = started + 1 /\ running' = running
    BY <1>10 DEF runOnce
  <2>2. concurrency' \in 2..(2 * Limit) /\ fraudRate' \in FraudRate
    BY <1>1, <1>3, <2>1, ConfigureFacts
  <2>3. PICK where \in {"honest", "fraudulent"} : Goes(c, where)
    BY <1>10 DEF runOnce
  <2>4. call' \in [Calls -> Phases] /\ Cardinality(InFlight') = Cardinality(InFlight) + 1
    BY <1>1, <1>2, <2>3, InFlightMoves DEF Phases
  <2>5. \A d \in Calls : call'[d] = IF d = c THEN where ELSE call[d]
    BY <1>1, <2>3 DEF Goes
  <2>6. TypeOK'
    BY <1>1, <1>4, <1>5, <1>8, <2>1, <2>2, <2>4, <2>5 DEF TypeOK, stats, loops, Phases
  <2>7. CountersAddUp'
    BY <1>1, <1>6, <2>1, <2>4 DEF CountersAddUp, TypeOK, stats, loops
  <2>. QED
    BY <1>5, <2>6, <2>7 DEF IInv, PublishersFirst
<1>. QED
  BY <1>9, <1>10 DEF Perform

(***************************************************************************)
(* An outcome moves one attempt into one counter, with a reason if it was  *)
(* blocked.                                                                *)
(***************************************************************************)
LEMMA OutcomeFacts ==
    ASSUME TypeOK, HonestEnds \/ FraudEnds
    PROVE  \E s, b, f, r \in 0..1 :
              /\ settled' = settled + s /\ blocked' = blocked + b
              /\ failed' = failed + f /\ recorded' = recorded + r
              /\ s + b + f = 1 /\ b <= r /\ r <= b + f
PROOF
<1> DEFINE Out(s, b, f, r) ==
              /\ settled' = settled + s /\ blocked' = blocked + b
              /\ failed' = failed + f /\ recorded' = recorded + r
<1>1. settled \in Nat /\ blocked \in Nat /\ failed \in Nat /\ recorded \in Nat
  BY DEF TypeOK
<1>2. NothingToBuy => Out(0, 0, 1, 0)
  BY <1>1 DEF NothingToBuy
<1>3. Settled => Out(1, 0, 0, 0)
  BY <1>1 DEF Settled
<1>4. Refused => Out(0, 0, 1, 1)
  BY <1>1 DEF Refused
<1>5. FraudBlocked => Out(0, 1, 0, 1)
  BY <1>1 DEF FraudBlocked
<1>6. FraudAccepted => Out(0, 0, 1, 1)
  BY <1>1 DEF FraudAccepted
<1>7. Out(0, 0, 1, 0) \/ Out(1, 0, 0, 0) \/ Out(0, 0, 1, 1) \/ Out(0, 1, 0, 1)
  BY <1>2, <1>3, <1>4, <1>5, <1>6 DEF HonestEnds, FraudEnds
<1> HIDE DEF Out
<1>8. \E s, b, f, r \in 0..1 : Out(s, b, f, r) /\ s + b + f = 1 /\ b <= r /\ r <= b + f
  BY <1>7
<1>. QED
  BY <1>8 DEF Out

(***************************************************************************)
(* A loop moves no request and asks for nothing.                           *)
(***************************************************************************)
LEMMA LoopKeeps ==
    ASSUME IInv, Loop
    PROVE  IInv'
PROOF
<1>1. TypeOK /\ CountersAddUp /\ PublishersFirst
  BY DEF IInv
<1>2. UNCHANGED <<call, asked, loaded, running, options>>
  BY DEF Loop, EndHonest, EndFraud, WakeUp, WakeUpStopped
<1>3. InFlight' = InFlight
  BY <1>2 DEF InFlight
<1>4. Cardinality(InFlight) \in Nat
  BY InFlightFinite
<1>5. /\ honest \in Nat /\ fraudulent \in Nat /\ asleep \in Nat /\ started \in Nat
      /\ settled \in Nat /\ blocked \in Nat /\ failed \in Nat /\ recorded \in Nat
  BY <1>1 DEF TypeOK
<1> DEFINE Books == settled + blocked + failed + honest + fraudulent
           Ok == /\ honest' \in Nat /\ fraudulent' \in Nat /\ asleep' \in Nat /\ started' \in Nat
                 /\ settled' \in Nat /\ blocked' \in Nat /\ failed' \in Nat /\ recorded' \in Nat
                 /\ Books' - Books = started' - started
                 /\ blocked' <= recorded' /\ recorded' <= blocked' + failed'
                 /\ Active' > 0 => Active > 0
<1>6. Ok
  <2>1. CASE EndHonest
    <3>1. PICK s, b, f, r \in 0..1 :
             /\ settled' = settled + s /\ blocked' = blocked + b
             /\ failed' = failed + f /\ recorded' = recorded + r
             /\ s + b + f = 1 /\ b <= r /\ r <= b + f
      BY <1>1, <2>1, OutcomeFacts DEF EndHonest
    <3>2. honest > 0 /\ honest' = honest - 1 /\ fraudulent' = fraudulent /\ started' = started
      BY <2>1 DEF EndHonest
    <3>3. asleep' = asleep \/ asleep' = asleep + 1
      BY <2>1 DEF EndHonest, SleepUnlessStopped
    <3>. QED
      BY <1>1, <1>5, <3>1, <3>2, <3>3 DEF Active, CountersAddUp
  <2>2. CASE EndFraud
    <3>1. PICK s, b, f, r \in 0..1 :
             /\ settled' = settled + s /\ blocked' = blocked + b
             /\ failed' = failed + f /\ recorded' = recorded + r
             /\ s + b + f = 1 /\ b <= r /\ r <= b + f
      BY <1>1, <2>2, OutcomeFacts DEF EndFraud
    <3>2. fraudulent > 0 /\ fraudulent' = fraudulent - 1 /\ honest' = honest /\ started' = started
      BY <2>2 DEF EndFraud
    <3>3. asleep' = asleep \/ asleep' = asleep + 1
      BY <2>2 DEF EndFraud, SleepUnlessStopped
    <3>. QED
      BY <1>1, <1>5, <3>1, <3>2, <3>3 DEF Active, CountersAddUp
  <2>3. CASE WakeUp
    <3>1. PICK k \in Frauds(1, fraudRate) :
             fraudulent' = fraudulent + k /\ honest' = honest + (1 - k)
      BY <2>3 DEF WakeUp
    <3>2. k \in 0..1
      BY <1>1, <3>1, FraudsFacts DEF TypeOK
    <3>3. /\ asleep > 0 /\ asleep' = asleep - 1 /\ started' = started + 1
          /\ settled' = settled /\ blocked' = blocked /\ failed' = failed /\ recorded' = recorded
      BY <2>3 DEF WakeUp, stats
    <3>. QED
      BY <1>1, <1>5, <3>1, <3>2, <3>3 DEF Active, CountersAddUp
  <2>4. CASE WakeUpStopped
    <3>1. /\ asleep > 0 /\ asleep' = asleep - 1 /\ started' = started
          /\ honest' = honest /\ fraudulent' = fraudulent
          /\ settled' = settled /\ blocked' = blocked /\ failed' = failed /\ recorded' = recorded
      BY <2>4 DEF WakeUpStopped, stats
    <3>. QED
      BY <1>1, <1>5, <3>1 DEF Active, CountersAddUp
  <2>. QED
    BY <2>1, <2>2, <2>3, <2>4 DEF Loop
<1>7. TypeOK'
  BY <1>1, <1>2, <1>6 DEF TypeOK, options
<1>8. CountersAddUp'
  <2>1. started = Books + Cardinality(InFlight)
    BY <1>1, <1>4, <1>5 DEF CountersAddUp
  <2>2. started' = Books' + Cardinality(InFlight')
    BY <1>3, <1>4, <1>5, <1>6, <2>1
  <2>. QED
    BY <1>3, <1>4, <1>6, <2>2 DEF CountersAddUp
<1>9. PublishersFirst'
  BY <1>1, <1>2, <1>3, <1>6 DEF PublishersFirst, options
<1>. QED
  BY <1>7, <1>8, <1>9 DEF IInv

(***************************************************************************)
(* A process that ends leaves nothing in flight and nothing counted.       *)
(***************************************************************************)
LEMMA EndKeeps ==
    ASSUME IInv, NEW c \in Calls, BodyCut(c) \/ NullBody(c)
    PROVE  IInv' /\ Active' = 0 /\ honest' + fraudulent' = 0
PROOF
<1>1. ProcessEnds(c)
  BY DEF BodyCut, NullBody
<1>2. \A d \in Calls : call'[d] \in {"new", "answered"}
  BY <1>1 DEF ProcessEnds
<1>3. InFlight' = {}
  BY <1>2 DEF InFlight
<1>4. Cardinality(InFlight') = 0
  BY <1>3, FS_EmptySet
<1>5. TypeOK'
  <2>1. 2 * DefaultConcurrency \in 2..(2 * Limit)
    BY DriverAssumption
  <2>. QED
    BY <1>1, <1>2, <2>1 DEF ProcessEnds, TypeOK, FraudRate
<1>6. CountersAddUp'
  BY <1>1, <1>4 DEF ProcessEnds, CountersAddUp
<1>7. Active' = 0 /\ honest' + fraudulent' = 0 /\ ~running'
  BY <1>1 DEF ProcessEnds, Active
<1>8. PublishersFirst'
  BY <1>3, <1>7 DEF PublishersFirst
<1>. QED
  BY <1>5, <1>6, <1>7, <1>8 DEF IInv

(***************************************************************************)
(* The rest of a request: reading it, stopping, waiting for publishers and *)
(* the end of the attempt of /once.                                        *)
(***************************************************************************)
LEMMA RequestKeeps ==
    ASSUME IInv, NEW c \in Calls,
           \/ \E request \in Requests : Receive(c, request)
           \/ stop(c) \/ AskForPublishers(c) \/ NoPublishers(c) \/ EndOnce(c)
    PROVE  IInv'
PROOF
<1>1. /\ TypeOK /\ CountersAddUp /\ PublishersFirst
      /\ call \in [Calls -> Phases] /\ asked \in [Calls -> Requests \cup {None}]
  BY DEF IInv, TypeOK, Phases
<1>2. Cardinality(InFlight) \in Nat
  BY InFlightFinite
<1>3. /\ honest \in Nat /\ fraudulent \in Nat /\ asleep \in Nat /\ started \in Nat
      /\ settled \in Nat /\ blocked \in Nat /\ failed \in Nat /\ recorded \in Nat
  BY <1>1 DEF TypeOK
<1>4. ASSUME NEW where \in Phases \ {"honest", "fraudulent"}, Goes(c, where),
             \/ \E request \in Requests :
                   asked' = [asked EXCEPT ![c] = request] /\ request.route \in {"/start", "/once"}
             \/ where = "loading" /\ call[c] = "read" /\ asked' = asked
             \/ where = "answered" /\ asked' \in {asked, [asked EXCEPT ![c] = None]}
      PROVE  /\ call' \in [Calls -> Phases] /\ asked' \in [Calls -> Requests \cup {None}]
             /\ \A d \in Calls : call'[d] \in {"read", "loading"} =>
                   asked'[d] \in Requests /\ asked'[d].route \in {"/start", "/once"}
  <2>1. call' \in [Calls -> Phases] /\ \A d \in Calls : call'[d] = IF d = c THEN where ELSE call[d]
    BY <1>1, <1>4 DEF Goes
  <2>2. asked' \in [Calls -> Requests \cup {None}] /\ \A d \in Calls : d # c => asked'[d] = asked[d]
    BY <1>1, <1>4
  <2>3. ASSUME where \in {"read", "loading"}
        PROVE  asked'[c] \in Requests /\ asked'[c].route \in {"/start", "/once"}
    BY <1>1, <1>4, <2>3 DEF TypeOK
  <2>4. ASSUME NEW d \in Calls, d # c, call'[d] \in {"read", "loading"}
        PROVE  asked'[d] \in Requests /\ asked'[d].route \in {"/start", "/once"}
    BY <1>1, <2>1, <2>2, <2>4 DEF TypeOK
  <2>. QED
    BY <2>1, <2>2, <2>3, <2>4
<1>5. CASE \E request \in Requests : Receive(c, request)
  <2>1. PICK request \in Requests : Receive(c, request)
    BY <1>5
  <2>2. /\ Goes(c, "read") /\ c \notin InFlight
        /\ asked' = [asked EXCEPT ![c] = request] /\ request.route \in {"/start", "/once"}
        /\ UNCHANGED <<loaded, running, options, loops, started, stats>>
    BY <2>1 DEF Receive, Arrives, InFlight, Requests, Commands
  <2>3. InFlight' = InFlight
    BY <1>1, <2>2, InFlightMoves
  <2>4. TypeOK'
    BY <1>1, <1>4, <2>2 DEF TypeOK, Phases, options, loops, stats
  <2>. QED
    BY <1>1, <2>2, <2>3, <2>4 DEF IInv, CountersAddUp, PublishersFirst, Active, loops, stats
<1>6. CASE stop(c)
  <2>1. /\ Goes(c, "answered") /\ c \notin InFlight /\ running' = FALSE
        /\ UNCHANGED <<asked, loaded, options, loops, started, stats>>
    BY <1>6 DEF stop, Arrives, InFlight
  <2>2. InFlight' = InFlight
    BY <1>1, <2>1, InFlightMoves
  <2>3. TypeOK'
    BY <1>1, <1>4, <2>1 DEF TypeOK, Phases, options, loops, stats
  <2>. QED
    BY <1>1, <2>1, <2>2, <2>3 DEF IInv, CountersAddUp, PublishersFirst, Active, loops, stats
<1>7. CASE AskForPublishers(c)
  <2>1. /\ Goes(c, "loading") /\ c \notin InFlight /\ call[c] = "read"
        /\ UNCHANGED <<asked, loaded, running, options, loops, started, stats>>
    BY <1>7 DEF AskForPublishers, InFlight
  <2>2. InFlight' = InFlight
    BY <1>1, <2>1, InFlightMoves
  <2>3. TypeOK'
    BY <1>1, <1>4, <2>1 DEF TypeOK, Phases, options, loops, stats
  <2>. QED
    BY <1>1, <2>1, <2>2, <2>3 DEF IInv, CountersAddUp, PublishersFirst, Active, loops, stats
<1>8. CASE NoPublishers(c)
  <2>1. /\ Goes(c, "answered") /\ c \notin InFlight /\ asked' = [asked EXCEPT ![c] = None]
        /\ UNCHANGED <<loaded, running, options, loops, started, stats>>
    BY <1>8 DEF NoPublishers, InFlight
  <2>2. InFlight' = InFlight
    BY <1>1, <2>1, InFlightMoves
  <2>3. TypeOK'
    BY <1>1, <1>4, <2>1 DEF TypeOK, Phases, options, loops, stats
  <2>. QED
    BY <1>1, <2>1, <2>2, <2>3 DEF IInv, CountersAddUp, PublishersFirst, Active, loops, stats
<1>9. CASE EndOnce(c)
  <2>1. /\ Goes(c, "answered") /\ c \in InFlight
        /\ UNCHANGED <<asked, loaded, running, options, loops, started>>
    BY <1>9 DEF EndOnce, InFlight
  <2>2. PICK s, b, f, r \in 0..1 :
             /\ settled' = settled + s /\ blocked' = blocked + b
             /\ failed' = failed + f /\ recorded' = recorded + r
             /\ s + b + f = 1 /\ b <= r /\ r <= b + f
    BY <1>1, <1>9, OutcomeFacts DEF EndOnce
  <2>3. PICK n \in Nat : n = Cardinality(InFlight) /\ Cardinality(InFlight') = n - 1
    BY <1>1, <1>2, <2>1, InFlightMoves
  <2>4. settled' \in Nat /\ blocked' \in Nat /\ failed' \in Nat /\ recorded' \in Nat
    BY <1>3, <2>2
  <2>5. TypeOK'
    BY <1>1, <1>4, <2>1, <2>4 DEF TypeOK, Phases, options, loops
  <2>6. CountersAddUp'
    <3>1. started' = started /\ honest' = honest /\ fraudulent' = fraudulent
      BY <2>1 DEF loops
    <3>. QED
      BY <1>1, <1>3, <2>2, <2>3, <3>1 DEF CountersAddUp
  <2>. QED
    <3>1. running \/ Active > 0 \/ InFlight # {} => loaded
      BY <1>1 DEF PublishersFirst
    <3>2. InFlight' # {} => InFlight # {}
      BY <2>1, <1>1 DEF Goes, InFlight
    <3>. QED
      BY <2>1, <2>5, <2>6, <3>1, <3>2 DEF IInv, PublishersFirst, Active, loops
<1>. QED
  BY <1>5, <1>6, <1>7, <1>8, <1>9

(***************************************************************************)
(* Every step keeps the invariant.                                         *)
(***************************************************************************)
LEMMA NextKeeps == IInv /\ [Next]_vars => IInv'
PROOF
<1> SUFFICES ASSUME IInv, [Next]_vars PROVE IInv'
  OBVIOUS
<1>1. CASE UNCHANGED vars
  <2>1. InFlight' = InFlight
    BY <1>1 DEF InFlight, vars
  <2>. QED
    BY <1>1, <2>1 DEF IInv, TypeOK, CountersAddUp, PublishersFirst, Active, vars, options, loops, stats
<1>2. ASSUME NEW c \in Calls,
             \/ \E request \in Requests : Receive(c, request)
             \/ stop(c) \/ BodyCut(c) \/ Handler(c)
      PROVE  IInv'
  BY <1>2, RequestKeeps, PerformKeeps, EndKeeps DEF Handler
<1>3. CASE Loop
  BY <1>3, LoopKeeps
<1>. QED
  BY <1>1, <1>2, <1>3 DEF Next

(***************************************************************************)
(* Every behaviour of the driver keeps the invariant.                      *)
(***************************************************************************)
THEOREM InvariantHolds == Spec => []IInv
PROOF
  BY InitHolds, NextKeeps, PTL DEF Spec

(***************************************************************************)
(* Every variable keeps its type, and the agents asked for their limits.   *)
(***************************************************************************)
THEOREM TypeCorrect == Spec => []TypeOK
PROOF
<1>1. IInv => TypeOK
  BY DEF IInv
<1>. QED
  BY <1>1, InvariantHolds, PTL

(***************************************************************************)
(* Whatever purchases are under way, the counters of runner.ts add up.     *)
(***************************************************************************)
THEOREM BooksBalance == Spec => []CountersAddUp
PROOF
<1>1. IInv => CountersAddUp
  BY DEF IInv
<1>. QED
  BY <1>1, InvariantHolds, PTL

(***************************************************************************)
(* runOnce never looks for a publisher in vain: its first refusal, which   *)
(* the module leaves out, is dead code behind ensurePublishers.            *)
(***************************************************************************)
THEOREM PublishersKnown == Spec => []PublishersFirst
PROOF
<1>1. IInv => PublishersFirst
  BY DEF IInv
<1>. QED
  BY <1>1, InvariantHolds, PTL

(***************************************************************************)
(* Only a start that finds the population stopped adds agents, and after a *)
(* stop no loop begins an attempt.                                         *)
(***************************************************************************)
THEOREM StartAndStop == Spec => OnlyAStartAddsAgents /\ StoppedLoopsBeginNothing
PROOF
<1>1. ASSUME IInv, [Next]_vars
      PROVE  /\ Active' > Active => ~running /\ running' /\ Active' = Active + Loops(concurrency')
             /\ honest' + fraudulent' > honest + fraudulent => running'
  <2>1. /\ TypeOK
        /\ honest \in Nat /\ fraudulent \in Nat /\ asleep \in Nat
    BY <1>1 DEF IInv, TypeOK
  <2>2. CASE UNCHANGED loops
    BY <2>1, <2>2 DEF loops, Active
  <2>3. ASSUME NEW c \in Calls, Perform(c), start(c), ~running
        PROVE  running' /\ Active' = Active + Loops(concurrency')
    <3>1. PICK k \in Frauds(Loops(concurrency'), fraudRate') :
             fraudulent' = fraudulent + k /\ honest' = honest + (Loops(concurrency') - k)
      BY <2>3 DEF start
    <3>2. asked[c] \in Requests
      BY <2>1, <2>3 DEF Perform, TypeOK
    <3>3. Loops(concurrency') \in 1..Limit /\ fraudRate' \in FraudRate
      BY <2>1, <2>3, <3>2, ConfigureFacts DEF start
    <3>4. k \in 0..Loops(concurrency') /\ Loops(concurrency') \in Nat
      BY <3>1, <3>3, FraudsFacts, DriverAssumption
    <3>5. asleep' = asleep /\ running' = TRUE
      BY <2>3 DEF start
    <3>. QED
      BY <2>1, <3>1, <3>4, <3>5 DEF Active
  <2>4. CASE Loop
    <3>1. CASE EndHonest \/ EndFraud \/ WakeUpStopped
      BY <2>1, <3>1 DEF EndHonest, EndFraud, WakeUpStopped, SleepUnlessStopped, Active
    <3>2. CASE WakeUp
      <4>1. PICK k \in Frauds(1, fraudRate) :
               fraudulent' = fraudulent + k /\ honest' = honest + (1 - k)
        BY <3>2 DEF WakeUp
      <4>2. k \in 0..1
        BY <2>1, <4>1, FraudsFacts DEF TypeOK
      <4>3. asleep > 0 /\ asleep' = asleep - 1 /\ running /\ running' = running
        BY <3>2 DEF WakeUp
      <4>. QED
        BY <2>1, <4>1, <4>2, <4>3 DEF Active
    <3>. QED
      BY <2>4, <3>1, <3>2 DEF Loop
  <2>5. \/ UNCHANGED loops
        \/ Loop
        \/ \E c \in Calls : BodyCut(c) \/ NullBody(c)
        \/ \E c \in Calls : Perform(c) /\ start(c) /\ ~running
    <3>1. ASSUME NEW c \in Calls, Perform(c)
          PROVE  UNCHANGED loops \/ (start(c) /\ ~running)
      BY <3>1 DEF Perform, start, runOnce
    <3>2. ASSUME NEW c \in Calls,
                 \/ \E request \in Requests : Receive(c, request)
                 \/ stop(c) \/ AskForPublishers(c) \/ NoPublishers(c) \/ EndOnce(c)
          PROVE  UNCHANGED loops
      BY <3>2 DEF Receive, stop, AskForPublishers, NoPublishers, EndOnce
    <3>3. UNCHANGED vars => UNCHANGED loops
      BY DEF vars
    <3>. QED
      BY <1>1, <3>1, <3>2, <3>3 DEF Next, Handler
  <2>6. ASSUME NEW c \in Calls, BodyCut(c) \/ NullBody(c)
        PROVE  Active' = 0 /\ honest' + fraudulent' = 0
    BY <1>1, <2>6, EndKeeps
  <2>. QED
    BY <2>1, <2>2, <2>3, <2>4, <2>5, <2>6 DEF Active
<1>2. [Next]_vars /\ IInv => [Active' > Active => ~running /\ running' /\ Active' = Active + Loops(concurrency')]_vars
  BY <1>1
<1>3. [Next]_vars /\ IInv => [honest' + fraudulent' > honest + fraudulent => running']_vars
  BY <1>1
<1>. QED
  BY <1>2, <1>3, InvariantHolds, PTL DEF Spec, OnlyAStartAddsAgents, StoppedLoopsBeginNothing
=============================================================================
