-------------------------- MODULE FacilitatorProofs -------------------------
(***************************************************************************)
(* What TLAPS proves of Facilitator, for any calls, payloads and clock.    *)
(***************************************************************************)
EXTENDS Facilitator, WellFoundedInduction, FiniteSetTheorems, TLAPS

(***************************************************************************)
(* A transfer is what Settle leaves: an answered call whose checks all     *)
(* held when it came in.  Calls that reach their checks have been          *)
(* validated.                                                              *)
(***************************************************************************)
CallsInv ==
    /\ pc \in [Calls -> {"new", "verifying", "over"}]
    /\ ask \in [Calls -> Requests]
    /\ at \in [Calls -> Nat] /\ clock \in Nat
    /\ answer \in [Calls -> Answers]
    /\ \A c \in Calls : pc[c] = "verifying" => WellFormed(ReadJson(ask[c].body))

TransfersInv ==
    /\ transfers \subseteq Calls
    /\ \A c \in transfers : /\ pc[c] = "over" /\ answer[c] = "settled"
                            /\ WellFormed(ReadJson(ask[c].body))
                            /\ Outcome(c) = "valid"

IInv == CallsInv /\ TransfersInv /\ EachTextOnce

(***************************************************************************)
(* The fields of a typed message are numbers, and those of an              *)
(* authorization that can be read are what they were (toTypedMessage).     *)
(***************************************************************************)
LEMMA TypedMessage ==
    ASSUME NEW a
    PROVE  LET m == ToTypedMessage(a)
           IN  /\ m.value \in Nat /\ m.validAfter \in Nat /\ m.validBefore \in Nat
               /\ Readable(a) => /\ m.value = a.value /\ m.validAfter = a.validAfter
                                 /\ m.validBefore = a.validBefore
PROOF
<1>1. \A raw : ToUint256(raw) \in Nat /\ (raw \in Uint256 => ToUint256(raw) = raw)
  BY PaymentsAssumption DEF ToUint256, Uint256
<1>2. Readable(a) => /\ a.value \in Uint256 /\ a.validAfter \in Uint256
                     /\ a.validBefore \in Uint256
  BY DEF Readable, Fields
<1>. QED
  BY <1>1, <1>2 DEF ToTypedMessage

(***************************************************************************)
(* Where a check fails there is a first one that does.                     *)
(***************************************************************************)
LEMMA SomeCheckIsFirst ==
    ASSUME NEW p, NEW q, NEW now, Failing(p, q, now) # {}
    PROVE  \E k \in Failing(p, q, now) : \A j \in Failing(p, q, now) : k <= j
PROOF
<1> DEFINE failing == Failing(p, q, now)
<1>1. failing \subseteq 1..11 /\ failing \subseteq Nat
  BY DEF Failing
<1>2. \E i \in failing : \A j \in failing : ~(<<j, i>> \in OpToRel(<, Nat))
  BY <1>1, NatLessThanWellFounded, WFMin
<1>. QED
  BY <1>1, <1>2 DEF OpToRel

(***************************************************************************)
(* It is what the verdict is made from.                                    *)
(***************************************************************************)
LEMMA FirstFailing ==
    ASSUME NEW p, NEW q, NEW now, Failing(p, q, now) # {}
    PROVE  (CHOOSE i \in Failing(p, q, now) : \A j \in Failing(p, q, now) : i <= j) \in 1..11
PROOF
  BY SomeCheckIsFirst DEF Failing

(***************************************************************************)
(* A verdict is "valid" only when no check fails: the first check that     *)
(* fails names the verdict.                                                *)
(***************************************************************************)
LEMMA ValidMeansAllHold ==
    ASSUME NEW p, NEW q, NEW now, Verdict(p, q, now) = "valid"
    PROVE  \A i \in 1..11 : Holds(i, p, q, now)
PROOF
<1>1. \A i \in 1..11 : Reasons[i] # "valid"
  BY DEF Reasons
<1>2. Failing(p, q, now) = {}
  BY <1>1, FirstFailing DEF Verdict
<1>. QED
  BY <1>2 DEF Failing

(***************************************************************************)
(* A verdict is one of the answers.                                        *)
(***************************************************************************)
LEMMA VerdictIsAnAnswer ==
    /\ \A p, q, now : Verdict(p, q, now) \in Answers
    /\ NoVerdict \cup {"valid", "settled", "nonce_already_used"} \subseteq Answers
PROOF
<1>1. \A i \in 1..11 : Reasons[i] \in Answers
  BY DEF Answers
<1>2. NoVerdict \cup {"valid", "settled", "nonce_already_used"} \subseteq Answers
  BY DEF Answers
<1>. QED
  BY <1>1, <1>2, FirstFailing DEF Verdict

(***************************************************************************)
(* Nothing has been asked of a new process.                                *)
(***************************************************************************)
LEMMA InitHolds == Init => IInv
PROOF
<1> SUFFICES ASSUME Init PROVE IInv
  OBVIOUS
<1>1. CallsInv
  BY VerdictIsAnAnswer DEF Init, CallsInv, NoVerdict
<1>2. TransfersInv
  BY DEF Init, TransfersInv
<1>3. EachTextOnce
  BY DEF Init, EachTextOnce
<1>. QED
  BY <1>1, <1>2, <1>3 DEF IInv

(***************************************************************************)
(* A handler that transfers nothing touches its own call only, and that    *)
(* call was not over.                                                      *)
(***************************************************************************)
LEMMA NoTransferKeeps ==
    ASSUME IInv, NEW c \in Calls, pc[c] # "over",
           UNCHANGED <<ask, nonces, transfers>>, CallsInv',
           \A d \in Calls : d # c => pc'[d] = pc[d] /\ answer'[d] = answer[d] /\ at'[d] = at[d]
    PROVE  IInv'
PROOF
<1>1. c \notin transfers /\ transfers \subseteq Calls
  BY DEF IInv, TransfersInv
<1>2. \A d \in transfers : pc'[d] = pc[d] /\ answer'[d] = answer[d] /\ at'[d] = at[d]
  BY <1>1
<1>3. TransfersInv'
  BY <1>1, <1>2 DEF IInv, TransfersInv, Outcome, Payload, Required
<1>4. EachTextOnce'
  BY DEF IInv, EachTextOnce, Nonce, Payload
<1>. QED
  BY <1>3, <1>4 DEF IInv

(***************************************************************************)
(* A transfer adds its call and the nonce that no transfer had.            *)
(***************************************************************************)
LEMMA SettleKeeps ==
    ASSUME IInv, NEW c \in Calls, Settle(c)
    PROVE  IInv'
PROOF
<1>1. CallsInv'
  BY VerdictIsAnAnswer DEF IInv, CallsInv, Settle, Answer
<1>2. \A d \in Calls : d # c => pc'[d] = pc[d] /\ answer'[d] = answer[d]
  BY DEF IInv, CallsInv, Settle, Answer
<1>3. ask' = ask /\ at' = at /\ pc[c] = "verifying"
  BY DEF Settle
<1>4. CASE Nonce(c) \in nonces
  <2>1. UNCHANGED <<ask, nonces, transfers>>
    BY <1>4 DEF Settle
  <2>. QED
    BY <1>1, <1>2, <1>3, <2>1, NoTransferKeeps
<1>5. CASE Nonce(c) \notin nonces
  <2>1. /\ nonces' = nonces \cup {Nonce(c)}
        /\ transfers' = transfers \cup {c}
        /\ pc'[c] = "over" /\ answer'[c] = "settled"
    BY <1>5 DEF IInv, CallsInv, Settle, Answer
  <2>2. c \notin transfers /\ transfers \subseteq Calls
    BY <1>3 DEF IInv, TransfersInv
  <2>3. Outcome(c) = "valid" /\ WellFormed(ReadJson(ask[c].body))
    BY <1>3 DEF Settle, IInv, CallsInv
  <2>4. TransfersInv'
    <3>1. ASSUME NEW d \in transfers, d # c
          PROVE  /\ pc'[d] = "over" /\ answer'[d] = "settled"
                 /\ WellFormed(ReadJson(ask'[d].body)) /\ Outcome(d)' = "valid"
      BY <1>2, <1>3, <2>2, <3>1 DEF IInv, TransfersInv, Outcome, Payload, Required
    <3>2. Outcome(c)' = "valid" /\ WellFormed(ReadJson(ask'[c].body))
      BY <1>3, <2>3 DEF Outcome, Payload, Required
    <3>. QED
      BY <2>1, <2>2, <3>1, <3>2 DEF TransfersInv
  <2>5. EachTextOnce'
    <3>1. \A d : Nonce(d)' = Nonce(d)
      BY <1>3 DEF Nonce, Payload
    <3>2. \A d \in transfers : Nonce(d) # Nonce(c)
      BY <1>5 DEF IInv, EachTextOnce
    <3>3. nonces' = {Nonce(d) : d \in transfers \cup {c}}
      BY <2>1 DEF IInv, EachTextOnce
    <3>4. \A d, e \in transfers \cup {c} : Nonce(d) = Nonce(e) => d = e
      BY <3>2 DEF IInv, EachTextOnce
    <3>. QED
      BY <2>1, <3>1, <3>3, <3>4 DEF EachTextOnce
  <2>. QED
    BY <1>1, <2>4, <2>5 DEF IInv
<1>. QED
  BY <1>4, <1>5

(***************************************************************************)
(* Every step keeps the invariant.                                         *)
(***************************************************************************)
LEMMA NextKeeps == IInv /\ [Next]_vars => IInv'
PROOF
<1> SUFFICES ASSUME IInv, [Next]_vars PROVE IInv'
  OBVIOUS
<1>1. ASSUME NEW c \in Calls, Receive(c)
      PROVE  IInv'
  <2>1. CallsInv'
    BY <1>1, VerdictIsAnAnswer DEF IInv, CallsInv, Receive, Answer, NoVerdict
  <2>2. /\ pc[c] # "over" /\ UNCHANGED <<ask, nonces, transfers>>
        /\ \A d \in Calls : d # c => pc'[d] = pc[d] /\ answer'[d] = answer[d] /\ at'[d] = at[d]
    BY <1>1 DEF IInv, CallsInv, Receive, Answer
  <2>. QED
    BY <2>1, <2>2, NoTransferKeeps
<1>2. ASSUME NEW c \in Calls, AnswerVerify(c) \/ RejectSettle(c)
      PROVE  IInv'
  <2>1. Outcome(c) \in Answers
    BY VerdictIsAnAnswer DEF Outcome, Payload, Required
  <2>2. CallsInv'
    BY <1>2, <2>1 DEF IInv, CallsInv, AnswerVerify, RejectSettle, Answer
  <2>3. /\ pc[c] # "over" /\ UNCHANGED <<ask, nonces, transfers>>
        /\ \A d \in Calls : d # c => pc'[d] = pc[d] /\ answer'[d] = answer[d] /\ at'[d] = at[d]
    BY <1>2 DEF IInv, CallsInv, AnswerVerify, RejectSettle, Answer
  <2>. QED
    BY <2>2, <2>3, NoTransferKeeps
<1>3. ASSUME NEW mode \in FaultModes, SetFault(mode)
      PROVE  IInv'
  BY <1>3 DEF IInv, CallsInv, TransfersInv, EachTextOnce, SetFault, Outcome, Payload, Required, Nonce
<1>4. CASE Tick
  BY <1>4 DEF IInv, CallsInv, TransfersInv, EachTextOnce, Tick, Outcome, Payload, Required, Nonce
<1>5. CASE Restart
  <2>1. CallsInv'
    BY <1>5 DEF IInv, CallsInv, Restart
  <2>. QED
    BY <1>5, <2>1 DEF IInv, TransfersInv, EachTextOnce, Restart
<1>6. CASE UNCHANGED vars
  BY <1>6 DEF IInv, CallsInv, TransfersInv, EachTextOnce, vars, Outcome, Payload, Required, Nonce
<1>. QED
  BY <1>1, <1>2, <1>3, <1>4, <1>5, <1>6, SettleKeeps DEF Next, Resume

(***************************************************************************)
(* Every behaviour of the facilitator keeps the invariant.                 *)
(***************************************************************************)
THEOREM InvariantHolds == Spec => []IInv
PROOF
  BY InitHolds, NextKeeps, PTL DEF Spec

(***************************************************************************)
(* Transfers under one authorization were claimed by different texts that  *)
(* spell its nonce.                                                        *)
(***************************************************************************)
LEMMA TransfersSpellOneNonce ==
    ASSUME IInv, NEW c \in transfers, NEW d \in transfers, Digested(d) = Digested(c)
    PROVE  Nonce(d) \in Spellings(c)
PROOF
<1>1. Outcome(c) = "valid" /\ Outcome(d) = "valid"
  BY DEF IInv, TransfersInv
<1>2. Verifiable(Payload(d))
  BY <1>1, ValidMeansAllHold DEF Outcome, Holds
<1>3. NonceBytes(Nonce(d)) = NonceBytes(Nonce(c))
  BY DEF Digested, Digest, ToTypedMessage, Nonce
<1>. QED
  BY <1>2, <1>3 DEF Verifiable, NonceBytes, Spellings, Nonce

(***************************************************************************)
(* So there are no more of them than such texts.                           *)
(***************************************************************************)
LEMMA TransfersAreCounted == IInv => AtMostOncePerSpelling
PROOF
<1> SUFFICES ASSUME IInv, NEW c \in transfers
             PROVE  Cardinality({d \in transfers : Digested(d) = Digested(c)})
                      <= Cardinality(Spellings(c))
  BY DEF AtMostOncePerSpelling
<1> DEFINE same == {d \in transfers : Digested(d) = Digested(c)}
           text == [d \in same |-> Nonce(d)]
<1>1. \A d \in same : Nonce(d) \in Spellings(c)
  BY TransfersSpellOneNonce
<1>2. \A d, e \in same : Nonce(d) = Nonce(e) => d = e
  BY DEF IInv, EachTextOnce
<1>3. text \in Injection(same, Spellings(c))
  BY <1>1, <1>2 DEF Injection, IsInjective
<1>4. IsFiniteSet(Spellings(c))
  BY PaymentsAssumption, FS_Subset DEF Spellings
<1> HIDE DEF same, text
<1>5. Cardinality(same) <= Cardinality(Spellings(c))
  BY <1>3, <1>4, FS_Injection
<1>. QED
  BY <1>5 DEF same

(***************************************************************************)
(* However calls interleave at their signature checks, a process transfers *)
(* once under each text and remembers just those texts, and an             *)
(* authorization, which is signed for the bytes, pays no more often than   *)
(* its nonce has spellings (NonceLedger, handle, verifyTypedData).         *)
(***************************************************************************)
THEOREM SpellingIsSpentOnce == Spec => []SpellingsTransferOnce
PROOF
<1>1. IInv => SpellingsTransferOnce
  BY TransfersAreCounted DEF IInv, SpellingsTransferOnce
<1>. QED
  BY <1>1, InvariantHolds, PTL

(***************************************************************************)
(* Nothing is transferred that fails one of verifyPayment's checks, though *)
(* the clock moves on while the signature is checked.                      *)
(***************************************************************************)
THEOREM OnlyOwedIsTransferred == Spec => []TransfersWereOwed
PROOF
<1>1. ASSUME IInv, NEW c \in transfers
      PROVE  LET p == Payload(c)
                 q == Required(c)
             IN  /\ answer[c] = "settled"
                 /\ Readable(p.authorization) /\ Recovers(p) /\ p.scheme = Exact
                 /\ \E n \in NETWORKS : n.name = p.network /\ n.usdcAddress = q.asset
                 /\ p.network = q.network
                 /\ p.authorization.value = q.maxAmountRequired
                 /\ p.authorization.to = q.payTo
                 /\ at[c] \in p.authorization.validAfter..(p.authorization.validBefore - 1)
  <2> DEFINE p == Payload(c)
             q == Required(c)
             m == ToTypedMessage(p.authorization)
  <2>1. \A i \in 1..11 : Holds(i, p, q, at[c])
    BY <1>1, ValidMeansAllHold DEF IInv, TransfersInv, Outcome
  <2> HIDE DEF p, q
  <2>2. /\ p.scheme = Exact /\ p.network = q.network /\ Readable(p.authorization)
        /\ \E n \in NetworkParameters(p.network) : q.asset = n.usdcAddress
        /\ p.authorization.to = q.payTo /\ m.value = q.maxAmountRequired
        /\ at[c] >= m.validAfter /\ at[c] < m.validBefore
        /\ Recovers(p)
    BY <2>1 DEF Holds
  <2>3. /\ p.authorization.value = m.value /\ p.authorization.validAfter = m.validAfter
        /\ p.authorization.validBefore = m.validBefore
        /\ m.validAfter \in Nat /\ m.validBefore \in Nat
    BY <2>2, TypedMessage DEF Readable, Fields
  <2>4. at[c] \in Nat /\ answer[c] = "settled"
    BY <1>1 DEF IInv, CallsInv, TransfersInv
  <2>5. at[c] \in p.authorization.validAfter..(p.authorization.validBefore - 1)
    <3> HIDE DEF m
    <3>. QED
      BY <2>2, <2>3, <2>4
  <2>6. \E n \in NETWORKS : n.name = p.network /\ n.usdcAddress = q.asset
    BY <2>2 DEF NetworkParameters
  <2>. QED
    BY <2>2, <2>3, <2>4, <2>5, <2>6 DEF p, q
<1>2. IInv => TransfersWereOwed
  BY <1>1 DEF TransfersWereOwed
<1>. QED
  BY <1>2, InvariantHolds, PTL

-----------------------------------------------------------------------------
(***************************************************************************)
(* The rest of the type invariant: the clock, the control and the starts.  *)
(***************************************************************************)
ClockInv ==
    /\ clock \in 0..EndOfTime
    /\ at \in [Calls -> 0..EndOfTime]
    /\ fault \in FaultModes
    /\ faults \in 0..MaxFaults
    /\ life \in 1..MaxLives

(***************************************************************************)
(* No step takes the clock, the fault control or the starts out of bounds. *)
(***************************************************************************)
LEMMA ClockKept == ClockInv /\ [Next]_vars => ClockInv'
PROOF
<1> SUFFICES ASSUME ClockInv, [Next]_vars PROVE ClockInv'
  OBVIOUS
<1> USE DEF ClockInv
<1>1. ASSUME NEW c \in Calls, Receive(c)
      PROVE  ClockInv'
  BY <1>1 DEF Receive
<1>2. ASSUME NEW c \in Calls, Resume(c)
      PROVE  ClockInv'
  BY <1>2 DEF Resume, AnswerVerify, RejectSettle, Settle
<1>3. ASSUME NEW mode \in FaultModes, SetFault(mode)
      PROVE  ClockInv'
  BY <1>3, BoundsAssumption DEF SetFault
<1>4. CASE Tick
  BY <1>4, BoundsAssumption DEF Tick
<1>5. CASE Restart
  BY <1>5, BoundsAssumption DEF Restart, FaultModes
<1>6. CASE UNCHANGED vars
  BY <1>6 DEF vars
<1>. QED
  BY <1>1, <1>2, <1>3, <1>4, <1>5, <1>6 DEF Next

(***************************************************************************)
(* Every variable keeps its type; a nonce that is remembered came in a     *)
(* payment that validateRequest let through.                               *)
(***************************************************************************)
THEOREM TypeCorrect == Spec => []TypeOK
PROOF
<1>1. Init => ClockInv
  BY BoundsAssumption DEF Init, ClockInv, FaultModes
<1>2. IInv => nonces \subseteq {Nonce(c) : c \in {d \in Calls : WellFormed(ReadJson(ask[d].body))}}
  BY DEF IInv, TransfersInv, EachTextOnce
<1>3. IInv /\ ClockInv => TypeOK
  BY <1>2 DEF IInv, CallsInv, TransfersInv, ClockInv, TypeOK
<1>. QED
  BY <1>1, <1>3, ClockKept, InvariantHolds, PTL DEF Spec

-----------------------------------------------------------------------------
(***************************************************************************)
(* What a call was answered is its verdict, unless a fault, a malformed    *)
(* body or the end of the process came first; a settlement that passes     *)
(* every check is carried out or finds its nonce spent.                    *)
(***************************************************************************)
AnswersInv ==
    \A c \in Calls :
        /\ pc[c] # "over" => answer[c] = "none"
        /\ answer[c] \notin NoVerdict =>
              /\ WellFormed(ReadJson(ask[c].body))
              /\ \/ answer[c] = Outcome(c)
                 \/ /\ ask[c].route = "/settle" /\ Outcome(c) = "valid"
                    /\ answer[c] \in {"settled", "nonce_already_used"}

(***************************************************************************)
(* Every handler answers by its verdict; the clock, faults and restarts    *)
(* change no answer (handle).                                              *)
(***************************************************************************)
LEMMA AnswersKept == IInv /\ AnswersInv /\ [Next]_vars => AnswersInv'
PROOF
<1> SUFFICES ASSUME IInv, AnswersInv, [Next]_vars PROVE AnswersInv'
  OBVIOUS
<1>1. ASSUME NEW c \in Calls, Receive(c) \/ Resume(c)
      PROVE  AnswersInv'
  <2>1. /\ pc[c] # "over" /\ answer[c] = "none" /\ ask' = ask
        /\ \A d \in Calls : d # c => pc'[d] = pc[d] /\ answer'[d] = answer[d] /\ at'[d] = at[d]
    BY <1>1 DEF IInv, CallsInv, AnswersInv, Receive, Resume, AnswerVerify, RejectSettle, Settle, Answer
  <2>2. ASSUME NEW d \in Calls, d # c
        PROVE  /\ pc'[d] # "over" => answer'[d] = "none"
               /\ answer'[d] \notin NoVerdict =>
                    /\ WellFormed(ReadJson(ask'[d].body))
                    /\ \/ answer'[d] = Outcome(d)'
                       \/ /\ ask'[d].route = "/settle" /\ Outcome(d)' = "valid"
                          /\ answer'[d] \in {"settled", "nonce_already_used"}
    BY <2>1, <2>2 DEF AnswersInv, Outcome, Payload, Required
  <2>3. /\ pc'[c] # "over" => answer'[c] = "none"
        /\ answer'[c] \notin NoVerdict =>
             /\ WellFormed(ReadJson(ask'[c].body))
             /\ \/ answer'[c] = Outcome(c)'
                \/ /\ ask'[c].route = "/settle" /\ Outcome(c)' = "valid"
                   /\ answer'[c] \in {"settled", "nonce_already_used"}
    <3>1. CASE Receive(c)
      BY <2>1, <3>1 DEF IInv, CallsInv, Receive, Answer, NoVerdict
    <3>2. ASSUME Resume(c)
          PROVE  Outcome(c)' = Outcome(c) /\ WellFormed(ReadJson(ask[c].body))
      BY <3>2 DEF IInv, CallsInv, Resume, AnswerVerify, RejectSettle, Settle, Outcome, Payload, Required
    <3>3. CASE AnswerVerify(c) \/ RejectSettle(c)
      <4>1. pc'[c] = "over" /\ answer'[c] = Outcome(c)
        BY <3>3 DEF IInv, CallsInv, AnswerVerify, RejectSettle, Answer
      <4>. QED
        BY <2>1, <3>2, <3>3, <4>1 DEF Resume
    <3>4. CASE Settle(c)
      <4>1. /\ pc'[c] = "over" /\ answer'[c] \in {"settled", "nonce_already_used"}
            /\ ask[c].route = "/settle" /\ Outcome(c) = "valid"
        BY <3>4 DEF IInv, CallsInv, Settle, Answer
      <4>. QED
        BY <2>1, <3>2, <3>4, <4>1 DEF Resume
    <3>. QED
      BY <1>1, <3>1, <3>3, <3>4 DEF Resume
  <2>. QED
    BY <2>2, <2>3 DEF AnswersInv
<1>2. CASE UNCHANGED <<ask, at, answer>> /\ \A c \in Calls : pc[c] = "over" => pc'[c] = "over"
  BY <1>2 DEF AnswersInv, Outcome, Payload, Required
<1>3. ASSUME (\E mode \in FaultModes : SetFault(mode)) \/ Tick \/ Restart \/ UNCHANGED vars
      PROVE  UNCHANGED <<ask, at, answer>> /\ \A c \in Calls : pc[c] = "over" => pc'[c] = "over"
  BY <1>3 DEF SetFault, Tick, Restart, vars
<1>. QED
  BY <1>1, <1>2, <1>3 DEF Next

(***************************************************************************)
(* The verdict is the reason of the first check that fails.                *)
(***************************************************************************)
LEMMA VerdictIsFirst ==
    ASSUME NEW p, NEW q, NEW now, NEW k \in Failing(p, q, now),
           \A j \in Failing(p, q, now) : k <= j
    PROVE  Verdict(p, q, now) = Reasons[k]
PROOF
<1> DEFINE failing == Failing(p, q, now)
           first == CHOOSE i \in failing : \A j \in failing : i <= j
<1>1. failing \subseteq 1..11
  BY DEF Failing
<1>2. first \in failing /\ \A j \in failing : first <= j
  OBVIOUS
<1>3. first = k
  BY <1>1, <1>2
<1>. QED
  BY <1>3 DEF Verdict

(***************************************************************************)
(* Time undoes only the check of validBefore and brings about only that of *)
(* validAfter: between two readings of the clock a payment's verdict is    *)
(* the same, or it came too early first, or is expired at last.            *)
(***************************************************************************)
LEMMA OnlyTimeChangesVerdicts ==
    ASSUME NEW p, NEW q, NEW t \in Nat, NEW u \in Nat, t <= u
    PROVE  \/ Verdict(p, q, t) = Verdict(p, q, u)
           \/ Verdict(p, q, t) = "authorization_not_yet_valid"
           \/ Verdict(p, q, u) = "authorization_expired"
PROOF
<1> DEFINE F == Failing(p, q, t)
           G == Failing(p, q, u)
<1>1. F \subseteq 1..11 /\ G \subseteq 1..11
  BY DEF Failing
<1>2. \A i \in (1..11) \ {8, 9} : i \in F <=> i \in G
  BY DEF Failing, Holds
<1>3. 8 \in G => 8 \in F
  BY TypedMessage DEF Failing, Holds
<1>4. 9 \in F => 9 \in G
  BY TypedMessage DEF Failing, Holds
<1>5. /\ Reasons[8] = "authorization_not_yet_valid"
      /\ Reasons[9] = "authorization_expired"
  BY DEF Reasons
<1>6. ASSUME NEW k \in F, \A j \in F : k <= j
      PROVE  Verdict(p, q, t) = Reasons[k]
  BY <1>6, VerdictIsFirst
<1>7. ASSUME NEW k \in G, \A j \in G : k <= j
      PROVE  Verdict(p, q, u) = Reasons[k]
  BY <1>7, VerdictIsFirst
<1>8. F # {} => \E k \in F : \A j \in F : k <= j
  BY SomeCheckIsFirst
<1>9. (F = {} => Verdict(p, q, t) = "valid") /\ (G = {} => Verdict(p, q, u) = "valid")
  BY DEF Verdict
<1> HIDE DEF F, G
<1>10. CASE F = {}
  <2>1. G \subseteq {9}
    BY <1>1, <1>2, <1>3, <1>10
  <2>2. CASE G = {}
    BY <1>9, <1>10, <2>2
  <2>3. CASE 9 \in G
    <3>1. \A j \in G : 9 <= j
      BY <1>1, <2>1
    <3>. QED
      BY <1>5, <1>7, <2>3, <3>1
  <2>. QED
    BY <2>1, <2>2, <2>3
<1>11. CASE F # {}
  <2>1. PICK k \in F : \A j \in F : k <= j
    BY <1>8, <1>11
  <2>2. k \in 1..11 /\ Verdict(p, q, t) = Reasons[k]
    BY <1>1, <1>6, <2>1
  <2>3. CASE k = 8
    BY <1>5, <2>2, <2>3
  <2>4. CASE k # 8 /\ k \in G /\ \A j \in G : k <= j
    BY <1>7, <2>2, <2>4
  <2>5. CASE k # 8 /\ ~(k \in G /\ \A j \in G : k <= j)
    <3>1. \A j \in G : j \in F \/ j = 9
      BY <1>1, <1>2, <1>3
    <3>2. k \in G
      BY <1>2, <1>4, <2>2, <2>5
    <3>3. 9 \in G /\ k > 9
      BY <1>1, <2>1, <2>2, <2>5, <3>1, <3>2
    <3>4. \A j \in G : 9 <= j
      BY <1>1, <2>1, <2>2, <3>1, <3>3
    <3>. QED
      BY <1>5, <1>7, <3>3, <3>4
  <2>. QED
    BY <2>3, <2>4, <2>5
<1>. QED
  BY <1>10, <1>11

(***************************************************************************)
(* What /verify said of a payment holds until the authorization expires or *)
(* its nonce is spent, and a refusal holds unless it came too early, for   *)
(* any payments, whatever else is settled and however often the process    *)
(* starts (verifyPayment, called by both routes).                          *)
(***************************************************************************)
THEOREM VerdictsAge == Spec => []VerdictsOnlyAge
PROOF
<1>1. Init => AnswersInv
  BY DEF Init, AnswersInv, NoVerdict
<1>2. ASSUME IInv, AnswersInv, NEW c \in Calls, NEW d \in Calls, at[c] <= at[d],
             ask[c].route = "/verify", SamePayment(c, d),
             answer[c] \notin NoVerdict, answer[d] \notin NoVerdict
      PROVE  \/ answer[c] = answer[d]
             \/ answer[c] = "authorization_not_yet_valid"
             \/ answer[d] = "authorization_expired"
             \/ answer[c] = "valid" /\ answer[d] \in {"settled", "nonce_already_used"}
  <2> DEFINE p == Payload(c)
             q == Required(c)
  <2>1. /\ answer[c] = Verdict(p, q, at[c])
        /\ \/ answer[d] = Verdict(p, q, at[d])
           \/ /\ Verdict(p, q, at[d]) = "valid"
              /\ answer[d] \in {"settled", "nonce_already_used"}
    BY <1>2 DEF AnswersInv, Outcome, SamePayment
  <2>2. at[c] \in Nat /\ at[d] \in Nat
    BY <1>2 DEF IInv, CallsInv
  <2>3. \/ Verdict(p, q, at[c]) = Verdict(p, q, at[d])
        \/ Verdict(p, q, at[c]) = "authorization_not_yet_valid"
        \/ Verdict(p, q, at[d]) = "authorization_expired"
    BY <1>2, <2>2, OnlyTimeChangesVerdicts
  <2>. QED
    BY <2>1, <2>3
<1>3. IInv /\ AnswersInv => VerdictsOnlyAge
  BY <1>2 DEF VerdictsOnlyAge, NoVerdict
<1>. QED
  BY <1>1, <1>3, AnswersKept, InvariantHolds, PTL DEF Spec

(***************************************************************************)
(* What an agent signs for a merchant's terms has every check hold, as     *)
(* long as the clock is in the window (signAuthorization, verifyPayment).  *)
(***************************************************************************)
LEMMA HonestPaymentIsValid ==
    ASSUME NEW account, NEW nonce, NEW q, NEW t \in Nat, NEW now \in Nat,
           AskedByMerchant(q), q.payTo # Absent, account # Absent, nonce \in DOMAIN Bytes32,
           Readable(AuthorizationFor(account, q, t, nonce)),
           now \in (t - Backdate)..(t + PaymentTimeout - 1)
    PROVE  Verdict(SignAuthorization(account, q, t, nonce), q, now) = "valid"
PROOF
<1> DEFINE p == SignAuthorization(account, q, t, nonce)
           a == AuthorizationFor(account, q, t, nonce)
           m == ToTypedMessage(a)
<1>1. PICK n \in NETWORKS :
         q = RequirementsFor([network |-> n.name, assetAddress |-> n.usdcAddress,
                              payToAddress |-> q.payTo], q.maxAmountRequired \div 10000)
  BY DEF AskedByMerchant
<1>2. /\ q.scheme = Exact /\ q.network = n.name /\ q.asset = n.usdcAddress
      /\ q.maxTimeoutSeconds = PaymentTimeout
  BY <1>1 DEF RequirementsFor
<1>3. n \in NetworkParameters(q.network)
  BY <1>2 DEF NetworkParameters
<1>4. /\ p.scheme = q.scheme /\ p.network = q.network /\ p.authorization = a
      /\ p.signature = [readable |-> TRUE, by |-> account, over |-> Digest(q.network, a)]
  BY DEF SignAuthorization, Signature
<1>5. /\ a.from = account /\ a.to = q.payTo /\ a.value = q.maxAmountRequired
      /\ a.validAfter = t - Backdate /\ a.validBefore = t + PaymentTimeout
      /\ a.nonce = nonce
  BY <1>2 DEF AuthorizationFor
<1>6. /\ m.value = q.maxAmountRequired /\ m.validAfter = t - Backdate
      /\ m.validBefore = t + PaymentTimeout
  BY <1>5, TypedMessage
<1>7. now >= t - Backdate /\ now < t + PaymentTimeout
  BY PaymentsAssumption
<1>8. Recovers(p)
  BY <1>4, <1>5 DEF Recovers
<1>9. Verifiable(p)
  BY <1>4, <1>5 DEF Verifiable
<1> HIDE DEF p, a, m
<1>10. \A i \in 1..11 : Holds(i, p, q, now)
  BY <1>2, <1>3, <1>4, <1>5, <1>6, <1>7, <1>8, <1>9 DEF Holds, a, m
<1>11. Failing(p, q, now) = {}
  BY <1>10 DEF Failing
<1>. QED
  BY <1>11 DEF Verdict, p

(***************************************************************************)
(* For any networks, prices, windows and accounts, and however many calls  *)
(* carry it: what an agent signed for a merchant's terms is accepted while *)
(* its window is open, and can then only be refused for a spent nonce      *)
(* (#requirementsFor, signAuthorization, verifyPayment).                   *)
(***************************************************************************)
THEOREM HonestPaymentsAreAccepted == Spec => []HonestPaymentsClear
PROOF
<1>1. Init => AnswersInv
  BY DEF Init, AnswersInv, NoVerdict
<1>2. ASSUME IInv, AnswersInv, NEW c \in Calls, NEW t \in 0..(EndOfTime + Backdate),
             answer[c] \notin NoVerdict, AskedByMerchant(Required(c)),
             Payload(c) = SignAuthorization(Payload(c).authorization.from, Required(c), t, Nonce(c)),
             Readable(Payload(c).authorization),
             Payload(c).authorization.from # Absent, Nonce(c) \in DOMAIN Bytes32,
             at[c] \in (t - Backdate)..(t + PaymentTimeout - 1)
      PROVE  answer[c] \in {"valid", "settled", "nonce_already_used"}
  <2> DEFINE account == Payload(c).authorization.from
             q == Required(c)
  <2>1. WellFormed(ReadJson(ask[c].body)) /\ at[c] \in Nat /\ t \in Nat
    BY <1>2, BoundsAssumption, PaymentsAssumption DEF IInv, CallsInv, AnswersInv
  <2>2. q.payTo # Absent /\ account # Absent
    BY <1>2, <2>1 DEF WellFormed, Nonce, Required
  <2>3. Payload(c).authorization = AuthorizationFor(account, q, t, Nonce(c))
    BY <1>2 DEF SignAuthorization
  <2>4. Verdict(Payload(c), q, at[c]) = "valid"
    BY <1>2, <2>1, <2>2, <2>3, HonestPaymentIsValid
  <2>. QED
    BY <1>2, <2>4 DEF AnswersInv, Outcome
<1>3. IInv /\ AnswersInv => HonestPaymentsClear
  BY <1>2 DEF HonestPaymentsClear
<1>. QED
  BY <1>1, <1>3, AnswersKept, InvariantHolds, PTL DEF Spec
=============================================================================
