-------------------------- MODULE SettlementProofs --------------------------
(***************************************************************************)
(* What TLAPS proves of Settlement, for any requests, assertions, rates,   *)
(* offers, feeds and faults.                                               *)
(***************************************************************************)
EXTENDS Settlement, CommissionProofs

(***************************************************************************)
(* Every listing a catalog load may publish has a rate in basis points,    *)
(* and every offer a whole amount.                                         *)
(***************************************************************************)
LEMMA ListingFacts ==
    /\ \A feed \in Feeds : \A l \in feed : l.commissionBps \in Bps
    /\ \A offer \in Offers : offer.gross \in Nat
PROOF
  BY FeedsAssumption, OffersAssumption DEF Listing

(***************************************************************************)
(* The service starts with every variable in its type.                     *)
(***************************************************************************)
LEMMA InitType == Init => TypeOK
PROOF
  BY OffersAssumption
  DEF Init, TypeOK, Request, NoTerms, Terms, Bps, BasisPointsDivisor, PC, Status, Answers

(***************************************************************************)
(* No step of a handler, of the facilitator or of the world takes a        *)
(* variable out of its type.                                               *)
(***************************************************************************)
LEMMA NextType == TypeOK /\ [Next]_vars => TypeOK'
PROOF
<1> SUFFICES ASSUME TypeOK, [Next]_vars PROVE TypeOK'
  OBVIOUS
<1> USE DEF TypeOK, storeVars, worldVars, chainVars, handlerVars
<1>1. ASSUME NEW r \in Requests, Handler(r) PROVE TypeOK'
  <2>1. CASE RejectMalformed(r)
    BY <2>1 DEF RejectMalformed, Answer, Goto, PC, Answers
  <2>2. CASE VerifyAssertion(r)
    BY <2>2 DEF VerifyAssertion, Refuse, Continue, Goto, PC, InFlight, Answers,
                JournalledReasons, RefusedBeforeClaim
  <2>3. CASE LookupListing(r)
    <3>1. CASE UNCHANGED terms
      BY <2>3, <3>1 DEF LookupListing, Refuse, Continue, Answer, Goto, PC, InFlight,
                  Answers, JournalledReasons, RefusedBeforeClaim
    <3>2. CASE \E l \in offers :
             /\ Continue(r, "priced")
             /\ terms' = [terms EXCEPT ![r] =
                   [gross |-> req[r].offer.gross,
                    bps   |-> EffectiveCommissionBps(
                                 SignedBps[req[r].assertion], l.commissionBps)]]
      <4> PICK l \in offers :
             /\ Continue(r, "priced")
             /\ terms' = [terms EXCEPT ![r] =
                   [gross |-> req[r].offer.gross,
                    bps   |-> EffectiveCommissionBps(
                                 SignedBps[req[r].assertion], l.commissionBps)]]
        BY <3>2
      <4>1. req[r].offer.gross \in Nat /\ SignedBps[req[r].assertion] \in Bps
        BY ListingFacts, SignedBpsAssumption, OffersAssumption DEF Request
      <4>2. EffectiveCommissionBps(SignedBps[req[r].assertion], l.commissionBps) \in Bps
        BY <4>1, ListingFacts, EffectiveRate
      <4>3. terms' \in [Requests -> Terms]
        BY <4>1, <4>2 DEF Terms
      <4>. QED
        BY <2>3, <4>3 DEF LookupListing, Continue, Goto, PC, InFlight
    <3>. QED
      BY <2>3, <3>1, <3>2 DEF LookupListing
  <2>4. CASE FacilitatorVerify(r)
    BY <2>4 DEF FacilitatorVerify, Refuse, Continue, Goto, PC, InFlight, Answers,
                JournalledReasons, RefusedBeforeClaim
  <2>5. CASE Begin(r) \/ BeginUnacknowledged(r)
    <3>1. /\ consumed' \subseteq Assertions /\ status' \in [Requests -> Status]
          /\ UNCHANGED <<req, terms, ledger, journal, offers, expired, call, nonces>>
      BY <2>5 DEF Begin, BeginUnacknowledged, ClaimAndInsert, Status, Request
    <3>2. pc' \in [Requests -> PC] /\ answer' \in [Requests -> Answers]
      BY <2>5 DEF Begin, BeginUnacknowledged, Continue, Answer, Goto, PC, InFlight, Answers
    <3>. QED
      BY <3>1, <3>2
  <2>6. CASE BeginReused(r) \/ BeginFails(r)
    BY <2>6 DEF BeginReused, BeginFails, Refuse, Answer, Goto, PC, InFlight, Answers,
                JournalledReasons
  <2>7. CASE SendSettle(r)
    BY <2>7 DEF SendSettle, Continue, Goto, PC, InFlight
  <2>8. CASE SettleReturns(r) \/ SettleUnavailable(r)
    BY <2>8 DEF SettleReturns, SettleUnavailable, Continue, Goto, PC, InFlight, Answers,
                JournalledReasons
  <2>9. CASE Fail(r) \/ FailFails(r)
    BY <2>9 DEF Fail, FailFails, MarkFailed, Continue, Goto, PC, InFlight, Status
  <2>10. CASE Confirm(r) \/ ConfirmUnacknowledged(r)
    BY <2>10 DEF Confirm, ConfirmUnacknowledged, UpdateAndPost, Answer, Goto, PC,
                 Answers, Status
  <2>11. CASE ConfirmFails(r)
    BY <2>11 DEF ConfirmFails, Answer, Goto, PC, Answers
  <2>12. CASE Journal(r)
    BY <2>12 DEF Journal, Rejection, Continue, Goto, PC
  <2>. QED
    BY <1>1, <2>1, <2>2, <2>3, <2>4, <2>5, <2>6, <2>7, <2>8, <2>9, <2>10, <2>11, <2>12
    DEF Handler
<1>2. ASSUME NEW r \in Requests, Facilitator(r) PROVE TypeOK'
  BY <1>2 DEF Facilitator, FacilitatorTransfers, FacilitatorRefuses, Request, NonceText
<1>8. ASSUME NEW r \in Requests, MerchantReports(r) PROVE TypeOK'
  BY <1>8 DEF MerchantReports, Rejection
<1>3. CASE Crash
  BY <1>3 DEF Crash, PC
<1>4. CASE RestartFacilitator
  BY <1>4 DEF RestartFacilitator
<1>5. CASE ReplaceListings
  BY <1>5 DEF ReplaceListings
<1>6. ASSUME NEW a \in Assertions, Expire(a) PROVE TypeOK'
  BY <1>6 DEF Expire
<1>7. CASE UNCHANGED vars
  BY <1>7 DEF vars
<1>. QED
  BY <1>1, <1>2, <1>3, <1>4, <1>5, <1>6, <1>7, <1>8 DEF Next

(***************************************************************************)
(* Every variable keeps its type.                                          *)
(***************************************************************************)
THEOREM TypeCorrect == Spec => []TypeOK
PROOF
  BY InitType, NextType, PTL DEF Spec

-----------------------------------------------------------------------------
(***************************************************************************)
(* The inductive invariant.  The properties alone are not inductive: that  *)
(* an answer is true depends on where its handler is, and that a row is    *)
(* settled once on no other handler ever being at its row.                 *)
(***************************************************************************)
AnswersFollowHandlers ==
    \A r \in Requests :
        /\ pc[r] \in BeforeClaim \cup {"begun", "settling", "settled"} =>
               answer[r] = "none"
        /\ pc[r] = "voiding" =>
               answer[r] \in {"settlement_failed", "facilitator_unavailable"}
        /\ pc[r] = "refusing" => answer[r] \in JournalledReasons /\ status[r] # "confirmed"
        /\ answer[r] = "settlement_failed" => call[r] = "refused"

JournalFollowsHandlers == \A j \in journal : pc[j.request] = "done"

DoneIsAnswered ==
    \A r \in Requests :
        pc[r] = "done" =>
            /\ answer[r] # "none"
            /\ answer[r] \notin {"confirmed", "internal_error"} => status[r] # "confirmed"

RatesAreKnown ==
    \A r \in Requests :
        /\ terms[r].bps <= SignedBps[req[r].assertion]
        /\ pc[r] \in {"priced", "cleared"} \/ HasRow(r) =>
             /\ terms[r].gross \in {offer.gross : offer \in Offers}
             /\ terms[r].bps \in {SignedBps[a] : a \in Assertions}
                                 \cup {l.commissionBps : l \in UNION Feeds}

IInv ==
    /\ TypeOK
    /\ RowsFollowHandlers
    /\ ClaimsMatchSettlements
    /\ SingleUse
    /\ ConfirmedWasPaid
    /\ LedgerMirrorsStatus
    /\ AnswersFollowHandlers
    /\ AnswersAreTrue
    /\ EarlyRefusalsSpendNothing
    /\ JournalFollowsHandlers
    /\ JournalHoldsRefusals
    /\ DoneIsAnswered
    /\ RatesAreKnown

(***************************************************************************)
(* The inductive invariant holds before the first request.                 *)
(***************************************************************************)
LEMMA InitInvariant == Init => IInv
PROOF
<1> SUFFICES ASSUME Init PROVE IInv
  OBVIOUS
<1>1. TypeOK
  BY InitType
<1>2. RatesAreKnown
  <2> SUFFICES ASSUME NEW r \in Requests
               PROVE  /\ terms[r].bps <= SignedBps[req[r].assertion]
                      /\ ~(pc[r] \in {"priced", "cleared"} \/ HasRow(r))
    BY DEF RatesAreKnown
  <2>1. req[r].assertion \in Assertions
    BY DEF Init, Request
  <2>2. SignedBps[req[r].assertion] \in Bps
    BY <2>1, SignedBpsAssumption
  <2>3. terms[r].bps = 0
    BY DEF Init, NoTerms
  <2>4. ~(pc[r] \in {"priced", "cleared"} \/ HasRow(r))
    BY DEF Init, HasRow
  <2>5. \A bps \in Bps : 0 <= bps
    BY DEF Bps, BasisPointsDivisor
  <2>. QED
    BY <2>2, <2>3, <2>4, <2>5
<1>3. /\ RowsFollowHandlers /\ SingleUse /\ ConfirmedWasPaid /\ LedgerMirrorsStatus
      /\ AnswersFollowHandlers /\ AnswersAreTrue /\ EarlyRefusalsSpendNothing
      /\ JournalFollowsHandlers /\ JournalHoldsRefusals /\ DoneIsAnswered
  BY DEF Init, RowsFollowHandlers, SingleUse, ConfirmedWasPaid, LedgerMirrorsStatus,
         AnswersFollowHandlers, AnswersAreTrue, EarlyRefusalsSpendNothing,
         JournalFollowsHandlers, JournalHoldsRefusals,
         DoneIsAnswered, HasRow, Moved, BeforeClaim,
         RefusedBeforeClaim
<1>4. ClaimsMatchSettlements
  BY DEF Init, ClaimsMatchSettlements, HasRow
<1>. QED
  BY <1>1, <1>2, <1>3, <1>4 DEF IInv

(***************************************************************************)
(* A handler that has not claimed its assertion and gives up, or goes on   *)
(* to its next check, changes nothing the tables or the facilitator hold.  *)
(***************************************************************************)
LEMMA RefusalKeepsInvariant ==
    ASSUME IInv, TypeOK', NEW r \in Requests, pc[r] \in BeforeClaim,
           NEW reason \in RefusedBeforeClaim \cup {"facilitator_unavailable"},
           Refuse(r, reason), UNCHANGED <<terms, storeVars, worldVars, chainVars>>
    PROVE  IInv'
PROOF
<1> USE DEF storeVars, worldVars, chainVars, Refuse, Goto, HasRow, Moved
<1>1. UNCHANGED <<ClaimsMatchSettlements, SingleUse, ConfirmedWasPaid,
                  LedgerMirrorsStatus>>
  BY DEF ClaimsMatchSettlements, SingleUse, ConfirmedWasPaid, LedgerMirrorsStatus, Split
<1>2. RowsFollowHandlers'
  BY DEF IInv, TypeOK, RowsFollowHandlers, BeforeClaim
<1>3. AnswersFollowHandlers' /\ AnswersAreTrue'
  BY DEF IInv, TypeOK, RowsFollowHandlers, AnswersFollowHandlers, AnswersAreTrue,
         BeforeClaim, RefusedBeforeClaim, JournalledReasons
<1>4. EarlyRefusalsSpendNothing'
  BY DEF IInv, TypeOK, RowsFollowHandlers, EarlyRefusalsSpendNothing, BeforeClaim,
         RefusedBeforeClaim
<1>5. JournalFollowsHandlers' /\ JournalHoldsRefusals' /\ DoneIsAnswered'
  BY DEF IInv, TypeOK, JournalFollowsHandlers, JournalHoldsRefusals,
         DoneIsAnswered, BeforeClaim
<1>6. RatesAreKnown'
  BY DEF IInv, TypeOK, RatesAreKnown
<1>. QED
  BY <1>1, <1>2, <1>3, <1>4, <1>5, <1>6 DEF IInv

(***************************************************************************)
(* The steps of Settle that only read, and the claim when it is lost or    *)
(* fails, keep the invariant.                                              *)
(***************************************************************************)
LEMMA CheckKeepsInvariant ==
    ASSUME IInv, TypeOK', NEW r \in Requests,
           RejectMalformed(r) \/ VerifyAssertion(r) \/ FacilitatorVerify(r)
           \/ BeginReused(r) \/ BeginFails(r)
    PROVE  IInv'
PROOF
<1> USE DEF IInv, TypeOK, RowsFollowHandlers, SingleUse, ConfirmedWasPaid,
            AnswersFollowHandlers, AnswersAreTrue, EarlyRefusalsSpendNothing,
            JournalFollowsHandlers, JournalHoldsRefusals,
         DoneIsAnswered, HasRow, Moved, BeforeClaim,
            RefusedBeforeClaim, JournalledReasons, storeVars, worldVars, chainVars,
            Goto, Continue, LedgerMirrorsStatus, ClaimsMatchSettlements,
            RatesAreKnown, Split
<1>1. CASE RejectMalformed(r)
  BY <1>1 DEF RejectMalformed, Answer
<1>2. CASE VerifyAssertion(r)
  <2>1. ASSUME NEW reason \in {"assertion_signature_invalid", "assertion_expired"},
               Refuse(r, reason)
        PROVE  IInv'
    BY <1>2, <2>1, RefusalKeepsInvariant DEF VerifyAssertion
  <2>2. CASE Continue(r, "verified")
    BY <1>2, <2>2 DEF VerifyAssertion
  <2>. QED
    BY <1>2, <2>1, <2>2 DEF VerifyAssertion
<1>3. CASE FacilitatorVerify(r)
  <2>1. ASSUME NEW reason \in {"payment_invalid", "facilitator_unavailable"},
               Refuse(r, reason)
        PROVE  IInv'
    BY <1>3, <2>1, RefusalKeepsInvariant DEF FacilitatorVerify
  <2>2. CASE Continue(r, "cleared")
    BY <1>3, <2>2 DEF FacilitatorVerify
  <2>. QED
    BY <1>3, <2>1, <2>2 DEF FacilitatorVerify
<1>4. CASE BeginReused(r)
  BY <1>4 DEF BeginReused, Refuse
<1>5. CASE BeginFails(r)
  BY <1>5 DEF BeginFails, Answer
<1>. QED
  BY <1>1, <1>2, <1>3, <1>4, <1>5

(***************************************************************************)
(* LookupListing builds the terms of a settlement that has no row yet, at  *)
(* a rate no higher than the signed one.                                   *)
(***************************************************************************)
LEMMA LookupKeepsInvariant ==
    ASSUME IInv, TypeOK', NEW r \in Requests, LookupListing(r)
    PROVE  IInv'
PROOF
<1>1. ASSUME NEW reason \in {"listing_not_found", "listing_mismatch"},
             Refuse(r, reason), UNCHANGED terms
      PROVE  IInv'
  BY <1>1, RefusalKeepsInvariant DEF LookupListing, BeforeClaim, RefusedBeforeClaim
<1>2. CASE Answer(r, "internal_error") /\ UNCHANGED terms
  <2> USE DEF storeVars, worldVars, chainVars
  <2>1. /\ pc[r] = "verified" /\ UNCHANGED <<storeVars, worldVars, chainVars, terms>>
        /\ pc' = [pc EXCEPT ![r] = "done"]
        /\ answer' = [answer EXCEPT ![r] = "internal_error"]
    BY <1>2 DEF LookupListing, Answer, Goto
  <2>2. JournalFollowsHandlers' /\ JournalHoldsRefusals' /\ DoneIsAnswered'
    BY <2>1 DEF IInv, TypeOK, JournalFollowsHandlers, JournalHoldsRefusals, DoneIsAnswered
  <2>. QED
    BY <2>1, <2>2
    DEF IInv, TypeOK, RowsFollowHandlers, SingleUse, ConfirmedWasPaid,
        AnswersFollowHandlers, AnswersAreTrue, EarlyRefusalsSpendNothing, HasRow, Moved,
        BeforeClaim, RefusedBeforeClaim, JournalledReasons, LedgerMirrorsStatus,
        ClaimsMatchSettlements, RatesAreKnown, Split
<1>3. ASSUME NEW l \in offers, Continue(r, "priced"),
             terms' = [terms EXCEPT ![r] =
                   [gross |-> req[r].offer.gross,
                    bps   |-> EffectiveCommissionBps(
                                 SignedBps[req[r].assertion], l.commissionBps)]]
      PROVE  IInv'
  <2> DEFINE bps == EffectiveCommissionBps(SignedBps[req[r].assertion], l.commissionBps)
  <2> USE <1>3 DEF LookupListing, Continue, Goto, storeVars, worldVars, chainVars
  <2>0. UNCHANGED <<req, status, consumed, ledger, journal, call, answer, offers>>
    OBVIOUS
  <2>1. /\ req[r].assertion \in Assertions /\ req[r].offer \in Offers
        /\ l \in UNION Feeds
    BY DEF IInv, TypeOK, Request
  <2>2. /\ bps <= SignedBps[req[r].assertion]
        /\ bps \in {SignedBps[req[r].assertion], l.commissionBps}
    BY <2>1, SignedBpsAssumption, ListingFacts, EffectiveRate
  <2>3. /\ terms' = [terms EXCEPT ![r] = [gross |-> req[r].offer.gross, bps |-> bps]]
        /\ ~HasRow(r)
    BY DEF IInv, TypeOK, RowsFollowHandlers, BeforeClaim
  <2> HIDE DEF bps
  <2>4. RatesAreKnown'
    <3> SUFFICES ASSUME NEW s \in Requests PROVE
        /\ terms'[s].bps <= SignedBps[req'[s].assertion]
        /\ pc'[s] \in {"priced", "cleared"} \/ HasRow(s)' =>
             /\ terms'[s].gross \in {offer.gross : offer \in Offers}
             /\ terms'[s].bps \in {SignedBps[a] : a \in Assertions}
                                 \cup {listing.commissionBps : listing \in UNION Feeds}
      BY DEF RatesAreKnown
    <3>1. CASE s = r
      BY <2>0, <2>1, <2>2, <2>3, <3>1 DEF IInv, TypeOK
    <3>2. CASE s # r
      BY <2>0, <2>3, <3>2 DEF IInv, TypeOK, RatesAreKnown, HasRow
    <3>. QED
      BY <3>1, <3>2
  <2>5. LedgerMirrorsStatus'
    BY <2>0, <2>3 DEF IInv, TypeOK, LedgerMirrorsStatus, Split, HasRow
  <2>6. /\ RowsFollowHandlers' /\ SingleUse' /\ ConfirmedWasPaid'
        /\ AnswersFollowHandlers' /\ AnswersAreTrue' /\ EarlyRefusalsSpendNothing'
        /\ JournalFollowsHandlers' /\ JournalHoldsRefusals' /\ DoneIsAnswered'
    BY <2>0
    DEF IInv, TypeOK, RowsFollowHandlers, SingleUse, ConfirmedWasPaid,
        AnswersFollowHandlers, AnswersAreTrue, EarlyRefusalsSpendNothing,
        JournalFollowsHandlers, JournalHoldsRefusals,
         DoneIsAnswered, HasRow, Moved, BeforeClaim,
        RefusedBeforeClaim
  <2>7. ClaimsMatchSettlements'
    BY <2>0 DEF IInv, ClaimsMatchSettlements, HasRow
  <2>. QED
    BY <2>4, <2>5, <2>6, <2>7 DEF IInv
<1>. QED
  BY <1>1, <1>2, <1>3 DEF LookupListing

(***************************************************************************)
(* Store.Begin: the claim and the row appear together.  Nobody else has a  *)
(* row for the assertion, because a row means a claim.                     *)
(***************************************************************************)
LEMMA ClaimKeepsInvariant ==
    ASSUME IInv, TypeOK', NEW r \in Requests, Begin(r) \/ BeginUnacknowledged(r)
    PROVE  IInv'
PROOF
<1> USE DEF Goto, Continue, Answer, ClaimAndInsert, worldVars, chainVars
<1>1. /\ pc[r] = "cleared" /\ req[r].assertion \notin consumed
      /\ consumed' = consumed \cup {req[r].assertion}
      /\ status' = [status EXCEPT ![r] = "pending"]
      /\ UNCHANGED <<terms, ledger, journal, req, offers, call>>
  BY DEF Begin, BeginUnacknowledged
<1>2. /\ ~HasRow(r) /\ answer[r] = "none"
  BY <1>1 DEF IInv, RowsFollowHandlers, AnswersFollowHandlers, BeforeClaim
<1>3. \A s \in Requests : HasRow(s)' <=> s = r \/ HasRow(s)
  BY <1>1 DEF HasRow, IInv, TypeOK
<1>4. ClaimsMatchSettlements'
  BY <1>1, <1>3 DEF IInv, ClaimsMatchSettlements
<1>5. SingleUse'
  <2>1. \A s \in Requests : HasRow(s) => req[s].assertion # req[r].assertion
    BY <1>1 DEF IInv, ClaimsMatchSettlements
  <2>. QED
    BY <1>1, <1>3, <2>1 DEF IInv, SingleUse
<1>6. CASE Begin(r)
  <2>1. pc' = [pc EXCEPT ![r] = "begun"] /\ UNCHANGED answer
    BY <1>6 DEF Begin
  <2>2. /\ RowsFollowHandlers' /\ ConfirmedWasPaid' /\ LedgerMirrorsStatus'
        /\ AnswersFollowHandlers' /\ AnswersAreTrue' /\ EarlyRefusalsSpendNothing'
        /\ JournalFollowsHandlers' /\ JournalHoldsRefusals' /\ DoneIsAnswered' /\ RatesAreKnown'
    BY <1>1, <1>2, <1>3, <2>1
    DEF IInv, TypeOK, RowsFollowHandlers, ConfirmedWasPaid, LedgerMirrorsStatus,
        AnswersFollowHandlers, AnswersAreTrue, EarlyRefusalsSpendNothing,
        JournalFollowsHandlers, JournalHoldsRefusals,
         DoneIsAnswered, RatesAreKnown, HasRow, Moved,
        BeforeClaim, RefusedBeforeClaim, Split
  <2>. QED
    BY <1>4, <1>5, <2>2 DEF IInv
<1>7. CASE BeginUnacknowledged(r)
  <2>1. /\ pc' = [pc EXCEPT ![r] = "done"]
        /\ answer' = [answer EXCEPT ![r] = "internal_error"]
    BY <1>7 DEF BeginUnacknowledged
  <2>2. /\ RowsFollowHandlers' /\ ConfirmedWasPaid' /\ LedgerMirrorsStatus'
        /\ AnswersFollowHandlers' /\ AnswersAreTrue' /\ EarlyRefusalsSpendNothing'
        /\ JournalFollowsHandlers' /\ JournalHoldsRefusals' /\ DoneIsAnswered' /\ RatesAreKnown'
    BY <1>1, <1>2, <1>3, <2>1
    DEF IInv, TypeOK, RowsFollowHandlers, ConfirmedWasPaid, LedgerMirrorsStatus,
        AnswersFollowHandlers, AnswersAreTrue, EarlyRefusalsSpendNothing,
        JournalFollowsHandlers, JournalHoldsRefusals,
         DoneIsAnswered, RatesAreKnown, HasRow, Moved,
        BeforeClaim, RefusedBeforeClaim, Split
  <2>. QED
    BY <1>4, <1>5, <2>2 DEF IInv
<1>. QED
  BY <1>6, <1>7

(***************************************************************************)
(* The settle call and its outcomes, up to the point where Settle writes   *)
(* again: no table changes.                                                *)
(***************************************************************************)
LEMMA CallKeepsInvariant ==
    ASSUME IInv, TypeOK', NEW r \in Requests,
           SendSettle(r) \/ SettleReturns(r) \/ SettleUnavailable(r)
           \/ FacilitatorTransfers(r) \/ FacilitatorRefuses(r)
    PROVE  IInv'
PROOF
<1> USE DEF Goto, Continue, storeVars, worldVars, chainVars, handlerVars
<1>1. UNCHANGED <<terms, status, consumed, ledger, journal, req, offers>>
  BY DEF SendSettle, SettleReturns, SettleUnavailable, FacilitatorTransfers,
         FacilitatorRefuses
<1>2. /\ ClaimsMatchSettlements' /\ SingleUse' /\ LedgerMirrorsStatus'
  BY <1>1 DEF IInv, ClaimsMatchSettlements, SingleUse, LedgerMirrorsStatus, HasRow, Split
<1>3. JournalFollowsHandlers' /\ JournalHoldsRefusals' /\ DoneIsAnswered'
  <2>1. /\ \/ pc[r] # "done" /\ pc'[r] # "done"
           \/ UNCHANGED <<pc, answer>>
        /\ \A s \in Requests \ {r} : pc'[s] = pc[s] /\ answer'[s] = answer[s]
    BY DEF SendSettle, SettleReturns, SettleUnavailable, FacilitatorTransfers,
           FacilitatorRefuses, IInv, TypeOK
  <2>. QED
    BY <1>1, <2>1 DEF IInv, TypeOK, JournalFollowsHandlers, JournalHoldsRefusals, DoneIsAnswered
<1> USE DEF IInv, TypeOK, RowsFollowHandlers, ConfirmedWasPaid, AnswersFollowHandlers,
            AnswersAreTrue, EarlyRefusalsSpendNothing, RatesAreKnown, HasRow, Moved,
            BeforeClaim, RefusedBeforeClaim, JournalledReasons
<1>4. CASE SendSettle(r)
  BY <1>1, <1>2, <1>3, <1>4 DEF SendSettle
<1>5. CASE SettleReturns(r) /\ call[r] = "transferred"
  BY <1>1, <1>2, <1>3, <1>5 DEF SettleReturns
<1>6. CASE SettleReturns(r) /\ call[r] = "refused"
  BY <1>1, <1>2, <1>3, <1>6 DEF SettleReturns
<1>7. CASE SettleUnavailable(r)
  BY <1>1, <1>2, <1>3, <1>7 DEF SettleUnavailable
<1>8. CASE FacilitatorTransfers(r)
  BY <1>1, <1>2, <1>3, <1>8 DEF FacilitatorTransfers
<1>9. CASE FacilitatorRefuses(r)
  BY <1>1, <1>2, <1>3, <1>9 DEF FacilitatorRefuses
<1>. QED
  BY <1>4, <1>5, <1>6, <1>7, <1>8, <1>9 DEF SettleReturns

(***************************************************************************)
(* Store.Fail and Store.Confirm find the row pending, because the handler  *)
(* at its row is the only one there ever is; journalling changes no row.   *)
(***************************************************************************)
LEMMA OutcomeKeepsInvariant ==
    ASSUME IInv, TypeOK', NEW r \in Requests,
           \/ Fail(r) \/ FailFails(r) \/ Confirm(r) \/ ConfirmFails(r)
           \/ ConfirmUnacknowledged(r) \/ Journal(r)
    PROVE  IInv'
PROOF
<1> USE DEF Goto, Continue, Answer, storeVars, worldVars, chainVars
<1>1. UNCHANGED <<req, consumed, terms, call, offers>>
  BY DEF Fail, FailFails, Confirm, ConfirmFails, ConfirmUnacknowledged, UpdateAndPost,
         Journal
<1>2. \A s \in Requests : HasRow(s)' <=> HasRow(s)
  BY DEF Fail, FailFails, MarkFailed, Confirm, ConfirmFails, ConfirmUnacknowledged,
         UpdateAndPost, Journal, IInv, TypeOK, Status, HasRow
<1>3. pc'[r] \in {"refusing", "done"} /\ \A s \in Requests \ {r} : pc'[s] = pc[s]
  BY DEF Fail, FailFails, Confirm, ConfirmFails, ConfirmUnacknowledged, Journal, IInv,
         TypeOK
<1>4. ClaimsMatchSettlements' /\ SingleUse' /\ RatesAreKnown'
  BY <1>1, <1>2, <1>3 DEF IInv, ClaimsMatchSettlements, SingleUse, RatesAreKnown
<1>5. CASE Confirm(r) \/ ConfirmUnacknowledged(r)
  <2>1. /\ status[r] = "pending" /\ Moved(r) /\ ledger[r] = << >>
    BY <1>5
    DEF Confirm, ConfirmUnacknowledged, IInv, RowsFollowHandlers, LedgerMirrorsStatus
  <2>2. << >> \o Entries(Split(r)) = Entries(Split(r))
    BY DEF Entries
  <2>3. /\ status' = [status EXCEPT ![r] = "confirmed"]
        /\ ledger' = [ledger EXCEPT ![r] = Entries(Split(r))]
        /\ pc' = [pc EXCEPT ![r] = "done"]
        /\ UNCHANGED journal
    BY <1>5, <2>1, <2>2 DEF Confirm, ConfirmUnacknowledged, UpdateAndPost
  <2>4. PICK outcome \in {"confirmed", "internal_error"} :
             answer' = [answer EXCEPT ![r] = outcome]
    BY <1>5 DEF Confirm, ConfirmUnacknowledged
  <2>5. LedgerMirrorsStatus'
    BY <1>1, <2>3 DEF IInv, TypeOK, LedgerMirrorsStatus, Split
  <2>6. pc[r] = "settled"
    BY <1>5 DEF Confirm, ConfirmUnacknowledged
  <2>7. /\ RowsFollowHandlers' /\ ConfirmedWasPaid' /\ AnswersFollowHandlers'
        /\ AnswersAreTrue' /\ EarlyRefusalsSpendNothing'
        /\ JournalFollowsHandlers' /\ JournalHoldsRefusals' /\ DoneIsAnswered'
    BY <1>1, <2>1, <2>3, <2>4, <2>6
    DEF IInv, TypeOK, RowsFollowHandlers, ConfirmedWasPaid, AnswersFollowHandlers,
        AnswersAreTrue, EarlyRefusalsSpendNothing, JournalFollowsHandlers,
        JournalHoldsRefusals, DoneIsAnswered, HasRow, Moved, BeforeClaim, RefusedBeforeClaim
  <2>. QED
    BY <1>4, <2>5, <2>7 DEF IInv
<1> USE DEF IInv, TypeOK, RowsFollowHandlers, ConfirmedWasPaid, LedgerMirrorsStatus,
            AnswersFollowHandlers, AnswersAreTrue, EarlyRefusalsSpendNothing,
            JournalFollowsHandlers, JournalHoldsRefusals,
         DoneIsAnswered, HasRow, Moved, BeforeClaim,
            RefusedBeforeClaim, JournalledReasons, Split
<1>6. CASE Fail(r)
  BY <1>1, <1>4, <1>6 DEF Fail, MarkFailed
<1>7. CASE FailFails(r)
  BY <1>1, <1>4, <1>7 DEF FailFails
<1>8. CASE ConfirmFails(r)
  BY <1>1, <1>4, <1>8 DEF ConfirmFails
<1>9. CASE Journal(r)
  <2>1. /\ pc[r] = "refusing" /\ pc' = [pc EXCEPT ![r] = "done"]
        /\ UNCHANGED <<terms, status, consumed, ledger, worldVars, chainVars, answer>>
        /\ journal' \subseteq journal \cup {Rejection(r, "settlement", answer[r])}
    BY <1>9 DEF Journal
  <2>2. answer[r] \in JournalledReasons /\ status[r] # "confirmed"
    BY <2>1 DEF AnswersFollowHandlers
  <2>3. JournalFollowsHandlers' /\ JournalHoldsRefusals'
    BY <2>1, <2>2 DEF JournalFollowsHandlers, JournalHoldsRefusals, Rejection
  <2>4. DoneIsAnswered'
    BY <2>1, <2>2 DEF DoneIsAnswered
  <2>. QED
    BY <1>1, <1>4, <2>1, <2>3, <2>4
<1>. QED
  BY <1>5, <1>6, <1>7, <1>8, <1>9

(***************************************************************************)
(* A crash leaves what the tables and the facilitator hold, and the rest   *)
(* of the world changes nothing a settlement already decided on.           *)
(***************************************************************************)
LEMMA WorldKeepsInvariant ==
    ASSUME IInv, TypeOK',
           \/ Crash \/ RestartFacilitator \/ ReplaceListings
           \/ \E a \in Assertions : Expire(a)
           \/ UNCHANGED vars
    PROVE  IInv'
PROOF
<1> USE DEF handlerVars, storeVars, worldVars, chainVars
<1>1. /\ UNCHANGED <<req, terms, status, consumed, ledger, journal, answer, call>>
  BY DEF Crash, RestartFacilitator, ReplaceListings, Expire, vars
<1>2. \A r \in Requests : pc'[r] = pc[r] \/ (pc[r] # "done" /\ pc'[r] = "lost")
  BY DEF Crash, RestartFacilitator, ReplaceListings, Expire, vars, InFlight
<1>. QED
  BY <1>1, <1>2
  DEF IInv, TypeOK, RowsFollowHandlers, ConfirmedWasPaid, LedgerMirrorsStatus,
      AnswersFollowHandlers, AnswersAreTrue, EarlyRefusalsSpendNothing,
      JournalFollowsHandlers, JournalHoldsRefusals,
         DoneIsAnswered, RatesAreKnown, HasRow, Moved,
      BeforeClaim, RefusedBeforeClaim, ClaimsMatchSettlements, SingleUse, Split

(***************************************************************************)
(* The merchant reports what it was answered, and only once its request is *)
(* over: nothing else reads the journal, and the status it is held against *)
(* no longer changes.                                                      *)
(***************************************************************************)
LEMMA ReportKeepsInvariant ==
    ASSUME IInv, TypeOK', NEW r \in Requests, MerchantReports(r)
    PROVE  IInv'
PROOF
<1> USE DEF handlerVars, storeVars, worldVars, chainVars
<1>1. /\ UNCHANGED <<req, pc, terms, status, consumed, ledger, answer, call, offers>>
      /\ pc[r] = "done"
      /\ answer[r] \notin {"confirmed", "payment_invalid", "settlement_failed"}
  BY DEF MerchantReports
<1>2. PICK reason \in {answer[r], "settlement_unavailable"} :
         journal' = journal \cup {Rejection(r, "merchant", reason)}
  BY DEF MerchantReports
<1>3. JournalFollowsHandlers'
  BY <1>1, <1>2 DEF IInv, JournalFollowsHandlers, Rejection
<1>4. answer[r] # "none" /\ (answer[r] # "internal_error" => status[r] # "confirmed")
  BY <1>1 DEF IInv, DoneIsAnswered
<1>5. JournalHoldsRefusals'
  BY <1>1, <1>2, <1>4 DEF IInv, JournalHoldsRefusals, Rejection, PlatformErrors
<1>6. /\ RowsFollowHandlers' /\ ConfirmedWasPaid' /\ LedgerMirrorsStatus'
      /\ AnswersFollowHandlers' /\ AnswersAreTrue' /\ EarlyRefusalsSpendNothing'
      /\ RatesAreKnown' /\ ClaimsMatchSettlements' /\ SingleUse' /\ DoneIsAnswered'
  BY <1>1
  DEF IInv, RowsFollowHandlers, ConfirmedWasPaid, LedgerMirrorsStatus,
      AnswersFollowHandlers, AnswersAreTrue, EarlyRefusalsSpendNothing, RatesAreKnown,
      DoneIsAnswered, HasRow, Moved, ClaimsMatchSettlements, SingleUse, Split
<1>. QED
  BY <1>3, <1>5, <1>6 DEF IInv

(***************************************************************************)
(* Every step of the system keeps the inductive invariant.                 *)
(***************************************************************************)
LEMMA NextInvariant == IInv /\ [Next]_vars => IInv'
PROOF
<1> SUFFICES ASSUME IInv, [Next]_vars PROVE IInv'
  OBVIOUS
<1>1. TypeOK'
  BY NextType DEF IInv
<1>2. ASSUME NEW r \in Requests, Handler(r) PROVE IInv'
  BY <1>1, <1>2, CheckKeepsInvariant, LookupKeepsInvariant, ClaimKeepsInvariant,
     CallKeepsInvariant, OutcomeKeepsInvariant DEF Handler
<1>3. ASSUME NEW r \in Requests, Facilitator(r) PROVE IInv'
  BY <1>1, <1>3, CallKeepsInvariant DEF Facilitator
<1>. QED
  BY <1>1, <1>2, <1>3, ReportKeepsInvariant, WorldKeepsInvariant DEF Next

(***************************************************************************)
(* The inductive invariant holds in every state of the service.            *)
(***************************************************************************)
THEOREM InvariantHolds == Spec => []IInv
PROOF
  BY InitInvariant, NextInvariant, PTL DEF Spec

(***************************************************************************)
(* However requests for one assertion race, retry and crash, at most one   *)
(* of them ever has a settlements row.                                     *)
(***************************************************************************)
THEOREM SingleUseHolds == Spec => []SingleUse
PROOF
  BY InvariantHolds, PTL DEF IInv

(***************************************************************************)
(* An assertion is consumed exactly when one settlements row accounts for  *)
(* it, whatever fails inside or after Store.Begin.                         *)
(***************************************************************************)
THEOREM ClaimsMatch == Spec => []ClaimsMatchSettlements
PROOF
  BY InvariantHolds, PTL DEF IInv

(***************************************************************************)
(* The facilitator moves value at most once for an assertion.              *)
(***************************************************************************)
THEOREM AssertionPaysOnce == Spec => []OnePaymentPerAssertion
PROOF
<1>1. IInv => OnePaymentPerAssertion
  BY DEF IInv, RowsFollowHandlers, SingleUse, OnePaymentPerAssertion, Moved
<1>. QED
  BY <1>1, InvariantHolds, PTL

(***************************************************************************)
(* A confirmed settlement is one whose value the facilitator moved.        *)
(***************************************************************************)
THEOREM ConfirmedIsPaid == Spec => []ConfirmedWasPaid
PROOF
  BY InvariantHolds, PTL DEF IInv

(***************************************************************************)
(* The ledger holds one posting for each confirmed settlement and nothing  *)
(* for any other.                                                          *)
(***************************************************************************)
THEOREM LedgerMirrors == Spec => []LedgerMirrorsStatus
PROOF
  BY InvariantHolds, PTL DEF IInv

(***************************************************************************)
(* Every posting sums to zero and charges the merchant no more than the    *)
(* rate in the assertion makes of the gross amount.                        *)
(***************************************************************************)
THEOREM LedgerIsBalanced == Spec => []LedgerBalances
PROOF
<1>1. ASSUME IInv PROVE LedgerBalances
  <2> SUFFICES ASSUME NEW r \in Requests, ledger[r] # << >>
               PROVE  LET e == ledger[r] IN
                        /\ e[1].amount + e[2].amount + e[3].amount = 0
                        /\ e[2].amount >= 0 /\ e[3].amount >= 0
                        /\ -e[1].amount <= CalculateCommission(
                              terms[r].gross, SignedBps[req[r].assertion]).commission
    BY DEF LedgerBalances
  <2>1. ledger[r] = Entries(CalculateCommission(terms[r].gross, terms[r].bps))
    BY <1>1 DEF IInv, LedgerMirrorsStatus, Split
  <2>2. terms[r].gross \in Nat /\ terms[r].bps \in Bps
    BY <1>1 DEF IInv, TypeOK, Terms
  <2>3. SignedBps[req[r].assertion] \in Bps /\ terms[r].bps <= SignedBps[req[r].assertion]
    BY <1>1, SignedBpsAssumption DEF IInv, TypeOK, Request, RatesAreKnown
  <2>4. CalculateCommission(terms[r].gross, terms[r].bps).commission
          <= CalculateCommission(
                terms[r].gross, SignedBps[req[r].assertion]).commission
    BY <2>2, <2>3, CommissionMonotone
  <2>. QED
    BY <2>1, <2>2, <2>4, EntriesBalance
<1>. QED
  BY <1>1, InvariantHolds, PTL

(***************************************************************************)
(* A request refused up to and including the claim has spent nothing.      *)
(***************************************************************************)
THEOREM RefusalsAreFree == Spec => []EarlyRefusalsSpendNothing
PROOF
  BY InvariantHolds, PTL DEF IInv

(***************************************************************************)
(* A 200 means a durable, paid settlement; settlement_failed means that    *)
(* nothing moved.                                                          *)
(***************************************************************************)
THEOREM AnswersHold == Spec => []AnswersAreTrue
PROOF
  BY InvariantHolds, PTL DEF IInv

(***************************************************************************)
(* Whoever writes it, a row of the journal whose reason is not a failure   *)
(* of the platform is the one thing its request was answered, and beside   *)
(* no confirmed settlement.                                                *)
(***************************************************************************)
THEOREM JournalIsTrue == Spec => []JournalHoldsRefusals
PROOF
  BY InvariantHolds, PTL DEF IInv

(***************************************************************************)
(* Rows follow their handlers: none before the claim, and after it one in  *)
(* the status the handler's step calls for.                                *)
(***************************************************************************)
THEOREM RowsFollow == Spec => []RowsFollowHandlers
PROOF
  BY InvariantHolds, PTL DEF IInv

-----------------------------------------------------------------------------
(***************************************************************************)
(* What is final stays: claims, journal entries, rows, their columns, and  *)
(* the outcome and postings of a settlement that has ended.                *)
(***************************************************************************)
THEOREM OutcomesStay == Spec => OutcomesArePermanent
PROOF
<1> DEFINE Stays == /\ consumed \subseteq consumed'
                    /\ journal \subseteq journal'
                    /\ \A r \in Requests :
                          /\ HasRow(r) => HasRow(r)' /\ terms'[r] = terms[r]
                          /\ status[r] \in {"confirmed", "failed"} =>
                               status'[r] = status[r] /\ ledger'[r] = ledger[r]
<1>1. ASSUME IInv, [Next]_vars PROVE Stays
  <2> USE DEF storeVars, worldVars, chainVars, handlerVars, HasRow
  <2>1. ASSUME NEW r \in Requests, Handler(r) PROVE Stays
    <3>1. CASE LookupListing(r)
      BY <1>1, <3>1
      DEF LookupListing, IInv, TypeOK, RowsFollowHandlers, BeforeClaim
    <3>2. CASE Begin(r) \/ BeginUnacknowledged(r)
      BY <1>1, <3>2
      DEF Begin, BeginUnacknowledged, ClaimAndInsert, IInv, TypeOK, RowsFollowHandlers,
          BeforeClaim
    <3>3. CASE Fail(r)
      BY <1>1, <3>3 DEF Fail, MarkFailed, IInv, TypeOK
    <3>4. CASE Confirm(r) \/ ConfirmUnacknowledged(r)
      BY <1>1, <3>4 DEF Confirm, ConfirmUnacknowledged, UpdateAndPost, IInv, TypeOK
    <3>5. CASE Journal(r)
      BY <3>5 DEF Journal
    <3>6. CASE \/ RejectMalformed(r) \/ VerifyAssertion(r) \/ FacilitatorVerify(r)
               \/ BeginReused(r) \/ BeginFails(r) \/ SendSettle(r) \/ SettleReturns(r)
               \/ SettleUnavailable(r) \/ FailFails(r) \/ ConfirmFails(r)
      BY <3>6
      DEF RejectMalformed, VerifyAssertion, FacilitatorVerify, BeginReused, BeginFails,
          SendSettle, SettleReturns, SettleUnavailable, FailFails, ConfirmFails
    <3>. QED
      BY <2>1, <3>1, <3>2, <3>3, <3>4, <3>5, <3>6 DEF Handler
  <2>2. ASSUME NEW r \in Requests, Facilitator(r) PROVE Stays
    BY <2>2 DEF Facilitator, FacilitatorTransfers, FacilitatorRefuses
  <2>3. CASE \/ Crash \/ RestartFacilitator \/ ReplaceListings
             \/ \E a \in Assertions : Expire(a)
             \/ (\E r \in Requests : MerchantReports(r)) \/ UNCHANGED vars
    BY <2>3 DEF Crash, RestartFacilitator, ReplaceListings, Expire, MerchantReports, vars
  <2>. QED
    BY <1>1, <2>1, <2>2, <2>3 DEF Next
<1>2. IInv /\ [Next]_vars => [Stays]_vars
  BY <1>1
<1>. QED
  BY <1>2, InvariantHolds, PTL DEF Spec, OutcomesArePermanent

(***************************************************************************)
(* As long as the facilitator keeps its nonces, a replay meets both        *)
(* defenses: two transfers under one authorization took two assertions and *)
(* two spellings of its nonce.                                             *)
(***************************************************************************)
THEOREM ReplaysMeetBoth ==
    ASSUME "amnesia" \notin Faults
    PROVE  Spec => []ReplayNeedsBoth
PROOF
<1> DEFINE Remembered == \A r \in Requests : Moved(r) => NonceText(r) \in nonces
           Once == \A r, s \in Requests :
                      Moved(r) /\ Moved(s) /\ NonceText(r) = NonceText(s) => r = s
           NInv == TypeOK /\ Remembered /\ Once
<1>1. Init => NInv
  BY InitType DEF Init, Moved
<1>2. ASSUME NInv, [Next]_vars PROVE NInv'
  <2> USE DEF Moved, NonceText, storeVars, worldVars, chainVars, handlerVars
  <2>1. TypeOK'
    BY <1>2, NextType
  <2>2. ASSUME NEW r \in Requests, FacilitatorTransfers(r)
        PROVE  Remembered' /\ Once'
    BY <1>2, <2>2 DEF FacilitatorTransfers, TypeOK
  <2>3. ASSUME NEW r \in Requests, FacilitatorRefuses(r)
        PROVE  Remembered' /\ Once'
    BY <1>2, <2>3 DEF FacilitatorRefuses, TypeOK
  <2>4. ASSUME NEW r \in Requests, SendSettle(r)
        PROVE  Remembered' /\ Once'
    BY <1>2, <2>4 DEF SendSettle, TypeOK
  <2>5. ASSUME UNCHANGED <<req, chainVars>>
        PROVE  Remembered' /\ Once'
    BY <1>2, <2>5
  <2>6. ASSUME NEW r \in Requests, Handler(r), ~SendSettle(r)
        PROVE  UNCHANGED <<req, chainVars>>
    BY <2>6
    DEF Handler, RejectMalformed, VerifyAssertion, LookupListing, FacilitatorVerify, Begin,
        BeginReused, BeginFails, BeginUnacknowledged, SettleReturns, SettleUnavailable,
        Fail, FailFails, Confirm, ConfirmFails, ConfirmUnacknowledged, Journal
  <2>7. CASE \/ Crash \/ ReplaceListings
             \/ \E a \in Assertions : Expire(a)
             \/ (\E r \in Requests : MerchantReports(r)) \/ UNCHANGED vars
    BY <2>1, <2>5, <2>7 DEF Crash, ReplaceListings, Expire, MerchantReports, vars
  <2>8. ~RestartFacilitator
    BY DEF RestartFacilitator
  <2>9. Remembered' /\ Once'
    <3> HIDE DEF Remembered, Once
    <3>. QED
      BY <1>2, <2>2, <2>3, <2>4, <2>5, <2>6, <2>7, <2>8 DEF Next, Facilitator
  <2>. QED
    BY <2>1, <2>9
<1>3. IInv /\ NInv => ReplayNeedsBoth
  <2> SUFFICES ASSUME IInv, NInv, NEW r \in Requests, NEW s \in Requests,
                      Moved(r), Moved(s), r # s,
                      req[r].authorization = req[s].authorization
               PROVE  req[r].assertion # req[s].assertion /\ req[r].spelling # req[s].spelling
    BY DEF ReplayNeedsBoth
  <2>1. HasRow(r) /\ HasRow(s)
    BY DEF IInv, RowsFollowHandlers, Moved
  <2>2. req[r].assertion # req[s].assertion
    BY <2>1 DEF IInv, SingleUse
  <2>3. req[r].spelling # req[s].spelling
    BY DEF NonceText
  <2>. QED
    BY <2>2, <2>3
<1>. QED
  BY <1>1, <1>2, <1>3, InvariantHolds, PTL DEF Spec
=============================================================================
