------------------------ MODULE SettlementRefinement ------------------------
(***************************************************************************)
(* Settlement implements AttributionLedger: every step of a handler, of    *)
(* the facilitator or of the world is one step of the ledger of some       *)
(* assertion, or none.                                                     *)
(***************************************************************************)
EXTENDS SettlementProofs

(* The five sets the ledger sees. *)
MovedSet == AssertionsOf({r \in Requests : Moved(r)})
PaidSet  == AssertionsOf({r \in Requests : status[r] = "confirmed"})
VoidSet  == AssertionsOf({r \in Requests : status[r] = "failed"})
Postings == {[assertion |-> req[r].assertion, entries |-> ledger[r]] :
                r \in {s \in Requests : ledger[s] # << >>}}

(***************************************************************************)
(* Before the first request the ledger is empty.                           *)
(***************************************************************************)
LEMMA RefinesInit == Init => Promise!Init
PROOF
  BY DEF Init, Promise!Init, AssertionsOf, Moved

(***************************************************************************)
(* A step that leaves rows, claims, calls and postings alone is invisible. *)
(***************************************************************************)
LEMMA Invisible ==
    ASSUME UNCHANGED <<req, status, consumed, ledger>>,
           \A r \in Requests : Moved(r)' <=> Moved(r)
    PROVE  UNCHANGED Promise!vars
PROOF
  BY DEF Promise!vars, AssertionsOf

(***************************************************************************)
(* Store.Begin claims an assertion that was not claimed.                   *)
(***************************************************************************)
LEMMA BeginRefines ==
    ASSUME IInv, NEW r \in Requests, Begin(r) \/ BeginUnacknowledged(r)
    PROVE  Promise!Claim(req[r].assertion)
PROOF
<1>1. /\ req[r].assertion \notin consumed
      /\ consumed' = consumed \cup {req[r].assertion}
      /\ status' = [status EXCEPT ![r] = "pending"]
      /\ UNCHANGED <<ledger, req, call>>
  BY DEF Begin, BeginUnacknowledged, ClaimAndInsert, worldVars, chainVars
<1>2. status[r] = "absent"
  BY DEF Begin, BeginUnacknowledged, IInv, RowsFollowHandlers, HasRow, BeforeClaim
<1>3. /\ \A s \in Requests : status'[s] = "confirmed" <=> status[s] = "confirmed"
      /\ \A s \in Requests : status'[s] = "failed" <=> status[s] = "failed"
      /\ \A s \in Requests : Moved(s)' <=> Moved(s)
  BY <1>1, <1>2 DEF IInv, TypeOK, Moved
<1>4. UNCHANGED <<MovedSet, PaidSet, VoidSet, Postings>>
  BY <1>1, <1>3 DEF MovedSet, PaidSet, VoidSet, Postings, AssertionsOf
<1>. QED
  BY <1>1, <1>4 DEF Promise!Claim, MovedSet, PaidSet, VoidSet, Postings

(***************************************************************************)
(* The facilitator moves value only for a claimed assertion for which it   *)
(* has moved none.                                                         *)
(***************************************************************************)
LEMMA TransferRefines ==
    ASSUME IInv, NEW r \in Requests, FacilitatorTransfers(r)
    PROVE  Promise!Move(req[r].assertion)
PROOF
<1>1. /\ call[r] = "sent"
      /\ call' = [call EXCEPT ![r] = "transferred"]
      /\ UNCHANGED <<req, status, consumed, ledger>>
  BY DEF FacilitatorTransfers, handlerVars, storeVars, worldVars
<1>2. HasRow(r) /\ ~Moved(r)
  BY <1>1 DEF IInv, RowsFollowHandlers, Moved
<1>3. req[r].assertion \in consumed
  BY <1>2 DEF IInv, ClaimsMatchSettlements
<1>4. req[r].assertion \notin MovedSet
  BY <1>2 DEF IInv, SingleUse, RowsFollowHandlers, MovedSet, AssertionsOf, Moved
<1>5. MovedSet' = MovedSet \cup {req[r].assertion}
  BY <1>1 DEF IInv, TypeOK, MovedSet, AssertionsOf, Moved
<1>6. UNCHANGED <<PaidSet, VoidSet, Postings>>
  BY <1>1 DEF PaidSet, VoidSet, Postings, AssertionsOf
<1>. QED
  BY <1>1, <1>3, <1>4, <1>5, <1>6
  DEF Promise!Move, MovedSet, PaidSet, VoidSet, Postings

(***************************************************************************)
(* A row that is still pending is the only one of its assertion, so the    *)
(* assertion is neither paid nor void.                                     *)
(***************************************************************************)
LEMMA PendingIsOpen ==
    ASSUME IInv, NEW r \in Requests, status[r] = "pending"
    PROVE  req[r].assertion \in consumed \ (PaidSet \cup VoidSet)
PROOF
<1>1. HasRow(r)
  BY DEF HasRow
<1>2. req[r].assertion \in consumed
  BY <1>1 DEF IInv, ClaimsMatchSettlements
<1>3. \A s \in Requests : status[s] \in {"confirmed", "failed"} =>
          req[s].assertion # req[r].assertion
  BY <1>1 DEF IInv, SingleUse, HasRow
<1>. QED
  BY <1>2, <1>3 DEF PaidSet, VoidSet, AssertionsOf

(***************************************************************************)
(* Store.Fail voids an assertion whose settlement had not ended.           *)
(***************************************************************************)
LEMMA FailRefines ==
    ASSUME IInv, NEW r \in Requests, Fail(r)
    PROVE  Promise!Void(req[r].assertion)
PROOF
<1>1. status[r] = "pending"
  BY DEF Fail, IInv, RowsFollowHandlers
<1>2. /\ status' = [status EXCEPT ![r] = "failed"]
      /\ UNCHANGED <<req, consumed, ledger, call>>
  BY <1>1 DEF Fail, MarkFailed, worldVars, chainVars
<1>3. VoidSet' = VoidSet \cup {req[r].assertion}
  BY <1>2 DEF IInv, TypeOK, VoidSet, AssertionsOf
<1>4. \A s \in Requests : status'[s] = "confirmed" <=> status[s] = "confirmed"
  BY <1>1, <1>2 DEF IInv, TypeOK
<1>5. UNCHANGED <<MovedSet, PaidSet, Postings>>
  BY <1>2, <1>4 DEF MovedSet, PaidSet, Postings, AssertionsOf, Moved
<1>. QED
  BY <1>1, <1>2, <1>3, <1>5, PendingIsOpen
  DEF Promise!Void, MovedSet, PaidSet, VoidSet, Postings

(***************************************************************************)
(* Store.Confirm pays an assertion whose value has moved and posts the     *)
(* entries of its split.                                                   *)
(***************************************************************************)
LEMMA ConfirmRefines ==
    ASSUME IInv, NEW r \in Requests, Confirm(r) \/ ConfirmUnacknowledged(r)
    PROVE  Promise!Pay(req[r].assertion)
PROOF
<1>1. /\ status[r] = "pending" /\ Moved(r) /\ ledger[r] = << >>
  BY DEF Confirm, ConfirmUnacknowledged, IInv, RowsFollowHandlers, LedgerMirrorsStatus
<1>2. Entries(Split(r)) # << >> /\ << >> \o Entries(Split(r)) = Entries(Split(r))
  <2>1. terms[r].gross \in Nat /\ terms[r].bps \in Bps
    BY DEF IInv, TypeOK, Terms
  <2>. QED
    BY <2>1, EntriesBalance DEF Split, Entries
<1>3. /\ status' = [status EXCEPT ![r] = "confirmed"]
      /\ ledger' = [ledger EXCEPT ![r] = Entries(Split(r))]
      /\ UNCHANGED <<req, consumed, call>>
  BY <1>1, <1>2
  DEF Confirm, ConfirmUnacknowledged, UpdateAndPost, worldVars, chainVars
<1>4. req[r].assertion \in MovedSet \ (PaidSet \cup VoidSet)
  BY <1>1, PendingIsOpen DEF MovedSet, AssertionsOf
<1>5. PaidSet' = PaidSet \cup {req[r].assertion}
  BY <1>3 DEF IInv, TypeOK, PaidSet, AssertionsOf
<1>6. Postings' = Postings \cup
          {[assertion |-> req[r].assertion, entries |-> Entries(Split(r))]}
  BY <1>1, <1>2, <1>3 DEF IInv, TypeOK, Postings
<1>7. \A s \in Requests : status'[s] = "failed" <=> status[s] = "failed"
  BY <1>1, <1>3 DEF IInv, TypeOK
<1>8. UNCHANGED <<MovedSet, VoidSet>>
  BY <1>3, <1>7 DEF MovedSet, VoidSet, AssertionsOf, Moved
<1>9. /\ terms[r].gross \in {offer.gross : offer \in Offers}
      /\ terms[r].bps \in {SignedBps[a] : a \in Assertions}
                          \cup {l.commissionBps : l \in UNION Feeds}
      /\ terms[r].bps <= SignedBps[req[r].assertion]
  BY <1>1 DEF IInv, RatesAreKnown, HasRow
<1> DEFINE a == req[r].assertion
           Amounts == {offer.gross : offer \in Offers}
           Rates == {SignedBps[b] : b \in Assertions}
                    \cup {l.commissionBps : l \in UNION Feeds}
<1>10. \E gross \in Amounts, bps \in Rates :
          /\ bps <= SignedBps[a]
          /\ Postings' = Postings \cup
                {[assertion |-> a,
                  entries |-> Promise!Entries(Promise!CalculateCommission(gross, bps))]}
  <2> HIDE DEF Amounts, Rates
  <2>1. terms[r].gross \in Amounts /\ terms[r].bps \in Rates
    BY <1>9 DEF Amounts, Rates
  <2>2. Promise!Entries(Promise!CalculateCommission(terms[r].gross, terms[r].bps))
          = Entries(Split(r))
    BY DEF Split, Entries, CalculateCommission, PlatformFeeShareBps, BasisPointsDivisor,
           Promise!Entries, Promise!CalculateCommission, Promise!PlatformFeeShareBps,
           Promise!BasisPointsDivisor
  <2>. QED
    BY <1>6, <1>9, <2>1, <2>2
<1>. QED
  BY <1>3, <1>4, <1>5, <1>8, <1>10
  DEF Promise!Pay, MovedSet, PaidSet, VoidSet, Postings

(***************************************************************************)
(* Every step of the service is a step of the ledger, or none.             *)
(***************************************************************************)
LEMMA RefinesNext == IInv /\ [Next]_vars => [Promise!Next]_(Promise!vars)
PROOF
<1> SUFFICES ASSUME IInv, [Next]_vars PROVE [Promise!Next]_(Promise!vars)
  OBVIOUS
<1> USE DEF storeVars, worldVars, chainVars, handlerVars
<1>1. ASSUME NEW r \in Requests, Handler(r)
      PROVE  Promise!Next \/ UNCHANGED Promise!vars
  <2>1. req[r].assertion \in Assertions
    BY DEF IInv, TypeOK, Request
  <2>2. CASE Begin(r) \/ BeginUnacknowledged(r)
    BY <2>1, <2>2, BeginRefines DEF Promise!Next
  <2>3. CASE Fail(r)
    BY <2>1, <2>3, FailRefines DEF Promise!Next
  <2>4. CASE Confirm(r) \/ ConfirmUnacknowledged(r)
    <3>1. Promise!Pay(req[r].assertion)
      BY <2>4, ConfirmRefines
    <3>. QED
      BY <2>1, <3>1 DEF Promise!Next, Promise!Pay
  <2>5. CASE SendSettle(r)
    <3>1. /\ call[r] = "none" /\ call' = [call EXCEPT ![r] = "sent"]
          /\ UNCHANGED <<req, status, consumed, ledger>>
      BY <2>5 DEF SendSettle, IInv, RowsFollowHandlers
    <3>2. \A s \in Requests : Moved(s)' <=> Moved(s)
      BY <3>1 DEF IInv, TypeOK, Moved
    <3>. QED
      BY <3>1, <3>2, Invisible
  <2>6. CASE \/ RejectMalformed(r) \/ VerifyAssertion(r) \/ LookupListing(r)
             \/ FacilitatorVerify(r) \/ BeginReused(r) \/ BeginFails(r)
             \/ SettleReturns(r) \/ SettleUnavailable(r) \/ FailFails(r)
             \/ ConfirmFails(r) \/ Journal(r)
    <3>1. UNCHANGED <<req, status, consumed, ledger, call>>
      BY <2>6
      DEF RejectMalformed, VerifyAssertion, LookupListing, FacilitatorVerify,
          BeginReused, BeginFails, SettleReturns, SettleUnavailable, FailFails,
          ConfirmFails, Journal
    <3>. QED
      BY <3>1, Invisible DEF Moved
  <2>. QED
    BY <1>1, <2>2, <2>3, <2>4, <2>5, <2>6 DEF Handler
<1>2. ASSUME NEW r \in Requests, FacilitatorTransfers(r) PROVE Promise!Next
  BY <1>2, TransferRefines DEF Promise!Next, IInv, TypeOK, Request
<1>3. ASSUME NEW r \in Requests, FacilitatorRefuses(r) PROVE UNCHANGED Promise!vars
  <2>1. /\ call[r] = "sent" /\ call' = [call EXCEPT ![r] = "refused"]
        /\ UNCHANGED <<req, status, consumed, ledger>>
    BY <1>3 DEF FacilitatorRefuses
  <2>2. \A s \in Requests : Moved(s)' <=> Moved(s)
    BY <2>1 DEF IInv, TypeOK, Moved
  <2>. QED
    BY <2>1, <2>2, Invisible
<1>4. CASE \/ Crash \/ RestartFacilitator \/ ReplaceListings
           \/ \E a \in Assertions : Expire(a)
           \/ (\E r \in Requests : MerchantReports(r)) \/ UNCHANGED vars
  <2>1. UNCHANGED <<req, status, consumed, ledger, call>>
    BY <1>4 DEF Crash, RestartFacilitator, ReplaceListings, Expire, MerchantReports, vars
  <2>. QED
    BY <2>1, Invisible DEF Moved
<1>. QED
  BY <1>1, <1>2, <1>3, <1>4 DEF Next, Facilitator

(***************************************************************************)
(* The settlement service keeps the promise of AttributionLedger, for any  *)
(* number of requests and any faults.                                      *)
(***************************************************************************)
THEOREM ImplementsLedger == Spec => KeepsPromise
PROOF
  BY RefinesInit, RefinesNext, InvariantHolds, PTL DEF Spec, KeepsPromise, Promise!Spec
=============================================================================
