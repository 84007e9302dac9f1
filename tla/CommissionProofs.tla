-------------------------- MODULE CommissionProofs --------------------------
(***************************************************************************)
(* Facts about the commission arithmetic, for every amount and rate.       *)
(***************************************************************************)
EXTENDS Commission, TLAPS

(***************************************************************************)
(* The rate a settlement applies is one of the two it was given, and       *)
(* exceeds neither.                                                        *)
(***************************************************************************)
LEMMA EffectiveRate ==
    ASSUME NEW signed \in Bps, NEW listed \in Bps
    PROVE  /\ EffectiveCommissionBps(signed, listed) \in {signed, listed}
           /\ EffectiveCommissionBps(signed, listed) \in Bps
           /\ EffectiveCommissionBps(signed, listed) <= signed
           /\ EffectiveCommissionBps(signed, listed) <= listed
PROOF
  BY DEF EffectiveCommissionBps, Bps, BasisPointsDivisor

(***************************************************************************)
(* CalculateCommission: the two shares are never negative and add up to    *)
(* the commission exactly, and the commission is never more than the gross.*)
(***************************************************************************)
THEOREM SplitIsExact ==
    ASSUME NEW gross \in Nat, NEW bps \in Bps
    PROVE  LET split == CalculateCommission(gross, bps) IN
           /\ split.commission \in 0..gross
           /\ split.platformFee \in 0..split.commission
           /\ split.publisher \in 0..split.commission
           /\ split.platformFee + split.publisher = split.commission
PROOF
<1> DEFINE c == (gross * bps) \div 10000
           f == (c * 3000) \div 10000
<1>1. gross * bps \in Nat /\ gross * bps <= gross * 10000
  BY DEF Bps, BasisPointsDivisor
<1>2. c \in Nat /\ c <= gross
  BY <1>1
<1>3. f \in Nat /\ f <= c
  BY <1>2
<1>4. CalculateCommission(gross, bps)
        = [commission |-> c, platformFee |-> f, publisher |-> c - f]
  BY DEF CalculateCommission, BasisPointsDivisor, PlatformFeeShareBps
<1>. QED
  BY <1>2, <1>3, <1>4

(***************************************************************************)
(* A lower rate never makes a higher commission, truncation included.      *)
(***************************************************************************)
LEMMA CommissionMonotone ==
    ASSUME NEW gross \in Nat, NEW low \in Bps, NEW high \in Bps, low <= high
    PROVE  CalculateCommission(gross, low).commission
             <= CalculateCommission(gross, high).commission
PROOF
<1>1. gross * low \in Nat /\ gross * high \in Nat
  BY DEF Bps, BasisPointsDivisor
<1>2. gross * low <= gross * high
  BY DEF Bps, BasisPointsDivisor
<1>3. (gross * low) \div 10000 <= (gross * high) \div 10000
  BY <1>1, <1>2
<1>. QED
  BY <1>3 DEF CalculateCommission, BasisPointsDivisor

(***************************************************************************)
(* The three ledger entries of a split sum to zero, and what the merchant  *)
(* is charged is the commission.                                           *)
(***************************************************************************)
LEMMA EntriesBalance ==
    ASSUME NEW gross \in Nat, NEW bps \in Bps
    PROVE  LET e == Entries(CalculateCommission(gross, bps)) IN
           /\ e # << >>
           /\ e[1].amount + e[2].amount + e[3].amount = 0
           /\ e[2].amount >= 0
           /\ e[3].amount >= 0
           /\ -e[1].amount = CalculateCommission(gross, bps).commission
PROOF
<1> DEFINE split == CalculateCommission(gross, bps)
           e == Entries(split)
<1>1. /\ split.commission \in Nat /\ split.platformFee \in Nat
      /\ split.publisher \in Nat
      /\ split.platformFee + split.publisher = split.commission
  BY SplitIsExact
<1> HIDE DEF split
<1>2. /\ Len(e) = 3
      /\ e[1].amount = -split.commission
      /\ e[2].amount = split.platformFee
      /\ e[3].amount = split.publisher
  BY DEF Entries
<1>3. e # << >>
  <2>1. Len(<< >>) = 0
    OBVIOUS
  <2>2. Len(e) # Len(<< >>)
    BY <1>2, <2>1
  <2>. QED
    BY <2>2
<1>. QED
  BY <1>1, <1>2, <1>3 DEF split
=============================================================================
