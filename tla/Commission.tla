----------------------------- MODULE Commission -----------------------------
(***************************************************************************)
(* The arithmetic of one settlement, from internal/attribution and         *)
(* internal/settlement: the rate a settlement applies and the split of the *)
(* gross amount at that rate.  All amounts are whole cents.                *)
(*                                                                         *)
(* The Go code computes in int64.  gross * bps leaves that range only for  *)
(* a gross above 9 * 10^14 cents, and a gross reaches this code only after *)
(* it was found equal to a listing price, so amounts are integers here.    *)
(***************************************************************************)
EXTENDS Integers, Sequences

BasisPointsDivisor  == 10000
PlatformFeeShareBps == 3000

Bps == 0..BasisPointsDivisor

(* A mistake the settlement properties catch: the published rate decides. *)
ListingBpsAlone(signedBps, listingBps) == listingBps

(***************************************************************************)
(* The lower of the rate the assertion was signed with and the rate the    *)
(* listing publishes now.                                                  *)
(***************************************************************************)
EffectiveCommissionBps(signedBps, listingBps) ==
    IF listingBps < signedBps THEN listingBps ELSE signedBps

(* Another: both shares are truncated, so a cent can be lost. *)
SplitTruncatingBoth(gross, bps) ==
    LET commission == (gross * bps) \div BasisPointsDivisor
    IN  [commission  |-> commission,
         platformFee |-> (commission * PlatformFeeShareBps) \div BasisPointsDivisor,
         publisher   |-> (commission * (BasisPointsDivisor - PlatformFeeShareBps))
                             \div BasisPointsDivisor]

(***************************************************************************)
(* Both divisions truncate and the publisher's share is what is left, so   *)
(* it absorbs the remainder of the second one.                             *)
(***************************************************************************)
CalculateCommission(gross, bps) ==
    LET commission  == (gross * bps) \div BasisPointsDivisor
        platformFee == (commission * PlatformFeeShareBps) \div BasisPointsDivisor
    IN  [commission  |-> commission,
         platformFee |-> platformFee,
         publisher   |-> commission - platformFee]

(***************************************************************************)
(* The ledger entries of one confirmed settlement, in the order the INSERT *)
(* lists them.                                                             *)
(***************************************************************************)
Entries(split) ==
    << [account |-> "merchant_payable",  amount |-> -split.commission],
       [account |-> "platform_revenue",  amount |-> split.platformFee],
       [account |-> "publisher_payable", amount |-> split.publisher] >>
=============================================================================
