-------------------------- MODULE AttributionLedger -------------------------
(***************************************************************************)
(* What the settlement service promises of an assertion, without requests, *)
(* handlers, transactions or failures: it is claimed once, value moves for *)
(* it at most once and only under the claim, and its settlement ends at    *)
(* most once, as paid, with one balanced posting at a rate no higher than  *)
(* the signed one, or as void, with none.  A void settlement may still see *)
(* its value move: the service records what it was told, not what happened.*)
(***************************************************************************)
EXTENDS Commission

CONSTANTS
    Assertions,
    SignedBps,      \* the rate each assertion was signed with
    Amounts,        \* the gross amounts purchases have
    Rates           \* the rates settlements may apply

VARIABLES claimed, moved, paid, void, postings

vars == <<claimed, moved, paid, void, postings>>

Init ==
    /\ claimed = {}
    /\ moved = {}
    /\ paid = {}
    /\ void = {}
    /\ postings = {}

Claim(a) ==
    /\ a \notin claimed
    /\ claimed' = claimed \cup {a}
    /\ UNCHANGED <<moved, paid, void, postings>>

Move(a) ==
    /\ a \in claimed \ moved
    /\ moved' = moved \cup {a}
    /\ UNCHANGED <<claimed, paid, void, postings>>

Pay(a) ==
    /\ a \in moved \ (paid \cup void)
    /\ paid' = paid \cup {a}
    /\ \E gross \in Amounts, bps \in Rates :
          /\ bps <= SignedBps[a]
          /\ postings' = postings \cup
                {[assertion |-> a, entries |-> Entries(CalculateCommission(gross, bps))]}
    /\ UNCHANGED <<claimed, moved, void>>

Void(a) ==
    /\ a \in claimed \ (paid \cup void)
    /\ void' = void \cup {a}
    /\ UNCHANGED <<claimed, moved, paid, postings>>

Next == \E a \in Assertions : Claim(a) \/ Move(a) \/ Pay(a) \/ Void(a)

Spec == Init /\ [][Next]_vars
=============================================================================
