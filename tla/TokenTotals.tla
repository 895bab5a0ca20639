----------------------------- MODULE TokenTotals -----------------------------
(***************************************************************************)
(* The sum of the token balances of several accounts, as the number of     *)
(* token units in them: a balance of n holds the units 1..n.  Counting a   *)
(* set, where a fold would add, lets the theorems on cardinality prove     *)
(* what a transfer does to a total (TokenTotalsProofs).                    *)
(***************************************************************************)
EXTENDS Integers, FiniteSets

Units(balance) ==
  UNION {{u} \X (1..balance[u]) : u \in DOMAIN balance}

Total(balance) == Cardinality(Units(balance))
=============================================================================
