------------------------------ MODULE FeeLedger ------------------------------
(***************************************************************************)
(* What a pool promises those it owes fees to, without saying how it is    *)
(* traded: a fee, once owed, is covered by the pool's vault and stays owed *)
(* until it is paid; paying one receiver takes from the vaults exactly     *)
(* what that receiver is no longer owed and touches nobody else's fees.    *)
(***************************************************************************)
EXTENDS Integers

VARIABLES
  owed,    \* what each receiver is owed of each token
  vault    \* the pool's two vaults

vars == <<owed, vault>>

Sides == {0, 1}
Receivers == {"protocol", "fund", "creator"}

OwedOn(s) == owed["protocol"][s] + owed["fund"][s] + owed["creator"][s]

Covered == \A s \in Sides : OwedOn(s) < vault[s]

Init ==
  /\ owed = [r \in Receivers |-> [s \in Sides |-> 0]]
  /\ vault = [s \in Sides |-> 0]

\* Trading and liquidity: whatever they do to the vaults, fees only accrue.
Book ==
  /\ owed' \in [Receivers -> [Sides -> Nat]]
  /\ vault' \in [Sides -> Nat]
  /\ \A r \in Receivers, s \in Sides : owed'[r][s] >= owed[r][s]
  /\ Covered'

Pay(r) ==
  /\ owed' = [owed EXCEPT ![r] = owed'[r]]
  /\ owed'[r] \in [Sides -> Nat]
  /\ \A s \in Sides : owed'[r][s] <= owed[r][s]
  /\ vault' = [s \in Sides |-> vault[s] - (owed[r][s] - owed'[r][s])]

Next == Book \/ \E r \in Receivers : Pay(r)

Spec == Init /\ [][Next]_vars
=============================================================================
