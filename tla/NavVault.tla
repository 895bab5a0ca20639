------------------------------ MODULE NavVault ------------------------------
(***************************************************************************)
(* What the Mana treasury promises, without saying how: a vault whose      *)
(* shares are worth assets / shares each.  Nobody joins or leaves at the   *)
(* expense of those who stay; a leaver is given the exact value of the     *)
(* shares redeemed, less than one unit short; a claim, once given, is paid *)
(* in full.                                                                *)
(***************************************************************************)
EXTENDS Naturals

CONSTANT Owners

VARIABLES
  assets,   \* backing of the shares that are not being redeemed
  shares,   \* shares that are not being redeemed
  claims,   \* what each owner who is leaving will be paid
  wallet    \* what each owner holds outside the vault

vars == <<assets, shares, claims, wallet>>

Init ==
  /\ assets = 0
  /\ shares = 0
  /\ claims = [u \in Owners |-> 0]
  /\ wallet \in [Owners -> Nat]

Join(u) ==
  \E paid \in 1..wallet[u] : \E issued \in 1..paid :
    /\ shares = 0 => issued = paid
    /\ issued * assets <= paid * shares \/ shares = 0
    /\ wallet' = [wallet EXCEPT ![u] = @ - paid]
    /\ assets' = assets + paid
    /\ shares' = shares + issued
    /\ UNCHANGED claims

Leave(u) ==
  \E redeemed \in 1..shares : \E claim \in redeemed..assets :
    /\ claims[u] = 0
    /\ claim * shares <= redeemed * assets
    /\ redeemed * assets < (claim + 1) * shares
    /\ claims' = [claims EXCEPT ![u] = claim]
    /\ assets' = assets - claim
    /\ shares' = shares - redeemed
    /\ UNCHANGED wallet

Settle(u) ==
  /\ claims[u] > 0
  /\ wallet' = [wallet EXCEPT ![u] = @ + claims[u]]
  /\ claims' = [claims EXCEPT ![u] = 0]
  /\ UNCHANGED <<assets, shares>>

\* An owner gives to the vault, or loses what is given elsewhere.
Give(u) ==
  \E amount \in 1..wallet[u] :
    /\ wallet' = [wallet EXCEPT ![u] = @ - amount]
    /\ assets' \in {assets, assets + amount}
    /\ UNCHANGED <<shares, claims>>

Earn == assets' \in Nat /\ assets' > assets /\ UNCHANGED <<shares, claims, wallet>>

Forfeit == shares' \in Nat /\ shares' < shares /\ UNCHANGED <<assets, claims, wallet>>

Next ==
  \/ \E u \in Owners : Join(u) \/ Leave(u) \/ Settle(u) \/ Give(u)
  \/ Earn
  \/ Forfeit

Spec == Init /\ [][Next]_vars
=============================================================================
