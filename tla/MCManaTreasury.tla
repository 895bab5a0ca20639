-------------------------- MODULE MCManaTreasury --------------------------
(* ManaTreasury on small instances. *)
EXTENDS ManaTreasury, TLC

\* Wallets are interchangeable: no definition prefers one.
UserSymmetry == Permutations(Users)
=============================================================================
