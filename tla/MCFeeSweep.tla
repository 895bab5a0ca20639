----------------------------- MODULE MCFeeSweep -----------------------------
(* FeeSweep for a pool of MIM and one other token, whose mint withholds a
   transfer fee. *)
EXTENDS FeeSweep

CONSTANTS MIM, ASSET

MCMintOf == [s \in Sides |-> IF s = 0 THEN MIM ELSE ASSET]
MCTokens == [s \in Sides |-> 3]
MCArriving == [s \in Sides |-> [amount \in 0..MCTokens[s] |->
                 IF s = 0 THEN amount ELSE amount \div 2]]
=============================================================================
