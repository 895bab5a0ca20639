------------------------------ MODULE MCCpPool ------------------------------
(* CpPool on small instances.  Configurations and per-mint fees are functions,
   which a cfg cannot write down. *)
EXTENDS CpPool

MCRates(trade, creator, protocol, fund) ==
  [n \in RateNames |->
     IF n = "trade" THEN trade ELSE IF n = "creator" THEN creator
     ELSE IF n = "protocol" THEN protocol ELSE fund]

\* Fees large enough to be owed after one small swap.
LargeFees == MCRates(1, 1, 2, 1)
FixedRates == MCRates({1}, {1}, {2}, {1})
FirstRates == MCRates(2, 1, 2, 2)
MovingRates == MCRates({0, 2}, {0, 1}, {2, 4}, {0, 2})

FiveFour == [s \in Sides |-> IF s = 0 THEN 5 ELSE 4]
SixFive == [s \in Sides |-> IF s = 0 THEN 6 ELSE 5]
NoTransferFee == [s \in Sides |-> 0]
HalfOnSide1 == [s \in Sides |-> IF s = 0 THEN 0 ELSE 1]
AtMostOne == [s \in Sides |-> 1]

\* bound: once there is a pool, which does not look back at the registries, they
\* stay as its creation needed them.
RegistriesSettled ==
  created => (permission <=> enableCreatorFee) /\ supported = Unlisted
=============================================================================
