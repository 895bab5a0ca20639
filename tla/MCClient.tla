------------------------------ MODULE MCClient ------------------------------
(* Client on small instances. *)
EXTENDS Client, MCCpPool

\* bounds: the admin closes no operation, and neither closes nor opens the creation
\* of pools once there is one; the client is used once trading is open; nobody
\* burns LP tokens.  The client's limits depend on none of these.
FewSwitches ==
  /\ disabled = {} /\ (created => ~creationOff) /\ RegistriesSettled
  /\ created /\ order # NoOrder => opened
  /\ created => lpMinted + LockedLp = lpSupply

\* Fees that leave something to trade with; all of the trade fee is protocol's.
SmallFees == MCRates(1, 1, 8, 0)
SmallRates == MCRates({1}, {1}, {8}, {0})

FiveFive == [s \in Sides |-> 5]
FiveEight == [s \in Sides |-> IF s = 0 THEN 5 ELSE 8]
Uncapped == [s \in Sides |-> 8]
=============================================================================
