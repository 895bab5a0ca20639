-------------------------- MODULE TokenTotalsProofs --------------------------
(* What a change of one or two balances does to their total. *)
EXTENDS TokenTotals, FiniteSetTheorems, Functions, TLAPS

\* An account's units are as many as its balance says.
LEMMA BalanceCardinality ==
  ASSUME NEW u, NEW n \in Nat
  PROVE  /\ IsFiniteSet({u} \X (1..n))
         /\ Cardinality({u} \X (1..n)) = n
<1> DEFINE f == [i \in 1..n |-> <<u, i>>]
<1>1. IsFiniteSet(1..n) /\ Cardinality(1..n) = n
  BY FS_Interval
<1>2. f \in Bijection(1..n, {u} \X (1..n))
  <2>1. f \in [1..n -> {u} \X (1..n)]
    OBVIOUS
  <2>2. \A i, j \in 1..n : f[i] = f[j] => i = j
    OBVIOUS
  <2>3. \A t \in {u} \X (1..n) : \E i \in 1..n : f[i] = t
    OBVIOUS
  <2> QED BY <2>1, <2>2, <2>3 DEF Bijection, Injection, Surjection, IsInjective
<1>3. ExistsBijection(1..n, {u} \X (1..n))
  BY <1>2 DEF ExistsBijection
<1> QED BY <1>1, <1>3, FS_Bijection

\* Finitely many accounts hold finitely many units.
LEMMA UnitsFinite ==
  ASSUME NEW S, IsFiniteSet(S), NEW f \in [S -> Nat]
  PROVE  IsFiniteSet(Units(f)) /\ Total(f) \in Nat
<1> DEFINE P == [u \in S |-> {u} \X (1..f[u])]
           T == {{u} \X (1..f[u]) : u \in S}
<1>1. P \in Surjection(S, T)
  BY DEF Surjection
<1>2. IsFiniteSet(T)
  BY <1>1, FS_Surjection
<1>3. ASSUME NEW X \in T PROVE IsFiniteSet(X)
  <2>1. PICK u \in S : X = {u} \X (1..f[u])
    OBVIOUS
  <2>2. f[u] \in Nat
    OBVIOUS
  <2> QED BY <2>1, <2>2, BalanceCardinality
<1>4. IsFiniteSet(UNION T)
  BY <1>2, <1>3, FS_UNION
<1>5. Units(f) = UNION T
  BY DEF Units
<1> QED BY <1>4, <1>5, FS_CardinalityType DEF Total

\* The units in every account but u's.
UnitsElsewhere(f, u) == {x \in Units(f) : x[1] # u}

\* The total is one balance and the rest, whatever that balance is.
LEMMA TotalSplit ==
  ASSUME NEW S, IsFiniteSet(S), NEW f \in [S -> Nat], NEW u \in S
  PROVE  /\ Cardinality(UnitsElsewhere(f, u)) \in Nat
         /\ Total(f) = Cardinality(UnitsElsewhere(f, u)) + f[u]
<1> DEFINE rest == UnitsElsewhere(f, u)
           own  == {u} \X (1..f[u])
<1>1. IsFiniteSet(Units(f))
  BY UnitsFinite
<1>2. IsFiniteSet(rest) /\ Cardinality(rest) \in Nat
  <2>1. rest \in SUBSET Units(f)
    BY DEF UnitsElsewhere
  <2>2. IsFiniteSet(rest)
    BY <1>1, <2>1, FS_Subset
  <2> QED BY <2>2, FS_CardinalityType
<1>3. f[u] \in Nat /\ IsFiniteSet(own) /\ Cardinality(own) = f[u]
  BY BalanceCardinality
<1>4. Units(f) = rest \cup own
  BY DEF Units, UnitsElsewhere
<1>5. rest \cap own = {}
  BY DEF UnitsElsewhere
<1> HIDE DEF rest, own
<1>6. Cardinality(rest \cap own) = 0
  BY <1>5, FS_EmptySet
<1>7. Cardinality(rest \cup own) = Cardinality(rest) + Cardinality(own) - Cardinality(rest \cap own)
  BY <1>2, <1>3, FS_Union
<1>8. Total(f) = Cardinality(rest) + f[u]
  BY <1>2, <1>3, <1>4, <1>6, <1>7 DEF Total
<1> QED BY <1>2, <1>8 DEF rest

\* A balance is at most the total.
LEMMA BalanceAtMostTotal ==
  ASSUME NEW S, IsFiniteSet(S), NEW f \in [S -> Nat], NEW u \in S
  PROVE  f[u] <= Total(f)
<1>1. /\ Cardinality(UnitsElsewhere(f, u)) \in Nat
      /\ Total(f) = Cardinality(UnitsElsewhere(f, u)) + f[u]
  BY TotalSplit
<1>2. f[u] \in Nat
  OBVIOUS
<1> QED BY <1>1, <1>2

\* If at most u's balance differs, the total differs as much.
LEMMA TotalChange ==
  ASSUME NEW S, IsFiniteSet(S), NEW f \in [S -> Nat], NEW g \in [S -> Nat], NEW u \in S,
         \A v \in S : v # u => g[v] = f[v]
  PROVE  /\ Total(g) = Total(f) - f[u] + g[u]
         /\ Total(f) \in Nat /\ Total(g) \in Nat
<1>1. UnitsElsewhere(f, u) = UnitsElsewhere(g, u)
  <2>1. \A x : x \in UnitsElsewhere(f, u) <=> \E v \in S : v # u /\ x \in {v} \X (1..f[v])
    BY DEF Units, UnitsElsewhere
  <2>2. \A x : x \in UnitsElsewhere(g, u) <=> \E v \in S : v # u /\ x \in {v} \X (1..g[v])
    BY DEF Units, UnitsElsewhere
  <2> QED BY <2>1, <2>2
<1> DEFINE rest == Cardinality(UnitsElsewhere(f, u))
<1>2. rest \in Nat /\ Total(f) = rest + f[u]
  BY TotalSplit
<1>3. Total(g) = rest + g[u]
  BY <1>1, TotalSplit
<1>4. f[u] \in Nat /\ g[u] \in Nat
  OBVIOUS
<1> HIDE DEF rest
<1> QED BY <1>2, <1>3, <1>4

\* All accounts empty: nothing in total.
LEMMA TotalZero ==
  ASSUME NEW S
  PROVE  Total([u \in S |-> 0]) = 0
<1>1. Units([u \in S |-> 0]) = {}
  BY DEF Units
<1> QED BY <1>1, FS_EmptySet DEF Total

\* Balances that are nowhere higher have no higher total.
LEMMA TotalMonotone ==
  ASSUME NEW S, IsFiniteSet(S), NEW f \in [S -> Nat], NEW g \in [S -> Nat],
         \A u \in S : f[u] <= g[u]
  PROVE  Total(f) <= Total(g)
<1>1. IsFiniteSet(Units(g))
  BY UnitsFinite
<1>2. Units(f) \subseteq Units(g)
  <2>1. ASSUME NEW u \in S PROVE {u} \X (1..f[u]) \subseteq {u} \X (1..g[u])
    <3>1. f[u] \in Nat /\ g[u] \in Nat /\ f[u] <= g[u]
      OBVIOUS
    <3> QED BY <3>1
  <2>2. DOMAIN f = S /\ DOMAIN g = S
    OBVIOUS
  <2> QED BY <2>1, <2>2 DEF Units
<1> QED BY <1>1, <1>2, FS_Subset DEF Total

\* A transfer between two accounts leaves the total as it is.
LEMMA TotalTransfer ==
  ASSUME NEW S, IsFiniteSet(S), NEW f \in [S -> Nat], NEW g \in [S -> Nat],
         NEW u \in S, NEW v \in S, u # v,
         g[u] + g[v] = f[u] + f[v],
         \A w \in S : w # u /\ w # v => g[w] = f[w]
  PROVE  Total(g) = Total(f)
<1> DEFINE h == [w \in S |-> IF w = u THEN g[u] ELSE f[w]]
<1>1. h \in [S -> Nat] /\ h[u] = g[u] /\ h[v] = f[v]
  OBVIOUS
<1>2. \A w \in S : w # u => h[w] = f[w]
  OBVIOUS
<1>3. \A w \in S : w # v => g[w] = h[w]
  OBVIOUS
<1> HIDE DEF h
<1>4. Total(h) = Total(f) - f[u] + h[u] /\ Total(f) \in Nat
  BY <1>1, <1>2, TotalChange
<1>5. Total(g) = Total(h) - h[v] + g[v] /\ Total(g) \in Nat /\ Total(h) \in Nat
  BY <1>1, <1>3, TotalChange
<1>6. f[u] \in Nat /\ f[v] \in Nat /\ g[u] \in Nat /\ g[v] \in Nat
  OBVIOUS
<1> QED BY <1>1, <1>4, <1>5, <1>6
=============================================================================
