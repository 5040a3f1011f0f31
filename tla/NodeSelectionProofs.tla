-------------------------- MODULE NodeSelectionProofs --------------------------
(***************************************************************************)
(* Theorems about NodeSelection, for every fleet and every policy.         *)
(***************************************************************************)
EXTENDS NodeSelection, FiniteSetTheorems, TLAPS

LEMMA PickSizeFits ==
  ASSUME NEW t \in DOMAIN Policy, NEW available \in Nat
  PROVE  /\ PickSize(Policy[t], available) \in Nat
         /\ PickSize(Policy[t], available) <= available
         /\ PickSize(Policy[t], available) >= Policy[t].quorum <=> available >= Policy[t].quorum
BY SelectionAssumption DEF PickSize

LEMMA OfTypeFinite ==
  ASSUME NEW E, IsFiniteSet(E), NEW t
  PROVE  IsFiniteSet(OfType(E, t)) /\ Cardinality(OfType(E, t)) \in Nat
<1>1. OfType(E, t) \in SUBSET E
  BY DEF OfType
<1> QED BY <1>1, FS_Subset, FS_CardinalityType

\* selectForUrl refuses a URL exactly when a required type has fewer eligible nodes
\* than its quorum: neither the slice, whose bound is a maximum of quorum and pool,
\* nor the mode of the type takes too few of them.
THEOREM RefusedForWantOfNodes ==
  ASSUME NEW E \in SUBSET Nodes, IsFiniteSet(E), NEW S \in Selections(E)
  PROVE  CanDispatch(S) <=> CanDispatch(E)
<1>1. ASSUME NEW t \in DOMAIN Policy
      PROVE  Cardinality(OfType(S, t)) >= Policy[t].quorum
               <=> Cardinality(OfType(E, t)) >= Policy[t].quorum
  <2>1. Cardinality(OfType(S, t)) = PickSize(Policy[t], Cardinality(OfType(E, t)))
    BY SelectionAssumption DEF Selections
  <2> QED BY <2>1, OfTypeFinite, PickSizeFits
<1> QED BY <1>1 DEF CanDispatch

\* A finite set has a subset of every size up to its own.
LEMMA SubsetOfSize ==
  ASSUME NEW T, IsFiniteSet(T), NEW k \in Nat, k <= Cardinality(T)
  PROVE  \E P \in SUBSET T : Cardinality(P) = k
<1> DEFINE n == Cardinality(T)
<1>1. n \in Nat /\ ExistsBijection(1..n, T)
  BY FS_CardinalityType
<1>2. PICK f : f \in Bijection(1..n, T)
  BY <1>1 DEF ExistsBijection
<1> DEFINE P == {f[i] : i \in 1..k}
           g == [i \in 1..k |-> f[i]]
<1>3. 1..k \subseteq 1..n
  BY <1>1
<1>4. f \in [1..n -> T] /\ \A i, j \in 1..n : f[i] = f[j] => i = j
  BY <1>2 DEF Bijection, Injection, IsInjective
<1>5. P \in SUBSET T
  BY <1>3, <1>4
<1>6. g \in Bijection(1..k, P)
  <2>1. g \in [1..k -> P]
    OBVIOUS
  <2>2. \A i, j \in 1..k : g[i] = g[j] => i = j
    BY <1>3, <1>4
  <2>3. \A y \in P : \E i \in 1..k : g[i] = y
    OBVIOUS
  <2> HIDE DEF g, P
  <2> QED BY <2>1, <2>2, <2>3 DEF Bijection, Injection, IsInjective, Surjection
<1>7. ExistsBijection(1..k, P)
  BY <1>6 DEF ExistsBijection
<1>8. Cardinality(P) = k
  <2> HIDE DEF P
  <2> QED BY <1>7, FS_CountingElements
<1> QED BY <1>5, <1>8

\* There is always a selection, whoever is eligible: the request that adds a URL is
\* never without an answer from selectForUrl.
THEOREM SelectionExists ==
  ASSUME NEW E \in SUBSET Nodes, IsFiniteSet(E)
  PROVE  Selections(E) # {}
<1> DEFINE size(t) == PickSize(Policy[t], Cardinality(OfType(E, t)))
<1>1. \A t \in DOMAIN Policy : \E P \in SUBSET OfType(E, t) : Cardinality(P) = size(t)
  <2> TAKE t \in DOMAIN Policy
  <2>1. IsFiniteSet(OfType(E, t)) /\ Cardinality(OfType(E, t)) \in Nat
    BY OfTypeFinite
  <2>2. size(t) \in Nat /\ size(t) <= Cardinality(OfType(E, t))
    BY <2>1, PickSizeFits
  <2> HIDE DEF size
  <2> QED BY <2>1, <2>2, SubsetOfSize
<1> DEFINE pick == [t \in DOMAIN Policy |->
                      CHOOSE P \in SUBSET OfType(E, t) : Cardinality(P) = size(t)]
           S == UNION {pick[t] : t \in DOMAIN Policy}
<1>2. \A t \in DOMAIN Policy : pick[t] \in SUBSET OfType(E, t) /\ Cardinality(pick[t]) = size(t)
  BY <1>1
<1> HIDE DEF pick, size
<1>3. S \in SUBSET E
  BY <1>2 DEF OfType
<1>4. \A t \in DOMAIN Policy : OfType(S, t) = pick[t]
  BY <1>2 DEF OfType
<1>5. \A t \in NodeTypes \ DOMAIN Policy : OfType(S, t) = {}
  BY <1>2 DEF OfType
<1> HIDE DEF S
<1>6. \A t \in DOMAIN Policy : Cardinality(OfType(S, t)) = PickSize(Policy[t], Cardinality(OfType(E, t)))
  BY <1>2, <1>4 DEF size
<1>7. S \in Selections(E)
  BY <1>3, <1>5, <1>6 DEF Selections
<1> QED BY <1>7
===============================================================================
