--------------------------------- MODULE Sums ---------------------------------
(***************************************************************************)
(* Sums over finite sets, as MapThenSumSet of the community modules builds *)
(* them: choosing one element after the other.  What a sum is does not     *)
(* depend on the choices; induction goes by the smallest counterexample.   *)
(***************************************************************************)
EXTENDS Integers, FiniteSets, FiniteSetTheorems, WellFoundedInduction, NaturalsInduction, TLAPS

Some(s) == CHOOSE x \in s : TRUE

\* it gives the sums of w over the subsets of S.
Adds(it, w, S) ==
  it = [t \in SUBSET S |-> IF t = {} THEN 0 ELSE w[Some(t)] + it[t \ {Some(t)}]]

\* The same for the subsets with at most n elements.
Small(S, n) == {t \in SUBSET S : Cardinality(t) <= n}
AddsSmall(it, w, S, n) ==
  it = [t \in Small(S, n) |-> IF t = {} THEN 0 ELSE w[Some(t)] + it[t \ {Some(t)}]]

Alike(w, v, S) == \A x \in S : w[x] = v[x]

Total(w, S) == (CHOOSE it : Adds(it, w, S))[S]

LEMMA LeastNumber ==
  ASSUME NEW S \in SUBSET Nat, S # {}
  PROVE  \E n \in S : \A m \in S : n <= m
<1> DEFINE R == OpToRel(<, Nat)
<1>1. IsWellFoundedOn(R, Nat)
  BY NatLessThanWellFounded
<1>2. \A x, y \in Nat : (<<y, x>> \in R) <=> y < x
  BY DEF OpToRel
<1> HIDE DEF R
<1>3. \E x \in S : \A y \in S : ~(<<y, x>> \in R)
  BY <1>1, WFMin, Zenon
<1>4. \E x \in S : \A y \in S : ~(y < x)
  BY <1>2, <1>3, Zenon
<1> QED BY <1>4, SMT

\* Among numbers up to n one is the greatest.
LEMMA GreatestNumber ==
  ASSUME NEW n \in Nat, NEW S \in SUBSET (0..n), S # {}
  PROVE  \E m \in S : \A k \in S : k <= m
<1> DEFINE T == {n - x : x \in S}
<1>1. T \in SUBSET Nat /\ T # {}
  <2>1. \A x \in S : n - x \in Nat
    OBVIOUS
  <2>2. \A x \in S : n - x \in T
    OBVIOUS
  <2>3. \A y \in T : \E x \in S : y = n - x
    OBVIOUS
  <2> HIDE DEF T
  <2> QED BY <2>1, <2>2, <2>3
<1> HIDE DEF T
<1>2. PICK t \in T : \A u \in T : t <= u
  BY <1>1, LeastNumber
<1>3. PICK m \in S : t = n - m
  BY DEF T
<1>4. ASSUME NEW k \in S PROVE k <= m
  <2>1. t <= n - k
    BY <1>2 DEF T
  <2> QED BY <1>3, <2>1
<1> QED BY <1>4

\* Among subsets of a finite set one is the smallest.
LEMMA SmallestSubset ==
  ASSUME NEW S, IsFiniteSet(S), NEW B \in SUBSET (SUBSET S), B # {}
  PROVE  \E t \in B : \A u \in B : u \subseteq t => u = t
<1> DEFINE N == {Cardinality(t) : t \in B}
<1>1. \A t \in B : IsFiniteSet(t) /\ Cardinality(t) \in Nat
  BY FS_Subset, FS_CardinalityType
<1>2. N \in SUBSET Nat /\ N # {}
  BY <1>1
<1> HIDE DEF N
<1>3. PICK n \in N : \A m \in N : n <= m
  BY <1>2, LeastNumber
<1>4. PICK t \in B : n = Cardinality(t)
  BY DEF N
<1>5. ASSUME NEW u \in B, u \subseteq t, u # t PROVE FALSE
  <2>1. Cardinality(u) < Cardinality(t)
    BY <1>1, <1>5, FS_Subset
  <2>2. n <= Cardinality(u)
    BY <1>3 DEF N
  <2> QED BY <1>1, <1>4, <2>1, <2>2
<1> QED BY <1>5

LEMMA SomeIsIn == \A t : t # {} => Some(t) \in t
BY DEF Some

LEMMA OneLess ==
  ASSUME NEW S, IsFiniteSet(S), NEW t \in SUBSET S, NEW x \in t
  PROVE  /\ t \ {x} \in SUBSET S /\ t \ {x} # t
         /\ Cardinality(t) \in Nat /\ Cardinality(t \ {x}) = Cardinality(t) - 1
<1>1. IsFiniteSet(t)
  BY FS_Subset
<1> QED BY <1>1, FS_RemoveElement, FS_CardinalityType

LEMMA AddsSmallExists ==
  ASSUME NEW w, NEW S, IsFiniteSet(S), NEW n \in Nat
  PROVE  \E it : AddsSmall(it, w, S, n)
<1> DEFINE B == {m \in Nat : ~\E it : AddsSmall(it, w, S, m)}
<1>1. SUFFICES ASSUME B # {} PROVE FALSE
  OBVIOUS
<1>2. B \in SUBSET Nat
  OBVIOUS
<1>3. PICK m \in B : \A k \in B : m <= k
  <2> HIDE DEF B
  <2> QED BY <1>1, <1>2, LeastNumber
<1>4. \A t \in SUBSET S : IsFiniteSet(t) /\ Cardinality(t) \in Nat
  BY FS_Subset, FS_CardinalityType
<1>5. m # 0
  <2> SUFFICES ASSUME m = 0 PROVE FALSE
    OBVIOUS
  <2>1. \A t \in Small(S, 0) : t = {}
    BY <1>4, FS_EmptySet DEF Small
  <2> DEFINE it == [t \in Small(S, 0) |-> 0]
  <2>2. it = [t \in Small(S, 0) |-> IF t = {} THEN 0 ELSE w[Some(t)] + it[t \ {Some(t)}]]
    BY <2>1
  <2>3. AddsSmall(it, w, S, 0)
    BY <2>2 DEF AddsSmall
  <2> QED BY <2>3
<1>6. m \in Nat /\ m - 1 \in Nat /\ ~(m <= m - 1)
  BY <1>5
<1>7. PICK less : AddsSmall(less, w, S, m - 1)
  BY <1>3, <1>6
<1> DEFINE it == [t \in Small(S, m) |-> IF t = {} THEN 0 ELSE w[Some(t)] + less[t \ {Some(t)}]]
<1>8. ASSUME NEW t \in Small(S, m), t # {}
      PROVE  t \ {Some(t)} \in Small(S, m - 1) /\ t \ {Some(t)} \in Small(S, m)
  <2>1. Some(t) \in t
    BY <1>8, SomeIsIn
  <2>2. t \in SUBSET S /\ Cardinality(t) <= m
    BY DEF Small
  <2> QED BY <1>6, <2>1, <2>2, OneLess DEF Small
<1>9. \A t \in Small(S, m - 1) : t \in Small(S, m)
  BY <1>4, <1>6 DEF Small
<1>10. \A t \in Small(S, m - 1) :
         less[t] = IF t = {} THEN 0 ELSE w[Some(t)] + less[t \ {Some(t)}]
  BY <1>7 DEF AddsSmall
<1>11. \A t \in Small(S, m - 1) : it[t] = less[t]
  BY <1>9, <1>10
<1>12. \A t \in Small(S, m) :
         it[t] = IF t = {} THEN 0 ELSE w[Some(t)] + it[t \ {Some(t)}]
  <2> TAKE t \in Small(S, m)
  <2>1. it[t] = IF t = {} THEN 0 ELSE w[Some(t)] + less[t \ {Some(t)}]
    OBVIOUS
  <2> HIDE DEF it
  <2> QED BY <1>8, <1>11, <2>1
<1>13. it = [t \in Small(S, m) |-> it[t]]
  OBVIOUS
<1>14. AddsSmall(it, w, S, m)
  <2> HIDE DEF it
  <2>1. [t \in Small(S, m) |-> it[t]] =
          [t \in Small(S, m) |-> IF t = {} THEN 0 ELSE w[Some(t)] + it[t \ {Some(t)}]]
    BY <1>12
  <2> QED BY <1>13, <2>1 DEF AddsSmall
<1> QED BY <1>14

LEMMA AddsExists ==
  ASSUME NEW w, NEW S, IsFiniteSet(S)
  PROVE  \E it : Adds(it, w, S)
<1>1. Cardinality(S) \in Nat /\ \A t \in SUBSET S : Cardinality(t) <= Cardinality(S)
  BY FS_Subset, FS_CardinalityType
<1>2. Small(S, Cardinality(S)) = SUBSET S
  BY <1>1 DEF Small
<1>3. PICK it : AddsSmall(it, w, S, Cardinality(S))
  BY <1>1, AddsSmallExists
<1> QED BY <1>2, <1>3 DEF AddsSmall, Adds

LEMMA AddsStep ==
  ASSUME NEW w, NEW S, NEW it, Adds(it, w, S)
  PROVE  \A t \in SUBSET S : it[t] = IF t = {} THEN 0 ELSE w[Some(t)] + it[t \ {Some(t)}]
BY DEF Adds

LEMMA AddsNat ==
  ASSUME NEW w, NEW S, IsFiniteSet(S), NEW it, Adds(it, w, S), \A x \in S : w[x] \in Nat
  PROVE  \A t \in SUBSET S : it[t] \in Nat
<1>0. \A u \in SUBSET S : it[u] = IF u = {} THEN 0 ELSE w[Some(u)] + it[u \ {Some(u)}]
  BY AddsStep
<1> DEFINE B == {t \in SUBSET S : it[t] \notin Nat}
<1>1. SUFFICES ASSUME B # {} PROVE FALSE
  OBVIOUS
<1>2. PICK t \in B : \A u \in B : u \subseteq t => u = t
  <2>1. B \in SUBSET (SUBSET S)
    OBVIOUS
  <2> HIDE DEF B
  <2> QED BY <1>1, <2>1, SmallestSubset
<1>3. t # {}
  BY SMTT(40), <1>0
<1>4. Some(t) \in t /\ Some(t) \in S
  BY <1>3, SomeIsIn
<1>5. t \ {Some(t)} \in SUBSET S /\ t \ {Some(t)} # t
  BY <1>4
<1>6. it[t \ {Some(t)}] \in Nat
  BY <1>2, <1>5
<1>7. it[t] = w[Some(t)] + it[t \ {Some(t)}]
  BY <1>0, <1>3
<1> QED BY <1>4, <1>6, <1>7

\* Any element may be the last that is added.
LEMMA AddsAny ==
  ASSUME NEW w, NEW S, IsFiniteSet(S), NEW it, Adds(it, w, S), \A x \in S : w[x] \in Nat
  PROVE  \A t \in SUBSET S : \A x \in t : it[t] = w[x] + it[t \ {x}]
<1>0. \A u \in SUBSET S : it[u] = IF u = {} THEN 0 ELSE w[Some(u)] + it[u \ {Some(u)}]
  BY AddsStep
<1> DEFINE B == {t \in SUBSET S : \E x \in t : it[t] # w[x] + it[t \ {x}]}
<1>1. SUFFICES ASSUME B # {} PROVE FALSE
  OBVIOUS
<1>2. PICK t \in B : \A u \in B : u \subseteq t => u = t
  <2>1. B \in SUBSET (SUBSET S)
    OBVIOUS
  <2> HIDE DEF B
  <2> QED BY <1>1, <2>1, SmallestSubset
<1>3. PICK x \in t : it[t] # w[x] + it[t \ {x}]
  OBVIOUS
<1>4. PICK y : y = Some(t)
  OBVIOUS
<1>5. y \in t /\ it[t] = w[y] + it[t \ {y}]
  <2>1. t # {}
    OBVIOUS
  <2> QED BY <1>0, <1>4, <2>1, SomeIsIn
<1>6. x # y
  BY <1>3, <1>5
<1>7. it[t \ {y}] = w[x] + it[(t \ {y}) \ {x}]
  <2>1. t \ {y} \in SUBSET S /\ t \ {y} # t /\ x \in t \ {y}
    BY <1>5, <1>6
  <2> QED BY <1>2, <2>1
<1>8. it[t \ {x}] = w[y] + it[(t \ {x}) \ {y}]
  <2>1. t \ {x} \in SUBSET S /\ t \ {x} # t /\ y \in t \ {x}
    BY <1>5, <1>6
  <2> QED BY <1>2, <2>1
<1>9. PICK r : r = it[(t \ {x}) \ {y}]
  OBVIOUS
<1>10. (t \ {x}) \ {y} = (t \ {y}) \ {x}
  OBVIOUS
<1>11. r \in Nat /\ w[x] \in Nat /\ w[y] \in Nat
  BY <1>5, <1>9, AddsNat
<1>12. it[t] = w[y] + (w[x] + r) /\ it[t \ {x}] = w[y] + r
  BY <1>5, <1>7, <1>8, <1>9, <1>10, Zenon
<1>13. w[y] + (w[x] + r) = w[x] + (w[y] + r)
  BY <1>11
<1> QED BY <1>3, <1>12, <1>13, Zenon

\* The sums depend on nothing but the weights in the set.
LEMMA AddsAgree ==
  ASSUME NEW w, NEW v, NEW S, NEW T, IsFiniteSet(S), T \subseteq S,
         NEW it, NEW jt, Adds(it, w, S), Adds(jt, v, T), Alike(w, v, T)
  PROVE  \A t \in SUBSET T : it[t] = jt[t]
<1> DEFINE B == {t \in SUBSET T : it[t] # jt[t]}
<1>1. SUFFICES ASSUME B # {} PROVE FALSE
  OBVIOUS
<1>2. PICK t \in B : \A u \in B : u \subseteq t => u = t
  <2>1. B \in SUBSET (SUBSET S)
    OBVIOUS
  <2> HIDE DEF B
  <2> QED BY <1>1, <2>1, SmallestSubset
<1>3. /\ it[t] = IF t = {} THEN 0 ELSE w[Some(t)] + it[t \ {Some(t)}]
      /\ jt[t] = IF t = {} THEN 0 ELSE v[Some(t)] + jt[t \ {Some(t)}]
  BY AddsStep
<1>4. t # {}
  BY <1>3
<1>5. PICK y : y = Some(t)
  OBVIOUS
<1>6. y \in t
  BY <1>4, <1>5, SomeIsIn
<1>7. it[t \ {y}] = jt[t \ {y}]
  BY <1>2, <1>6
<1>8. w[y] = v[y]
  BY <1>6 DEF Alike
<1>9. it[t] = jt[t]
  BY <1>3, <1>4, <1>5, <1>7, <1>8, Zenon
<1> QED BY <1>9

-----------------------------------------------------------------------------
(* The laws of Total                                                       *)

LEMMA TotalAdds ==
  ASSUME NEW w, NEW S, IsFiniteSet(S)
  PROVE  \E it : Adds(it, w, S) /\ Total(w, S) = it[S]
<1>1. \E it : Adds(it, w, S)
  BY AddsExists
<1> DEFINE it == CHOOSE it : Adds(it, w, S)
<1>2. Adds(it, w, S)
  BY <1>1, Zenon
<1> QED BY <1>2 DEF Total

LEMMA TotalNone == \A w : Total(w, {}) = 0
<1> TAKE w
<1>1. IsFiniteSet({})
  BY FS_EmptySet
<1>2. PICK it : Adds(it, w, {}) /\ Total(w, {}) = it[{}]
  BY <1>1, TotalAdds
<1> QED BY <1>2, AddsStep

LEMMA TotalNat ==
  ASSUME NEW w, NEW S, IsFiniteSet(S), \A x \in S : w[x] \in Nat
  PROVE  Total(w, S) \in Nat
BY TotalAdds, AddsNat

LEMMA TotalSame ==
  ASSUME NEW w, NEW v, NEW S, IsFiniteSet(S), \A x \in S : w[x] = v[x]
  PROVE  Total(w, S) = Total(v, S)
<1>1. PICK it : Adds(it, w, S) /\ Total(w, S) = it[S]
  BY TotalAdds
<1>2. PICK jt : Adds(jt, v, S) /\ Total(v, S) = jt[S]
  BY TotalAdds
<1>3. \A t \in SUBSET S : it[t] = jt[t]
  <2>1. S \subseteq S /\ Alike(w, v, S)
    BY DEF Alike
  <2> QED BY <1>1, <1>2, <2>1, AddsAgree
<1> QED BY <1>1, <1>2, <1>3

LEMMA TotalOneMore ==
  ASSUME NEW w, NEW S, IsFiniteSet(S), NEW x \in S, \A y \in S : w[y] \in Nat
  PROVE  Total(w, S) = w[x] + Total(w, S \ {x})
<1>1. PICK it : Adds(it, w, S) /\ Total(w, S) = it[S]
  BY TotalAdds
<1>2. S \ {x} \subseteq S /\ IsFiniteSet(S \ {x})
  BY FS_Subset
<1>3. PICK jt : Adds(jt, w, S \ {x}) /\ Total(w, S \ {x}) = jt[S \ {x}]
  BY <1>2, TotalAdds
<1>4. it[S \ {x}] = jt[S \ {x}]
  <2>1. PICK T : T = S \ {x}
    OBVIOUS
  <2>2. T \subseteq S /\ Adds(jt, w, T) /\ Alike(w, w, T)
    BY <1>3, <2>1 DEF Alike
  <2>3. \A t \in SUBSET T : it[t] = jt[t]
    BY <1>1, <2>2, AddsAgree
  <2> QED BY <2>1, <2>3
<1>5. it[S] = w[x] + it[S \ {x}]
  BY <1>1, AddsAny
<1> QED BY <1>1, <1>3, <1>4, <1>5, Zenon

\* Larger weights, larger sum; a part of a sum is no larger.
LEMMA TotalMonotone ==
  ASSUME NEW w, NEW v, NEW S, IsFiniteSet(S),
         \A x \in S : v[x] \in Nat /\ w[x] \in Nat /\ v[x] <= w[x]
  PROVE  Total(v, S) <= Total(w, S)
<1> DEFINE B == {t \in SUBSET S : ~(Total(v, t) <= Total(w, t))}
<1>1. SUFFICES ASSUME B # {} PROVE FALSE
  OBVIOUS
<1>2. PICK t \in B : \A u \in B : u \subseteq t => u = t
  <2>1. B \in SUBSET (SUBSET S)
    OBVIOUS
  <2> HIDE DEF B
  <2> QED BY <1>1, <2>1, SmallestSubset
<1>3. t # {}
  BY TotalNone
<1>4. PICK x \in t : TRUE
  BY <1>3
<1>5. IsFiniteSet(t) /\ IsFiniteSet(t \ {x}) /\ t \ {x} \in SUBSET S /\ t \ {x} # t
  BY FS_Subset
<1>6. /\ Total(w, t) = w[x] + Total(w, t \ {x})
      /\ Total(v, t) = v[x] + Total(v, t \ {x})
  BY <1>5, TotalOneMore
<1>7. Total(v, t \ {x}) <= Total(w, t \ {x})
  BY <1>2, <1>5
<1>8. /\ Total(v, t \ {x}) \in Nat /\ Total(w, t \ {x}) \in Nat
      /\ v[x] \in Nat /\ w[x] \in Nat /\ v[x] <= w[x]
  BY <1>5, TotalNat
<1>9. Total(v, t) <= Total(w, t)
  BY <1>6, <1>7, <1>8
<1> QED BY <1>9

LEMMA TotalOfPart ==
  ASSUME NEW w, NEW S, IsFiniteSet(S), \A x \in S : w[x] \in Nat, NEW T \in SUBSET S
  PROVE  Total(w, T) <= Total(w, S)
<1> DEFINE B == {t \in SUBSET S : T \subseteq t /\ ~(Total(w, T) <= Total(w, t))}
<1>1. SUFFICES ASSUME B # {} PROVE FALSE
  OBVIOUS
<1>2. PICK t \in B : \A u \in B : u \subseteq t => u = t
  <2>1. B \in SUBSET (SUBSET S)
    OBVIOUS
  <2> HIDE DEF B
  <2> QED BY <1>1, <2>1, SmallestSubset
<1>3. IsFiniteSet(t) /\ Total(w, t) \in Nat
  BY FS_Subset, TotalNat
<1>4. t # T
  BY <1>3
<1>5. PICK x \in t : x \notin T
  BY <1>4
<1>6. IsFiniteSet(t \ {x}) /\ t \ {x} \in SUBSET S /\ t \ {x} # t /\ T \subseteq t \ {x}
  BY <1>5, FS_Subset
<1>7. Total(w, t) = w[x] + Total(w, t \ {x})
  BY <1>3, TotalOneMore
<1>8. Total(w, T) <= Total(w, t \ {x})
  BY <1>2, <1>6
<1>9. /\ Total(w, t \ {x}) \in Nat /\ w[x] \in Nat /\ Total(w, T) \in Nat
  BY <1>6, TotalNat, FS_Subset
<1>10. Total(w, T) <= Total(w, t)
  BY <1>7, <1>8, <1>9
<1> QED BY <1>10

\* All or nothing: the sum counts.
LEMMA TotalCounts ==
  ASSUME NEW w, NEW S, IsFiniteSet(S), NEW unit \in Nat \ {0}, \A x \in S : w[x] \in {0, unit}
  PROVE  Total(w, S) = unit * Cardinality({x \in S : w[x] > 0})
<1> DEFINE Good(t) == {x \in t : w[x] > 0}
<1> DEFINE B == {t \in SUBSET S : Total(w, t) # unit * Cardinality(Good(t))}
<1>1. SUFFICES ASSUME B # {} PROVE FALSE
  OBVIOUS
<1>2. PICK t \in B : \A u \in B : u \subseteq t => u = t
  <2>1. B \in SUBSET (SUBSET S)
    OBVIOUS
  <2> HIDE DEF B
  <2> QED BY <1>1, <2>1, SmallestSubset
<1>3. t # {}
  <2>1. Good({}) = {}
    OBVIOUS
  <2>2. Cardinality({}) = 0 /\ unit * 0 = 0
    BY FS_EmptySet
  <2>3. Total(w, {}) = unit * Cardinality(Good({}))
    BY <2>1, <2>2, TotalNone, Zenon
  <2> QED BY <2>3
<1>4. PICK x \in t : TRUE
  BY <1>3
<1>5. IsFiniteSet(t) /\ IsFiniteSet(t \ {x}) /\ t \ {x} \in SUBSET S /\ t \ {x} # t
  BY FS_Subset
<1>6. IsFiniteSet(Good(t)) /\ IsFiniteSet(Good(t \ {x}))
  BY <1>5, FS_Subset
<1>7. Total(w, t) = w[x] + Total(w, t \ {x})
  BY <1>5, TotalOneMore
<1>8. Total(w, t \ {x}) = unit * Cardinality(Good(t \ {x}))
  BY <1>2, <1>5
<1>9. CASE w[x] = 0
  <2>1. Good(t) = Good(t \ {x})
    BY <1>9
  <2>2. Total(w, t) = Total(w, t \ {x})
    BY <1>5, <1>7, <1>9, TotalNat
  <2>3. Total(w, t) = unit * Cardinality(Good(t))
    BY <1>8, <2>1, <2>2
  <2> QED BY <2>3
<1>10. CASE w[x] = unit
  <2>1. Good(t) = Good(t \ {x}) \cup {x} /\ x \notin Good(t \ {x})
    BY <1>10
  <2>2. Cardinality(Good(t)) = Cardinality(Good(t \ {x})) + 1
    BY <1>6, <2>1, FS_AddElement
  <2>3. PICK k \in Nat : k = Cardinality(Good(t \ {x}))
    BY <1>6, FS_CardinalityType
  <2>4. unit * (k + 1) = unit + unit * k
    OBVIOUS
  <2>5. Total(w, t) = unit * Cardinality(Good(t))
    BY <1>7, <1>8, <1>10, <2>2, <2>3, <2>4
  <2> QED BY <2>5
<1> QED BY <1>9, <1>10
=============================================================================
