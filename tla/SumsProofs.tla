----------------------------- MODULE SumsProofs -----------------------------
(* Facts about Total, for any finite set and any function to the naturals. *)
EXTENDS Sums, FiniteSetTheorems, TLAPS

\* The units of one holder.
Units(f, x) == {x} \X (1 .. f[x])

LEMMA UnitsCardinality ==
  ASSUME NEW f, NEW x, f[x] \in Nat
  PROVE  /\ IsFiniteSet(Units(f, x))
         /\ Cardinality(Units(f, x)) = f[x]
<1>1. IsFiniteSet({x}) /\ Cardinality({x}) = 1
  BY FS_Singleton
<1>2. IsFiniteSet(1 .. f[x]) /\ Cardinality(1 .. f[x]) = f[x]
  BY FS_Interval
<1>3. /\ IsFiniteSet({x} \X (1 .. f[x]))
      /\ Cardinality({x} \X (1 .. f[x])) = Cardinality({x}) * Cardinality(1 .. f[x])
  BY <1>1, <1>2, FS_Product
<1> QED
  BY <1>1, <1>2, <1>3 DEF Units

\* The sum over a finite set is a natural number, and its units are finite.
LEMMA TotalType ==
  ASSUME NEW S, IsFiniteSet(S), NEW f, \A x \in S : f[x] \in Nat
  PROVE  /\ IsFiniteSet(UNION {{x} \X (1 .. f[x]) : x \in S})
         /\ Total(f, S) \in Nat
<1> DEFINE I == {{x} \X (1 .. f[x]) : x \in S}
           g == [x \in S |-> {x} \X (1 .. f[x])]
<1>1. g \in Surjection(S, I)
  BY DEF Surjection
<1>2. IsFiniteSet(I)
  BY <1>1, FS_Surjection
<1>3. \A T \in I : IsFiniteSet(T)
  BY UnitsCardinality DEF Units
<1>4. IsFiniteSet(UNION I)
  BY <1>2, <1>3, FS_UNION
<1> QED
  BY <1>4, FS_CardinalityType DEF Total

LEMMA TotalEmpty ==
  ASSUME NEW f
  PROVE  Total(f, {}) = 0
BY FS_EmptySet DEF Total

LEMMA TotalZero ==
  ASSUME NEW S, NEW f, \A y \in S : f[y] = 0
  PROVE  Total(f, S) = 0
<1>1. \A y \in S : {y} \X (1 .. f[y]) = {}
  OBVIOUS
<1>2. UNION {{y} \X (1 .. f[y]) : y \in S} = {}
  BY <1>1
<1> QED
  BY <1>2, FS_EmptySet DEF Total

\* One more holder adds what it holds.
LEMMA TotalAdd ==
  ASSUME NEW S, IsFiniteSet(S), NEW f, \A y \in S : f[y] \in Nat,
         NEW x, x \notin S, f[x] \in Nat
  PROVE  Total(f, S \cup {x}) = Total(f, S) + f[x]
<1> DEFINE U == UNION {{y} \X (1 .. f[y]) : y \in S}
           V == UNION {{y} \X (1 .. f[y]) : y \in S \cup {x}}
<1>1. V = U \cup Units(f, x)
  BY DEF Units
<1>2. U \cap Units(f, x) = {}
  BY DEF Units
<1>3. IsFiniteSet(U) /\ Cardinality(U) \in Nat
  BY TotalType, FS_CardinalityType
<1>4. IsFiniteSet(Units(f, x)) /\ Cardinality(Units(f, x)) = f[x]
  BY UnitsCardinality
<1>5. Cardinality(V) = Cardinality(U) + f[x] - Cardinality({})
  BY <1>1, <1>2, <1>3, <1>4, FS_Union
<1> QED
  BY <1>3, <1>5, FS_EmptySet DEF Total

\* Fewer holders hold no more.
LEMMA TotalMonotone ==
  ASSUME NEW S, IsFiniteSet(S), NEW f, \A y \in S : f[y] \in Nat,
         NEW T \in SUBSET S
  PROVE  Total(f, T) <= Total(f, S)
<1> DEFINE U == UNION {{y} \X (1 .. f[y]) : y \in S}
           V == UNION {{y} \X (1 .. f[y]) : y \in T}
<1>1. IsFiniteSet(U)
  BY TotalType
<1>2. V \in SUBSET U
  OBVIOUS
<1>3. Cardinality(V) <= Cardinality(U)
  BY <1>1, <1>2, FS_Subset
<1> QED
  BY <1>3 DEF Total

\* Only the values on the set count.
LEMMA TotalEqual ==
  ASSUME NEW S, NEW f, NEW g, \A y \in S : f[y] = g[y]
  PROVE  Total(f, S) = Total(g, S)
<1>1. \A y \in S : {y} \X (1 .. f[y]) = {y} \X (1 .. g[y])
  OBVIOUS
<1>2. {{y} \X (1 .. f[y]) : y \in S} = {{y} \X (1 .. g[y]) : y \in S}
  BY <1>1
<1> QED
  BY <1>2 DEF Total

\* Changing the value at one member changes the sum by as much.
LEMMA TotalChange ==
  ASSUME NEW S, IsFiniteSet(S), NEW f \in [S -> Nat], NEW g \in [S -> Nat],
         NEW x \in S, \A y \in S : y # x => g[y] = f[y]
  PROVE  Total(g, S) = Total(f, S) - f[x] + g[x]
<1> DEFINE T == S \ {x}
<1>1. IsFiniteSet(T) /\ x \notin T /\ S = T \cup {x}
  BY FS_RemoveElement
<1>2. Total(f, S) = Total(f, T) + f[x]
  BY <1>1, TotalAdd
<1>3. Total(g, S) = Total(g, T) + g[x]
  BY <1>1, TotalAdd
<1>4. Total(f, T) = Total(g, T)
  BY TotalEqual
<1>5. Total(f, T) \in Nat
  BY <1>1, TotalType
<1> QED
  BY <1>2, <1>3, <1>4, <1>5

LEMMA TotalExcept ==
  ASSUME NEW S, IsFiniteSet(S), NEW f \in [S -> Nat], NEW x \in S, NEW n \in Nat
  PROVE  Total([f EXCEPT ![x] = n], S) = Total(f, S) - f[x] + n
<1> DEFINE g == [f EXCEPT ![x] = n]
<1>1. g \in [S -> Nat] /\ g[x] = n /\ \A y \in S : y # x => g[y] = f[y]
  OBVIOUS
<1> HIDE DEF g
<1>2. Total(g, S) = Total(f, S) - f[x] + n
  BY <1>1, TotalChange
<1> QED
  BY <1>2 DEF g
=============================================================================
