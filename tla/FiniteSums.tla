----------------------------- MODULE FiniteSums -----------------------------
(***************************************************************************)
(* The laws of a sum over a finite set, for the proofs about modules that  *)
(* add up holdings and pledges with MapThenSumSet: only what is summed up  *)
(* counts, one element may be taken out at a time, zeros may be left out,  *)
(* and a sum of numbers is a number.  Each is proved by taking a smallest  *)
(* set that breaks it.                                                     *)
(***************************************************************************)
EXTENDS Integers, FiniteSetsExt, FiniteSetTheorems, WellFoundedInduction, TLAPS

\* T is in the collection, and no other set of the collection is contained in it.
Smallest(T, Bad) == T \in Bad /\ \A U \in Bad : U \subseteq T => U = T

\* Of a collection of subsets of a finite set, one is smallest.
LEMMA SmallestSet ==
    ASSUME NEW S, IsFiniteSet(S), NEW Bad \in SUBSET SUBSET S, Bad # {}
    PROVE  \E T : Smallest(T, Bad)
<1> DEFINE R == StrictSubsetOrdering(S)
<1>1. IsWellFoundedOn(R, SUBSET S)
  BY FS_StrictSubsetOrderingWellFounded, FS_FiniteSubsetsOfFinite
<1>2. PICK T \in Bad : \A U \in Bad : ~(<<U, T>> \in R)
  BY <1>1, WFMin
<1>3. ASSUME NEW U \in Bad, U \subseteq T, U # T PROVE <<U, T>> \in R
  BY <1>3 DEF StrictSubsetOrdering
<1> HIDE DEF R
<1>4. ASSUME NEW U \in Bad, U \subseteq T PROVE U = T
  BY <1>2, <1>3, <1>4
<1>5. Smallest(T, Bad)
  BY <1>4 DEF Smallest
<1>6. QED
  BY <1>5

Pick(s) == CHOOSE x \in s : TRUE
LEMMA PickIsIn == ASSUME NEW s, s # {} PROVE Pick(s) \in s
BY DEF Pick

\* What the fold of a sum goes through, as far as the sets in D.
Adds(f, D, F) == F = [s \in D |-> IF s = {} THEN 0 ELSE f[Pick(s)] + F[s \ {Pick(s)}]]
Sums(f, S, F) == Adds(f, SUBSET S, F)
Total(f, S) == (CHOOSE F : Sums(f, S, F))[S]
Alike(f, g, S) == \A x \in S : f[x] = g[x]

\* There is such a function: for the sets of at most n elements, and so for all.
LEMMA AddsExists ==
    ASSUME NEW f, NEW S, IsFiniteSet(S) PROVE \E F : Sums(f, S, F)
<1> DEFINE Upto(T) == {s \in SUBSET S : Cardinality(s) < Cardinality(T)}
           Bad == {T \in SUBSET S : \A F : ~Adds(f, Upto(T), F)}
<1>1. \A s \in SUBSET S : /\ IsFiniteSet(s) /\ Cardinality(s) \in Nat
                          /\ s = {} <=> Cardinality(s) = 0
                          /\ \A x \in s : Cardinality(s \ {x}) = Cardinality(s) - 1
  BY FS_Subset, FS_CardinalityType, FS_EmptySet, FS_RemoveElement
<1>2. Bad = {}
  <2>1. SUFFICES ASSUME Bad # {} PROVE FALSE
    OBVIOUS
  <2>2. PICK T : Smallest(T, Bad)
    <3>1. Bad \in SUBSET SUBSET S
      OBVIOUS
    <3> HIDE DEF Bad
    <3>2. QED
      BY <2>1, <3>1, SmallestSet
  <2>0. T \in Bad /\ T \in SUBSET S /\ \A U \in Bad : U \subseteq T => U = T
    BY <2>2 DEF Smallest
  <2>3. T # {}
    <3>1. SUFFICES ASSUME T = {} PROVE FALSE
      OBVIOUS
    <3>2. Upto(T) = {}
      BY <1>1, <3>1
    <3>3. Adds(f, Upto(T), [s \in {} |-> 0])
      BY <3>2 DEF Adds
    <3>4. QED
      BY <2>0, <3>3
  <2>4. Pick(T) \in T /\ T \ {Pick(T)} \in SUBSET S /\ T \ {Pick(T)} \notin Bad
    BY <2>0, <2>3, PickIsIn
  <2>5. PICK F : Adds(f, Upto(T \ {Pick(T)}), F)
    BY <2>4
  <2> DEFINE D == Upto(T \ {Pick(T)})
             E == Upto(T)
  <2>6. D \subseteq E /\ \A s \in E : s # {} => s \ {Pick(s)} \in D
    <3>1. Cardinality(T \ {Pick(T)}) = Cardinality(T) - 1 /\ Cardinality(T) \in Nat
      BY <1>1, <2>0, <2>4
    <3>2. ASSUME NEW s \in E, s # {} PROVE s \ {Pick(s)} \in D
      <4>1. Pick(s) \in s
        BY <3>2, PickIsIn
      <4>2. Cardinality(s \ {Pick(s)}) = Cardinality(s) - 1 /\ Cardinality(s) \in Nat
        BY <1>1, <4>1
      <4>3. QED
        BY <3>1, <4>2
    <3>3. D \subseteq E
      BY <1>1, <3>1
    <3>4. QED
      BY <3>2, <3>3
  <2> HIDE DEF D, E, Bad
  <2>7. F = [s \in D |-> IF s = {} THEN 0 ELSE f[Pick(s)] + F[s \ {Pick(s)}]]
    BY <2>5 DEF Adds, D
  <2> DEFINE G == [s \in E |-> IF s = {} THEN 0 ELSE f[Pick(s)] + F[s \ {Pick(s)}]]
  <2>8. \A s \in D : G[s] = F[s]
    <3>1. TAKE s \in D
    <3>2. F[s] = IF s = {} THEN 0 ELSE f[Pick(s)] + F[s \ {Pick(s)}]
      BY <2>7, Zenon
    <3>3. QED
      BY <2>6, <3>2
  <2>9. G = [s \in E |-> IF s = {} THEN 0 ELSE f[Pick(s)] + G[s \ {Pick(s)}]]
    <3>1. \A s \in E : s # {} => G[s \ {Pick(s)}] = F[s \ {Pick(s)}]
      BY <2>6, <2>8
    <3> HIDE DEF G
    <3>2. G = [s \in E |-> IF s = {} THEN 0 ELSE f[Pick(s)] + F[s \ {Pick(s)}]]
      BY DEF G
    <3>3. QED
      BY <3>1, <3>2
  <2>10. Adds(f, Upto(T), G)
    BY <2>9, Zenon DEF Adds, E
  <2>11. QED
    BY <2>0, <2>10 DEF Bad
<1>3. \E F : Adds(f, Upto(S), F)
  BY <1>2
<1>4. PICK F : Adds(f, Upto(S), F)
  BY <1>3
<1> DEFINE D == Upto(S)
<1>5. \A s \in SUBSET S : s # {} => s \ {Pick(s)} \in D
  <2>1. TAKE s \in SUBSET S
  <2>0. HAVE s # {}
  <2>3. Pick(s) \in s
    BY <2>0, PickIsIn
  <2>4. Cardinality(s \ {Pick(s)}) = Cardinality(s) - 1 /\ Cardinality(s) \in Nat
    BY <1>1, <2>3
  <2>5. Cardinality(s) <= Cardinality(S) /\ Cardinality(S) \in Nat
    BY FS_Subset, FS_CardinalityType
  <2>6. QED
    BY <2>4, <2>5
<1> HIDE DEF D
<1>6. F = [s \in D |-> IF s = {} THEN 0 ELSE f[Pick(s)] + F[s \ {Pick(s)}]]
  BY <1>4 DEF Adds, D
<1> DEFINE G == [s \in SUBSET S |-> IF s = {} THEN 0 ELSE f[Pick(s)] + F[s \ {Pick(s)}]]
<1>7. \A s \in D : G[s] = F[s]
  <2>1. TAKE s \in D
  <2>0. F[s] = IF s = {} THEN 0 ELSE f[Pick(s)] + F[s \ {Pick(s)}]
    BY <1>6, Zenon
  <2>3. s \in SUBSET S
    BY DEF D
  <2>4. QED
    BY <2>0, <2>3
<1>8. \A s \in SUBSET S : s # {} => G[s \ {Pick(s)}] = F[s \ {Pick(s)}]
  BY <1>5, <1>7
<1>9. G = [s \in SUBSET S |-> IF s = {} THEN 0 ELSE f[Pick(s)] + F[s \ {Pick(s)}]]
  BY Zenon
<1> HIDE DEF G
<1>10. G = [s \in SUBSET S |-> IF s = {} THEN 0 ELSE f[Pick(s)] + G[s \ {Pick(s)}]]
  BY <1>8, <1>9
<1>11. QED
  BY <1>10, Zenon DEF Sums, Adds

\* And it is the only one, on what two of them have in common.
LEMMA AddsAgree ==
    ASSUME NEW f, NEW g, NEW S, IsFiniteSet(S), NEW T, T \subseteq S, NEW F, NEW G,
           Sums(f, S, F), Sums(g, T, G), Alike(f, g, T)
    PROVE  F[T] = G[T]
<1> DEFINE Bad == {U \in SUBSET T : F[U] # G[U]}
<1>1. SUFFICES ASSUME Bad # {} PROVE FALSE
  OBVIOUS
<1>2. IsFiniteSet(T)
  BY FS_Subset
<1>3. PICK U : Smallest(U, Bad)
  <2>1. Bad \in SUBSET SUBSET T
    OBVIOUS
  <2> HIDE DEF Bad
  <2>2. QED
    BY <1>1, <1>2, <2>1, SmallestSet
<1>0. U \in Bad /\ \A V \in Bad : V \subseteq U => V = U
  BY <1>3 DEF Smallest
<1> HIDE DEF Bad
<1>11. U \in SUBSET S /\ U \in SUBSET T /\ F[U] # G[U]
  BY <1>0 DEF Bad
<1>4. /\ F[U] = IF U = {} THEN 0 ELSE f[Pick(U)] + F[U \ {Pick(U)}]
      /\ G[U] = IF U = {} THEN 0 ELSE g[Pick(U)] + G[U \ {Pick(U)}]
  <2>1. U \in SUBSET S /\ U \in SUBSET T
    BY <1>11
  <2>2. F = [s \in SUBSET S |-> IF s = {} THEN 0 ELSE f[Pick(s)] + F[s \ {Pick(s)}]]
    BY DEF Sums, Adds
  <2>3. G = [s \in SUBSET T |-> IF s = {} THEN 0 ELSE g[Pick(s)] + G[s \ {Pick(s)}]]
    BY DEF Sums, Adds
  <2>4. F[U] = IF U = {} THEN 0 ELSE f[Pick(U)] + F[U \ {Pick(U)}]
    BY <2>1, <2>2, Zenon
  <2>5. G[U] = IF U = {} THEN 0 ELSE g[Pick(U)] + G[U \ {Pick(U)}]
    BY <2>1, <2>3, Zenon
  <2>6. QED
    BY <2>4, <2>5
<1>5. U # {}
  BY <1>11, <1>4
<1>6. Pick(U) \in U
  BY <1>5, PickIsIn
<1>7. U \ {Pick(U)} \in SUBSET T /\ U \ {Pick(U)} \subseteq U /\ U \ {Pick(U)} # U
  BY <1>6, <1>11
<1>8. F[U \ {Pick(U)}] = G[U \ {Pick(U)}]
  BY <1>0, <1>7 DEF Bad
<1>9. f[Pick(U)] = g[Pick(U)]
  BY <1>6, <1>11 DEF Alike
<1>10. QED
  BY <1>11, <1>4, <1>5, <1>8, <1>9

\* Only what is summed up counts.
LEMMA SameTotal ==
    ASSUME NEW f, NEW g, NEW S, IsFiniteSet(S), Alike(f, g, S)
    PROVE  Total(f, S) = Total(g, S)
<1>1. Sums(f, S, CHOOSE F : Sums(f, S, F))
  BY AddsExists
<1>2. Sums(g, S, CHOOSE F : Sums(g, S, F))
  BY AddsExists
<1>3. QED
  BY <1>1, <1>2, AddsAgree DEF Total

LEMMA PartOfFold ==
    ASSUME NEW f, NEW S, IsFiniteSet(S), NEW T \in SUBSET S, NEW F, Sums(f, S, F)
    PROVE  F[T] = Total(f, T)
<1> DEFINE G == CHOOSE G : Sums(f, T, G)
<1>1. IsFiniteSet(T)
  BY FS_Subset
<1>2. Sums(f, T, G)
  BY <1>1, AddsExists
<1> HIDE DEF G
<1>3. Alike(f, f, T)
  BY DEF Alike
<1>4. T \subseteq S
  OBVIOUS
<1>5. F[T] = G[T]
  BY <1>2, <1>3, <1>4, AddsAgree
<1>6. QED
  BY <1>5 DEF G, Total

\* One element at a time, the one that is picked first.
LEMMA PickedTotal ==
    ASSUME NEW f, NEW S, IsFiniteSet(S)
    PROVE  Total(f, S) = IF S = {} THEN 0 ELSE f[Pick(S)] + Total(f, S \ {Pick(S)})
<1>1. PICK F : Sums(f, S, F)
  BY AddsExists
<1>2. F[S] = Total(f, S) /\ F[S \ {Pick(S)}] = Total(f, S \ {Pick(S)})
  BY <1>1, PartOfFold
<1>3. F[S] = IF S = {} THEN 0 ELSE f[Pick(S)] + F[S \ {Pick(S)}]
  <2>1. F = [s \in SUBSET S |-> IF s = {} THEN 0 ELSE f[Pick(s)] + F[s \ {Pick(s)}]]
    BY <1>1 DEF Sums, Adds
  <2>2. S \in SUBSET S
    OBVIOUS
  <2>3. QED
    BY <2>1, <2>2, Zenon
<1>4. QED
  BY <1>2, <1>3

\* A sum of numbers is a number.
LEMMA TotalType ==
    ASSUME NEW f, NEW S, IsFiniteSet(S), NEW N \in {Nat, Int}, \A x \in S : f[x] \in N
    PROVE  Total(f, S) \in N
<1> DEFINE Bad == {U \in SUBSET S : Total(f, U) \notin N}
<1>1. SUFFICES ASSUME Bad # {} PROVE FALSE
  OBVIOUS
<1>2. Bad \in SUBSET SUBSET S
  OBVIOUS
<1> HIDE DEF Bad
<1>3. PICK U : Smallest(U, Bad)
  BY <1>1, <1>2, SmallestSet
<1>4. U \in Bad /\ U \in SUBSET S /\ \A V \in Bad : V \subseteq U => V = U
  BY <1>2, <1>3 DEF Smallest
<1>5. Total(f, U) \notin N /\ IsFiniteSet(U)
  BY <1>4, FS_Subset DEF Bad
<1>6. Total(f, U) = IF U = {} THEN 0 ELSE f[Pick(U)] + Total(f, U \ {Pick(U)})
  BY <1>5, PickedTotal
<1>7. U # {} /\ Pick(U) \in U
  BY <1>5, <1>6, PickIsIn
<1>8. U \ {Pick(U)} \in SUBSET S /\ U \ {Pick(U)} \notin Bad
  BY <1>4, <1>7
<1>9. Total(f, U \ {Pick(U)}) \in N /\ f[Pick(U)] \in N
  BY <1>4, <1>7, <1>8 DEF Bad
<1>10. QED
  BY <1>5, <1>6, <1>7, <1>9

\* The order does not matter: any element may be taken first.
LEMMA SplitTotal ==
    ASSUME NEW f, NEW S, IsFiniteSet(S), \A x \in S : f[x] \in Int, NEW x \in S
    PROVE  Total(f, S) = f[x] + Total(f, S \ {x})
<1> DEFINE Splits(U) == \A y \in U : Total(f, U) = f[y] + Total(f, U \ {y})
           Bad == {U \in SUBSET S : ~Splits(U)}
<1>1. SUFFICES ASSUME Bad # {} PROVE FALSE
  OBVIOUS
<1>2. Bad \in SUBSET SUBSET S
  OBVIOUS
<1>3. ASSUME NEW U \in SUBSET S PROVE IsFiniteSet(U) /\ Total(f, U) \in Int
  BY FS_Subset, TotalType
<1> HIDE DEF Bad
<1>4. PICK U : Smallest(U, Bad)
  BY <1>1, <1>2, SmallestSet
<1>5. U \in Bad /\ U \in SUBSET S /\ \A V \in Bad : V \subseteq U => V = U
  BY <1>2, <1>4 DEF Smallest
<1>6. PICK y \in U : Total(f, U) # f[y] + Total(f, U \ {y})
  BY <1>5 DEF Bad
<1> DEFINE z == Pick(U)
<1>7. z \in U /\ Total(f, U) = f[z] + Total(f, U \ {z})
  BY <1>3, <1>5, <1>6, PickIsIn, PickedTotal
<1> HIDE DEF z
<1>8. y # z
  BY <1>6, <1>7
<1> DEFINE V == U \ {y}
           W == U \ {z}
<1>9. V \in SUBSET S /\ V \notin Bad /\ z \in V /\ W \in SUBSET S /\ W \notin Bad /\ y \in W
  BY <1>5, <1>6, <1>7, <1>8
<1>10. Total(f, V) = f[z] + Total(f, V \ {z}) /\ Total(f, W) = f[y] + Total(f, W \ {y})
  BY <1>9 DEF Bad
<1>11. V \ {z} = W \ {y} /\ V \ {z} \in SUBSET S
  BY <1>9
<1>12. /\ f[y] \in Int /\ f[z] \in Int /\ Total(f, V \ {z}) \in Int
       /\ Total(f, V) \in Int /\ Total(f, W) \in Int
  BY <1>3, <1>5, <1>6, <1>7, <1>9, <1>11
<1> DEFINE t == Total(f, V \ {z})
<1>13. Total(f, V) = f[z] + t /\ Total(f, W) = f[y] + t /\ t \in Int
  BY <1>10, <1>11, <1>12
<1>14. Total(f, U) = f[z] + Total(f, W) /\ Total(f, U) # f[y] + Total(f, V)
  BY <1>6, <1>7
<1> HIDE DEF V, W, t
<1>15. QED
  BY <1>12, <1>13, <1>14

\* What is not there counts for nothing.
LEMMA WiderTotal ==
    ASSUME NEW f, NEW S, IsFiniteSet(S), NEW T \in SUBSET S,
           \A x \in S : f[x] \in Int, \A x \in S \ T : f[x] = 0
    PROVE  Total(f, S) = Total(f, T)
<1> DEFINE Bad == {U \in SUBSET S : T \subseteq U /\ Total(f, U) # Total(f, T)}
<1>1. SUFFICES ASSUME Bad # {} PROVE FALSE
  OBVIOUS
<1>2. Bad \in SUBSET SUBSET S
  OBVIOUS
<1> HIDE DEF Bad
<1>3. PICK U : Smallest(U, Bad)
  BY <1>1, <1>2, SmallestSet
<1>4. U \in Bad /\ U \in SUBSET S /\ \A V \in Bad : V \subseteq U => V = U
  BY <1>2, <1>3 DEF Smallest
<1>5. T \subseteq U /\ Total(f, U) # Total(f, T) /\ IsFiniteSet(U)
  BY <1>4, FS_Subset DEF Bad
<1>6. PICK x \in U : x \notin T
  BY <1>5
<1>7. Total(f, U) = f[x] + Total(f, U \ {x}) /\ f[x] = 0 /\ Total(f, U \ {x}) \in Int
  <2>1. IsFiniteSet(U \ {x})
    BY <1>5, FS_RemoveElement
  <2>2. Total(f, U \ {x}) \in Int
    BY <1>4, <2>1, TotalType
  <2>3. Total(f, U) = f[x] + Total(f, U \ {x})
    BY <1>4, <1>5, <1>6, SplitTotal
  <2>4. QED
    BY <1>4, <1>6, <2>2, <2>3
<1>8. U \ {x} \in Bad
  BY <1>4, <1>5, <1>6, <1>7 DEF Bad
<1>9. QED
  BY <1>4, <1>6, <1>8

\* A sum of natural numbers that is nothing adds nothing.
LEMMA ZeroTotal ==
    ASSUME NEW f, NEW S, IsFiniteSet(S), \A x \in S : f[x] \in Nat, Total(f, S) = 0
    PROVE  \A x \in S : f[x] = 0
<1>1. TAKE x \in S
<1>2. IsFiniteSet(S \ {x})
  BY FS_RemoveElement
<1>3. Total(f, S \ {x}) \in Nat
  BY <1>2, TotalType
<1>4. Total(f, S) = f[x] + Total(f, S \ {x})
  BY SplitTotal
<1>5. QED
  BY <1>3, <1>4

\* One element more or less in a value is one more or less in the sum.
LEMMA ChangedTotal ==
    ASSUME NEW f, NEW g, NEW S, IsFiniteSet(S), NEW x \in S,
           \A y \in S : f[y] \in Int /\ g[y] \in Int, Alike(f, g, S \ {x})
    PROVE  Total(g, S) = Total(f, S) + g[x] - f[x]
<1>1. IsFiniteSet(S \ {x})
  BY FS_RemoveElement
<1>2. Total(f, S \ {x}) = Total(g, S \ {x}) /\ Total(f, S \ {x}) \in Int
  BY <1>1, SameTotal, TotalType
<1>3. Total(f, S) = f[x] + Total(f, S \ {x}) /\ Total(g, S) = g[x] + Total(g, S \ {x})
  BY SplitTotal
<1>4. f[x] \in Int /\ g[x] \in Int
  OBVIOUS
<1>5. QED
  BY <1>2, <1>3, <1>4

\* What holds of nothing, and of a set if it holds without some element, holds of all.
LEMMA TotalBySteps ==
    ASSUME NEW S, IsFiniteSet(S), NEW Good \in SUBSET SUBSET S, {} \in Good,
           \A U \in SUBSET S : \A x \in U : U \ {x} \in Good => U \in Good
    PROVE  S \in Good
<1> DEFINE Bad == (SUBSET S) \ Good
<1>1. SUFFICES ASSUME Bad # {} PROVE FALSE
  OBVIOUS
<1>2. Bad \in SUBSET SUBSET S
  OBVIOUS
<1>3. PICK U : Smallest(U, Bad)
  <2> HIDE DEF Bad
  <2>1. QED
    BY <1>1, <1>2, SmallestSet
<1>4. U \in Bad /\ \A V \in Bad : V \subseteq U => V = U
  BY <1>3 DEF Smallest
<1>9. U # {}
  BY <1>4
<1>5. PICK x \in U : TRUE
  BY <1>9
<1>6. U \ {x} \in SUBSET S /\ U \ {x} # U
  BY <1>4, <1>5
<1>7. U \ {x} \in Good
  BY <1>4, <1>6
<1>8. QED
  BY <1>4, <1>5, <1>7

\* Of finitely many numbers, one is the greatest.
LEMMA HasGreatest ==
    ASSUME NEW S, IsFiniteSet(S), S # {}, S \subseteq Nat
    PROVE  \E x \in S : \A y \in S : y <= x
<1> DEFINE Good == {U \in SUBSET S : U = {} \/ \E x \in U : \A y \in U : y <= x}
<1>1. {} \in Good
  OBVIOUS
<1>2. ASSUME NEW U \in SUBSET S, NEW x \in U, U \ {x} \in Good PROVE U \in Good
  <2>1. CASE U \ {x} = {}
    <3>1. \A y \in U : y = x
      BY <2>1
    <3>2. x \in Nat
      OBVIOUS
    <3>3. \A y \in U : y <= x
      BY <3>1, <3>2
    <3>4. QED
      BY <3>3
  <2>2. CASE U \ {x} # {}
    <3>1. PICK z \in U \ {x} : \A y \in U \ {x} : y <= z
      BY <1>2, <2>2
    <3>2. x \in Nat /\ z \in Nat /\ \A y \in U : y \in Nat
      BY <3>1
    <3>3. CASE x <= z
      BY <3>1, <3>2, <3>3
    <3>4. CASE z <= x
      BY <3>1, <3>2, <3>4
    <3>5. QED
      BY <3>2, <3>3, <3>4
  <2>3. QED
    BY <2>1, <2>2
<1> HIDE DEF Good
<1>3. S \in Good
  <2>1. Good \in SUBSET SUBSET S
    BY DEF Good
  <2>2. QED
    BY <1>1, <1>2, <2>1, TotalBySteps
<1>4. QED
  BY <1>3 DEF Good

\* A sum of sums is the sum of the two.
LEMMA AddedTotal ==
    ASSUME NEW f, NEW g, NEW h, NEW S, IsFiniteSet(S),
           \A x \in S : f[x] \in Int /\ g[x] \in Int /\ h[x] = f[x] + g[x]
    PROVE  Total(h, S) = Total(f, S) + Total(g, S)
<1> DEFINE Good == {U \in SUBSET S : Total(h, U) = Total(f, U) + Total(g, U)}
<1>1. {} \in Good
  <2>1. IsFiniteSet({})
    BY FS_EmptySet
  <2>2. Total(h, {}) = 0 /\ Total(f, {}) = 0 /\ Total(g, {}) = 0
    BY <2>1, PickedTotal
  <2>3. QED
    BY <2>2
<1>2. ASSUME NEW U \in SUBSET S, NEW x \in U, U \ {x} \in Good PROVE U \in Good
  <2>1. IsFiniteSet(U) /\ IsFiniteSet(U \ {x})
    BY FS_Subset, FS_RemoveElement
  <2>2. \A y \in U : f[y] \in Int /\ g[y] \in Int /\ h[y] \in Int
    OBVIOUS
  <2>3. /\ Total(h, U) = h[x] + Total(h, U \ {x}) /\ Total(f, U) = f[x] + Total(f, U \ {x})
        /\ Total(g, U) = g[x] + Total(g, U \ {x})
    BY <2>1, <2>2, SplitTotal
  <2>4. Total(f, U \ {x}) \in Int /\ Total(g, U \ {x}) \in Int
    BY <2>1, <2>2, TotalType
  <2>5. Total(h, U \ {x}) = Total(f, U \ {x}) + Total(g, U \ {x})
    BY <1>2
  <2>6. h[x] = f[x] + g[x] /\ f[x] \in Int /\ g[x] \in Int
    BY <1>2
  <2>7. QED
    BY <2>3, <2>4, <2>5, <2>6
<1> HIDE DEF Good
<1>3. S \in Good
  <2>1. Good \in SUBSET SUBSET S
    BY DEF Good
  <2>2. QED
    BY <1>1, <1>2, <2>1, TotalBySteps
<1>4. QED
  BY <1>3 DEF Good

\* The same number everywhere adds up to a product.
LEMMA ConstantTotal ==
    ASSUME NEW f, NEW S, IsFiniteSet(S), NEW n \in Int, \A x \in S : f[x] = n
    PROVE  Total(f, S) = n * Cardinality(S)
<1> DEFINE Good == {U \in SUBSET S : Total(f, U) = n * Cardinality(U)}
<1>1. {} \in Good
  <2>1. IsFiniteSet({}) /\ Cardinality({}) = 0
    BY FS_EmptySet
  <2>2. Total(f, {}) = 0
    BY <2>1, PickedTotal
  <2>3. QED
    BY <2>1, <2>2
<1>2. ASSUME NEW U \in SUBSET S, NEW x \in U, U \ {x} \in Good PROVE U \in Good
  <2>1. IsFiniteSet(U) /\ IsFiniteSet(U \ {x}) /\ Cardinality(U) \in Nat
    BY FS_Subset, FS_RemoveElement, FS_CardinalityType
  <2>2. Cardinality(U \ {x}) = Cardinality(U) - 1
    BY <2>1, FS_RemoveElement
  <2>3. Total(f, U) = f[x] + Total(f, U \ {x})
    BY <2>1, SplitTotal
  <2>4. Total(f, U \ {x}) = n * (Cardinality(U) - 1)
    BY <1>2, <2>2
  <2>5. f[x] = n
    OBVIOUS
  <2>6. n + n * (Cardinality(U) - 1) = n * Cardinality(U)
    BY <2>1
  <2>7. QED
    BY <2>3, <2>4, <2>5, <2>6
<1> HIDE DEF Good
<1>3. S \in Good
  <2>1. Good \in SUBSET SUBSET S
    BY DEF Good
  <2>2. QED
    BY <1>1, <1>2, <2>1, TotalBySteps
<1>4. QED
  BY <1>3 DEF Good

LEMMA ScaledStep ==
    ASSUME NEW W \in Nat, NEW n \in Nat, NEW s \in Int, NEW t \in Int, NEW a \in Int, NEW b \in Int,
           W * s <= n * t, W * a <= n * b
    PROVE  W * (a + s) <= n * (b + t)
<1>1. W * (a + s) = W * a + W * s
  OBVIOUS
<1>2. n * (b + t) = n * b + n * t
  OBVIOUS
<1>3. W * s \in Int /\ n * t \in Int /\ W * a \in Int /\ n * b \in Int
  OBVIOUS
<1>4. QED
  BY <1>1, <1>2, <1>3

\* Shares rounded down never add up to more than what is shared out.
LEMMA SharesTotal ==
    ASSUME NEW w, NEW S, IsFiniteSet(S), \A x \in S : w[x] \in Nat, Total(w, S) # 0, NEW n \in Nat,
           NEW f, \A x \in S : f[x] = (n * w[x]) \div Total(w, S)
    PROVE  Total(f, S) <= n /\ \A x \in S : f[x] \in Nat
<1> DEFINE W == Total(w, S)
<1>1. W \in Nat /\ W > 0
  BY TotalType
<1>2. ASSUME NEW x \in S PROVE f[x] \in Nat /\ W * f[x] <= n * w[x]
  <2>1. f[x] = (n * w[x]) \div W /\ w[x] \in Nat
    OBVIOUS
  <2>2. n * w[x] \in Nat
    BY <2>1
  <2> HIDE DEF W
  <2>3. QED
    BY <1>1, <2>1, <2>2
<1> DEFINE Good == {U \in SUBSET S : W * Total(f, U) <= n * Total(w, U)}
<1>3. {} \in Good
  <2>1. IsFiniteSet({})
    BY FS_EmptySet
  <2>2. Total(f, {}) = 0 /\ Total(w, {}) = 0
    BY <2>1, PickedTotal
  <2> HIDE DEF W
  <2>3. QED
    BY <1>1, <2>2
<1>4. ASSUME NEW U \in SUBSET S, NEW x \in U, U \ {x} \in Good PROVE U \in Good
  <2>1. IsFiniteSet(U) /\ IsFiniteSet(U \ {x})
    BY FS_Subset, FS_RemoveElement
  <2>2. \A y \in U : f[y] \in Int /\ w[y] \in Int
    BY <1>2
  <2>3. Total(f, U) = f[x] + Total(f, U \ {x}) /\ Total(w, U) = w[x] + Total(w, U \ {x})
    BY <2>1, <2>2, SplitTotal
  <2>4. Total(f, U \ {x}) \in Int /\ Total(w, U \ {x}) \in Int
    BY <2>1, <2>2, TotalType
  <2> HIDE DEF W
  <2>5. W * Total(f, U \ {x}) <= n * Total(w, U \ {x})
    BY <1>4
  <2>6. W * f[x] <= n * w[x]
    BY <1>2
  <2>7. f[x] \in Int /\ w[x] \in Int
    BY <2>2
  <2>8. W * Total(f, U) <= n * Total(w, U)
    BY <1>1, <2>3, <2>4, <2>5, <2>6, <2>7, ScaledStep
  <2>9. QED
    BY <2>8
<1>5. S \in Good
  <2> HIDE DEF Good
  <2>1. Good \in SUBSET SUBSET S
    BY DEF Good
  <2>2. QED
    BY <1>3, <1>4, <2>1, TotalBySteps
<1>6. W * Total(f, S) <= n * W
  BY <1>5
<1>7. Total(f, S) \in Int
  BY <1>2, TotalType
<1>8. Total(f, S) <= n
  <2> HIDE DEF W
  <2> DEFINE t == Total(f, S)
  <2>1. t \in Int /\ W * t <= n * W
    BY <1>6, <1>7
  <2> HIDE DEF t
  <2>2. SUFFICES ASSUME t >= n + 1 PROVE FALSE
    BY <2>1 DEF t
  <2>3. W * t >= W * (n + 1)
    BY <1>1, <2>1, <2>2
  <2>4. W * (n + 1) = n * W + W
    BY <1>1
  <2>5. QED
    BY <1>1, <2>1, <2>3, <2>4
<1>9. QED
  BY <1>2, <1>8

\* The larger and the smaller of two numbers, as the modules write them.
LEMMA MaxOfTwo == ASSUME NEW x \in Int, NEW y \in Int PROVE Max({x, y}) = IF x >= y THEN x ELSE y
<1>1. \E z \in {x, y} : \A w \in {x, y} : z >= w
  OBVIOUS
<1>2. Max({x, y}) \in {x, y} /\ \A w \in {x, y} : Max({x, y}) >= w
  BY <1>1 DEF Max
<1>3. QED
  BY <1>2
LEMMA MinOfTwo == ASSUME NEW x \in Int, NEW y \in Int PROVE Min({x, y}) = IF x <= y THEN x ELSE y
<1>1. \E z \in {x, y} : \A w \in {x, y} : z <= w
  OBVIOUS
<1>2. Min({x, y}) \in {x, y} /\ \A w \in {x, y} : Min({x, y}) <= w
  BY <1>1 DEF Min
<1>3. QED
  BY <1>2
=============================================================================
