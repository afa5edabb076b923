--------------------------- MODULE InductionProofs ---------------------------
(***************************************************************************)
(* Induction over the naturals for provers that cannot instantiate a       *)
(* predicate: the predicate is given as the set where it holds.  From it,  *)
(* the existence of functions defined by iteration, and the laws of        *)
(* SumFunctionOnSet of module Functions.                                   *)
(***************************************************************************)
EXTENDS Integers, Functions, WellFoundedInduction, FiniteSetTheorems, TLAPS

\* A set that holds 0 and is closed under successor holds every natural.
LEMMA SetInduction ==
    ASSUME NEW S, 0 \in S, \A n \in Nat : n \in S => n + 1 \in S
    PROVE  Nat \subseteq S
<1> DEFINE T == Nat \ S
           R == OpToRel(<, Nat)
<1> SUFFICES ASSUME T # {} PROVE FALSE
  OBVIOUS
<1>1. IsWellFoundedOn(R, Nat)
  BY NatLessThanWellFounded
<1>2. T \subseteq Nat
  OBVIOUS
<1>3. \E x \in T : \A y \in T : ~ (<<y, x>> \in R)
  <2> HIDE DEF T, R
  <2> QED BY <1>1, <1>2, WFMin
<1>4. PICK x \in T : \A y \in T : ~ (<<y, x>> \in R)
  BY <1>3
<1>5. x # 0 /\ x - 1 \in Nat /\ x - 1 \notin S
  OBVIOUS
<1>6. <<x - 1, x>> \in R
  BY <1>5 DEF OpToRel
<1> QED BY <1>4, <1>5, <1>6

\* A function on a set can be iterated from any of its elements.
LEMMA Iteration ==
    ASSUME NEW V, NEW c \in V, NEW F \in [V -> V]
    PROVE  \E d \in [Nat -> V] : d[0] = c /\ \A i \in Nat : d[i + 1] = F[d[i]]
<1> DEFINE Run(d, n) == d[0] = c /\ \A i \in 0 .. n - 1 : d[i + 1] = F[d[i]]
           G == {n \in Nat : \E d \in [Nat -> V] : Run(d, n)}
<1>1. Nat \subseteq G
  <2>1. 0 \in G
    <3>1. [i \in Nat |-> c] \in [Nat -> V] /\ Run([i \in Nat |-> c], 0)
      OBVIOUS
    <3> QED BY <3>1
  <2>2. ASSUME NEW n \in Nat, n \in G PROVE n + 1 \in G
    <3>1. PICK d \in [Nat -> V] : Run(d, n)
      BY <2>2
    <3> DEFINE e == [d EXCEPT ![n + 1] = F[d[n]]]
    <3>2. e \in [Nat -> V]
      OBVIOUS
    <3>3. Run(e, n + 1)
      BY <3>1
    <3> HIDE DEF e, Run
    <3> QED BY <3>2, <3>3
  <2> HIDE DEF G
  <2> QED BY <2>1, <2>2, SetInduction
<1> DEFINE g == [n \in Nat |-> CHOOSE d \in [Nat -> V] : Run(d, n)]
<1>2. \A n \in Nat : g[n] \in [Nat -> V] /\ Run(g[n], n)
  <2> HIDE DEF Run
  <2> QED BY <1>1
<1> HIDE DEF g
\* Two of these runs agree as far as the shorter one goes.
<1>3. \A n \in Nat : \A i \in 0 .. n : g[n][i] = g[n + 1][i]
  <2> SUFFICES ASSUME NEW n \in Nat
               PROVE  \A i \in 0 .. n : g[n][i] = g[n + 1][i]
    OBVIOUS
  <2> DEFINE H == {i \in Nat : i <= n => g[n][i] = g[n + 1][i]}
  <2>1. Run(g[n], n) /\ Run(g[n + 1], n + 1)
    <3> HIDE DEF Run
    <3> QED BY <1>2
  <2>2. 0 \in H
    BY <2>1
  <2>3. ASSUME NEW i \in Nat, i \in H PROVE i + 1 \in H
    BY <2>1, <2>3
  <2>4. Nat \subseteq H
    <3> HIDE DEF H
    <3> QED BY <2>2, <2>3, SetInduction
  <2> QED BY <2>4
<1> DEFINE D == [n \in Nat |-> g[n][n]]
<1>4. D \in [Nat -> V] /\ D[0] = c
  BY <1>2
<1>5. ASSUME NEW i \in Nat PROVE D[i + 1] = F[D[i]]
  <2>1. g[i + 1][i + 1] = F[g[i + 1][i]]
    BY <1>2
  <2>2. g[i + 1][i] = g[i][i]
    BY <1>3
  <2> QED BY <2>1, <2>2
<1> HIDE DEF D
<1> QED BY <1>4, <1>5

-----------------------------------------------------------------------------
(***************************************************************************)
(* Sums over finite sets.                                                  *)
(***************************************************************************)
\* The element that a sum over s takes first, and the equation that the sums
\* over the subsets of S solve.
Pick(s) == CHOOSE x \in s : TRUE

SumEquation(f, S, it) ==
    it = [s \in SUBSET S |-> IF s = {} THEN 0 ELSE f[Pick(s)] + it[s \ {Pick(s)}]]

\* Induction over the finite subsets of a set, on their size.
LEMMA SubsetInduction ==
    ASSUME NEW S, IsFiniteSet(S), NEW G, {} \in G,
           \A T \in SUBSET S : T # {} /\ T \ {Pick(T)} \in G => T \in G
    PROVE  SUBSET S \subseteq G
<1> DEFINE H == {n \in Nat : \A T \in SUBSET S : Cardinality(T) = n => T \in G}
<1>1. \A T \in SUBSET S : IsFiniteSet(T) /\ Cardinality(T) \in Nat
  BY FS_Subset, FS_CardinalityType
<1>2. 0 \in H
  BY <1>1, FS_EmptySet
<1>3. ASSUME NEW n \in Nat, n \in H PROVE n + 1 \in H
  <2> SUFFICES ASSUME NEW T \in SUBSET S, Cardinality(T) = n + 1 PROVE T \in G
    OBVIOUS
  <2>1. T # {}
    BY FS_EmptySet
  <2>2. Pick(T) \in T
    BY <2>1 DEF Pick
  <2>3. Cardinality(T \ {Pick(T)}) = n /\ T \ {Pick(T)} \in SUBSET S
    BY <1>1, <2>2, FS_RemoveElement
  <2> QED BY <1>3, <2>1, <2>3
<1>4. Nat \subseteq H
  <2> HIDE DEF H
  <2> QED BY <1>2, <1>3, SetInduction
<1> QED BY <1>1, <1>4

\* The sums over the subsets of a finite set exist.
LEMMA SumEquationHasSolution ==
    ASSUME NEW f, NEW S, IsFiniteSet(S)
    PROVE  \E it : SumEquation(f, S, it)
<1> DEFINE Right(it, s) == IF s = {} THEN 0 ELSE f[Pick(s)] + it[s \ {Pick(s)}]
           Upto(it, n) == \A s \in SUBSET S : Cardinality(s) <= n => it[s] = Right(it, s)
           H == {n \in Nat : \E it : it = [s \in SUBSET S |-> it[s]] /\ Upto(it, n)}
<1>1. \A s \in SUBSET S : IsFiniteSet(s) /\ Cardinality(s) \in Nat
                            /\ Cardinality(s) <= Cardinality(S)
  BY FS_Subset, FS_CardinalityType
<1>2. 0 \in H
  <2> DEFINE it == [s \in SUBSET S |-> 0]
  <2>1. it = [s \in SUBSET S |-> it[s]]
    OBVIOUS
  <2>2. Upto(it, 0)
    BY <1>1, FS_EmptySet
  <2> HIDE DEF it, Upto
  <2> QED BY <2>1, <2>2
<1>3. ASSUME NEW n \in Nat, n \in H PROVE n + 1 \in H
  <2>1. PICK it : it = [s \in SUBSET S |-> it[s]] /\ Upto(it, n)
    BY <1>3
  <2> DEFINE new == [s \in SUBSET S |-> Right(it, s)]
  <2>2. new = [s \in SUBSET S |-> new[s]]
    OBVIOUS
  <2>3. ASSUME NEW s \in SUBSET S, Cardinality(s) <= n + 1 PROVE new[s] = Right(new, s)
    <3>1. CASE s = {}
      BY <3>1
    <3>2. CASE s # {}
      <4> DEFINE r == s \ {Pick(s)}
      <4>1. Pick(s) \in s
        BY <3>2 DEF Pick
      <4>2. r \in SUBSET S /\ Cardinality(r) <= n
        BY <1>1, <2>3, <4>1, FS_RemoveElement
      <4>3. it[r] = Right(it, r)
        BY <2>1, <4>2
      <4>4. new[r] = it[r]
        BY <4>2, <4>3
      <4> QED BY <3>2, <4>4
    <3> QED BY <3>1, <3>2
  <2>4. Upto(new, n + 1)
    <3> HIDE DEF new, Right
    <3> QED BY <2>3
  <2> HIDE DEF new, Upto
  <2> QED BY <2>2, <2>4
<1>4. Nat \subseteq H
  <2> HIDE DEF H
  <2> QED BY <1>2, <1>3, SetInduction
<1>5. PICK it : it = [s \in SUBSET S |-> it[s]] /\ Upto(it, Cardinality(S))
  BY <1>4, FS_CardinalityType
<1>6. \A s \in SUBSET S : it[s] = Right(it, s)
  <2> HIDE DEF Right
  <2> QED BY <1>1, <1>5
<1>7. it = [s \in SUBSET S |-> Right(it, s)]
  <2> HIDE DEF Right, Upto
  <2> QED BY <1>5, <1>6
<1> QED BY <1>7 DEF SumEquation

\* A sum is the value at its set of the solution over that set.
LEMMA SumUnfolds ==
    ASSUME NEW f, NEW S, IsFiniteSet(S)
    PROVE  \E it : SumEquation(f, S, it) /\ SumFunctionOnSet(f, S) = it[S]
<1>1. SumFunctionOnSet(f, S) = (CHOOSE it : SumEquation(f, S, it))[S]
  BY DEF SumFunctionOnSet, FoldFunctionOnSet, MapThenFoldSet, SumEquation, Pick
<1> DEFINE J == CHOOSE it : SumEquation(f, S, it)
<1>2. SumEquation(f, S, J)
  BY SumEquationHasSolution
<1> QED BY <1>1, <1>2

\* Solutions for functions that agree on a set agree on it.
LEMMA SolutionsAgree ==
    ASSUME NEW f, NEW g, NEW S, NEW R, NEW T, IsFiniteSet(T),
           T \subseteq S, T \subseteq R, \A x \in T : f[x] = g[x],
           NEW i, SumEquation(f, S, i), NEW j, SumEquation(g, R, j)
    PROVE  i[T] = j[T]
<1> DEFINE G == {s \in SUBSET T : i[s] = j[s]}
<1>1. /\ \A s \in SUBSET S : i[s] = IF s = {} THEN 0 ELSE f[Pick(s)] + i[s \ {Pick(s)}]
      /\ \A s \in SUBSET R : j[s] = IF s = {} THEN 0 ELSE g[Pick(s)] + j[s \ {Pick(s)}]
  BY DEF SumEquation
<1>2. {} \in G
  BY <1>1
<1>3. ASSUME NEW s \in SUBSET T, s # {}, s \ {Pick(s)} \in G PROVE s \in G
  <2>1. Pick(s) \in s
    BY <1>3 DEF Pick
  <2>2. s \in SUBSET S /\ s \in SUBSET R /\ f[Pick(s)] = g[Pick(s)]
    BY <2>1
  <2>3. i[s] = f[Pick(s)] + i[s \ {Pick(s)}] /\ j[s] = g[Pick(s)] + j[s \ {Pick(s)}]
    BY <1>1, <1>3, <2>2
  <2> QED BY <1>3, <2>2, <2>3
<1>4. SUBSET T \subseteq G
  <2> HIDE DEF G
  <2> QED BY <1>2, <1>3, SubsetInduction
<1> QED BY <1>4

\* The sum of functions that agree is the same.
LEMMA SumOnSame ==
    ASSUME NEW f, NEW g, NEW S, IsFiniteSet(S), \A x \in S : f[x] = g[x]
    PROVE  SumFunctionOnSet(f, S) = SumFunctionOnSet(g, S)
<1>1. PICK i : SumEquation(f, S, i) /\ SumFunctionOnSet(f, S) = i[S]
  BY SumUnfolds
<1>2. PICK j : SumEquation(g, S, j) /\ SumFunctionOnSet(g, S) = j[S]
  BY SumUnfolds
<1>3. PICK T : T = S
  OBVIOUS
<1>4. i[T] = j[T]
  <2>1. IsFiniteSet(T) /\ T \subseteq S /\ \A x \in T : f[x] = g[x]
    BY <1>3
  <2> QED BY <1>1, <1>2, <2>1, SolutionsAgree
<1> QED BY <1>1, <1>2, <1>3, <1>4

\* The sum over no element, and the first step of any other.
LEMMA SumOnEmpty ==
    ASSUME NEW f
    PROVE  SumFunctionOnSet(f, {}) = 0
<1>1. PICK i : SumEquation(f, {}, i) /\ SumFunctionOnSet(f, {}) = i[{}]
  BY SumUnfolds, FS_EmptySet
<1> QED BY <1>1 DEF SumEquation

\* The sum over a nonempty finite set: one chosen element and the sum of the rest.
LEMMA SumStep ==
    ASSUME NEW f, NEW S, IsFiniteSet(S), S # {}
    PROVE  /\ Pick(S) \in S
           /\ SumFunctionOnSet(f, S)
                = f[Pick(S)] + SumFunctionOnSet(f, S \ {Pick(S)})
<1> DEFINE T == S \ {Pick(S)}
<1>1. PICK i : SumEquation(f, S, i) /\ SumFunctionOnSet(f, S) = i[S]
  BY SumUnfolds
<1>2. IsFiniteSet(T)
  BY FS_Subset
<1>3. PICK j : SumEquation(f, T, j) /\ SumFunctionOnSet(f, T) = j[T]
  BY <1>2, SumUnfolds
<1>4. i[T] = j[T]
  <2>1. T \subseteq S
    OBVIOUS
  <2> HIDE DEF T
  <2> QED BY <1>1, <1>2, <1>3, <2>1, SolutionsAgree
<1>5. i[S] = f[Pick(S)] + i[T]
  BY <1>1 DEF SumEquation
<1>6. Pick(S) \in S
  BY DEF Pick
<1> QED BY <1>1, <1>3, <1>4, <1>5, <1>6

\* A sum of naturals is a natural.
LEMMA SumIsNatural ==
    ASSUME NEW f, NEW S, IsFiniteSet(S), \A x \in S : f[x] \in Nat
    PROVE  SumFunctionOnSet(f, S) \in Nat
<1> DEFINE G == {s \in SUBSET S : SumFunctionOnSet(f, s) \in Nat}
<1>1. {} \in G
  BY SumOnEmpty
<1>2. ASSUME NEW s \in SUBSET S, s # {}, s \ {Pick(s)} \in G PROVE s \in G
  <2>1. IsFiniteSet(s)
    BY FS_Subset
  <2>2. SumFunctionOnSet(f, s) = f[Pick(s)] + SumFunctionOnSet(f, s \ {Pick(s)})
           /\ Pick(s) \in s
    BY <1>2, <2>1, SumStep
  <2> QED BY <1>2, <2>2
<1>3. SUBSET S \subseteq G
  <2> HIDE DEF G
  <2> QED BY <1>1, <1>2, SubsetInduction
<1> QED BY <1>3

\* Any element can be taken first.
LEMMA SumOnRemove ==
    ASSUME NEW f, NEW S, IsFiniteSet(S), \A x \in S : f[x] \in Nat, NEW x \in S
    PROVE  SumFunctionOnSet(f, S) = f[x] + SumFunctionOnSet(f, S \ {x})
<1> DEFINE Total(T) == SumFunctionOnSet(f, T)
           H == {n \in Nat : \A T \in SUBSET S : Cardinality(T) = n =>
                                \A y \in T : Total(T) = f[y] + Total(T \ {y})}
<1>1. \A T \in SUBSET S : IsFiniteSet(T) /\ Cardinality(T) \in Nat
  BY FS_Subset, FS_CardinalityType
<1>2. \A T \in SUBSET S : Total(T) \in Nat
  BY <1>1, SumIsNatural
<1>3. \A T \in SUBSET S : T # {} =>
         Pick(T) \in T /\ Total(T) = f[Pick(T)] + Total(T \ {Pick(T)})
  BY <1>1, SumStep
<1> HIDE DEF Total
<1>4. 0 \in H
  BY <1>1, FS_EmptySet
<1>5. ASSUME NEW n \in Nat, n \in H PROVE n + 1 \in H
  <2> SUFFICES ASSUME NEW T \in SUBSET S, Cardinality(T) = n + 1, NEW y \in T
               PROVE  Total(T) = f[y] + Total(T \ {y})
    OBVIOUS
  <2>1. PICK p \in T : Total(T) = f[p] + Total(T \ {p})
    BY <1>3
  <2>2. CASE y = p
    BY <2>1, <2>2
  <2>3. CASE y # p
    <3> DEFINE A == T \ {p}
               B == T \ {y}
    <3>1. /\ A \in SUBSET S /\ Cardinality(A) = n /\ y \in A
          /\ B \in SUBSET S /\ Cardinality(B) = n /\ p \in B
      <4>1. IsFiniteSet(T)
        BY <1>1
      <4>2. \A z \in T : Cardinality(T \ {z}) = Cardinality(T) - 1
        BY <4>1, FS_RemoveElement
      <4>3. Cardinality(A) = n /\ Cardinality(B) = n
        BY <4>2
      <4> QED BY <2>3, <4>3
    <3>2. A \ {y} = B \ {p} /\ A \ {y} \in SUBSET S
      OBVIOUS
    <3>3. Total(A) = f[y] + Total(A \ {y}) /\ Total(B) = f[p] + Total(B \ {p})
      <4> HIDE DEF A, B
      <4> QED BY <1>5, <3>1
    <3>4. Total(A \ {y}) \in Nat /\ f[p] \in Nat /\ f[y] \in Nat
      BY <1>2, <3>2
    <3> QED BY <2>1, <3>2, <3>3, <3>4
  <2> QED BY <2>2, <2>3
<1>6. Nat \subseteq H
  <2> HIDE DEF H
  <2> QED BY <1>4, <1>5, SetInduction
<1>7. Total(S) = f[x] + Total(S \ {x})
  BY <1>1, <1>6
<1> QED BY <1>7 DEF Total

\* Two functions that differ at one element: their sums differ as they do.
LEMMA SumOnChange ==
    ASSUME NEW S, IsFiniteSet(S), NEW f \in [S -> Nat], NEW g \in [S -> Nat],
           NEW x \in S, \A y \in S \ {x} : f[y] = g[y]
    PROVE  /\ SumFunction(f) + g[x] = SumFunction(g) + f[x]
           /\ SumFunction(f) \in Nat /\ SumFunction(g) \in Nat
<1> DEFINE T == S \ {x}
<1>1. IsFiniteSet(T)
  BY FS_Subset
<1>2. SumFunctionOnSet(f, T) = SumFunctionOnSet(g, T)
  <2>1. \A y \in T : f[y] = g[y]
    OBVIOUS
  <2> HIDE DEF T
  <2> QED BY <1>1, <2>1, SumOnSame
<1>3. SumFunctionOnSet(f, S) = f[x] + SumFunctionOnSet(f, T)
         /\ SumFunctionOnSet(g, S) = g[x] + SumFunctionOnSet(g, T)
  <2>1. (\A y \in S : f[y] \in Nat) /\ (\A y \in S : g[y] \in Nat)
    OBVIOUS
  <2> QED BY <2>1, SumOnRemove
<1>4. SumFunctionOnSet(f, T) \in Nat
  <2>1. \A y \in T : f[y] \in Nat
    OBVIOUS
  <2> HIDE DEF T
  <2> QED BY <1>1, <2>1, SumIsNatural
<1>5. SumFunction(f) = SumFunctionOnSet(f, S) /\ SumFunction(g) = SumFunctionOnSet(g, S)
  BY DEF SumFunction
<1>6. f[x] \in Nat /\ g[x] \in Nat
  OBVIOUS
<1> QED BY <1>2, <1>3, <1>4, <1>5, <1>6
=============================================================================
