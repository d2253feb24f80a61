----------------------------- MODULE FiniteSums -----------------------------
(***************************************************************************)
(* Facts about the sums over accounts, votes and messages that the modules *)
(* state their ledgers with: SumFunctionOnSet(fun, S) for a finite set S   *)
(* and integer values.                                                     *)
(***************************************************************************)
EXTENDS Integers, FiniteSets, Functions, FiniteSetTheorems, WellFoundedInduction, TLAPS

(***************************************************************************)
(* Induction without an operator parameter                                 *)
(***************************************************************************)

\* A set of naturals with 0 and all successors is all of Nat.
LEMMA SetInduction ==
  ASSUME NEW T \in SUBSET Nat, 0 \in T, \A k \in T : k + 1 \in T
  PROVE  T = Nat
  <1> SUFFICES ASSUME Nat \ T # {} PROVE FALSE
    OBVIOUS
  <1>1. PICK k \in Nat \ T : \A j \in Nat \ T : <<j, k>> \notin OpToRel(<, Nat)
    <2>1. IsWellFoundedOn(OpToRel(<, Nat), Nat)
      BY NatLessThanWellFounded
    <2>2. Nat \ T \subseteq Nat
      OBVIOUS
    <2> HIDE DEF OpToRel, IsWellFoundedOn
    <2> QED BY <2>1, <2>2, WFMin
  <1>2. \A j \in Nat \ T : ~(j < k)
    BY <1>1 DEF OpToRel
  <1>3. k # 0 /\ k - 1 \in Nat /\ k - 1 < k
    OBVIOUS
  <1>4. k - 1 \in T
    BY <1>2, <1>3
  <1>5. (k - 1) + 1 \in T
    BY <1>4
  <1> QED BY <1>5, <1>3

\* A family of subsets of a finite set that holds the empty set, and with a set
\* every set of one element more, holds the whole set.
LEMMA SubsetInduction ==
  ASSUME NEW S, IsFiniteSet(S), NEW F \in SUBSET SUBSET S, {} \in F,
         \A U \in F : \A x \in S \ U : U \cup {x} \in F
  PROVE  S \in F
  <1> DEFINE T == {n \in Nat : \A U \in SUBSET S : Cardinality(U) = n => U \in F}
  <1>1. \A U \in SUBSET S : IsFiniteSet(U) /\ Cardinality(U) \in Nat
    BY FS_Subset, FS_CardinalityType
  <1>2. 0 \in T
    BY <1>1, FS_EmptySet
  <1>3. ASSUME NEW n \in T PROVE n + 1 \in T
    <2> SUFFICES ASSUME NEW U \in SUBSET S, Cardinality(U) = n + 1 PROVE U \in F
      OBVIOUS
    <2>1. PICK x : x \in U
      BY <1>1, FS_EmptySet
    <2>2. Cardinality(U \ {x}) = n
      <3>1. IsFiniteSet(U) /\ n \in Nat
        BY <1>1
      <3>2. Cardinality(U \ {x}) = Cardinality(U) - 1
        BY <2>1, <3>1, FS_RemoveElement
      <3> HIDE DEF T
      <3> QED BY <3>1, <3>2
    <2>3. U \ {x} \in F
      BY <2>2
    <2>4. (U \ {x}) \cup {x} \in F
      BY <2>1, <2>3
    <2> QED BY <2>1, <2>4
  <1> HIDE DEF T
  <1>4. T = Nat
    <2>1. T \in SUBSET Nat
      BY DEF T
    <2> QED BY <1>2, <1>3, <2>1, SetInduction
  <1> QED BY <1>1, <1>4 DEF T

\* Induction over the numbers from 0 to n.
LEMMA IntervalInduction ==
  ASSUME NEW n \in Nat, NEW T, 0 \in T, \A i \in 0 .. n : i \in T /\ i < n => i + 1 \in T
  PROVE  \A i \in 0 .. n : i \in T
  <1> DEFINE R == {i \in Nat : i <= n => i \in T}
  <1>1. 0 \in R
    OBVIOUS
  <1>2. ASSUME NEW i \in R PROVE i + 1 \in R
    <2>1. CASE i + 1 <= n
      <3>1. i \in Nat /\ i \in 0 .. n /\ i < n /\ i \in T
        BY <2>1
      <3> QED BY <3>1
    <2>2. CASE ~(i + 1 <= n)
      BY <2>2
    <2> QED BY <2>1, <2>2
  <1>3. R \in SUBSET Nat
    OBVIOUS
  <1> HIDE DEF R
  <1>4. R = Nat
    BY <1>1, <1>2, <1>3, SetInduction
  <1>5. ASSUME NEW i \in 0 .. n PROVE i \in T
    <2>1. i \in R /\ i <= n
      BY <1>4
    <2> QED BY <2>1 DEF R
  <1> QED BY <1>5

\* A walk of n steps, each with its number.
IsWalk(f, start, step, n) == f[0] = start /\ \A i \in 1 .. n : f[i] = step[i][f[i - 1]]

LEMMA WalkExists ==
  ASSUME NEW n \in Nat, NEW D, NEW start \in D, NEW step \in [1 .. n -> [D -> D]]
  PROVE  \E f \in [0 .. n -> D] : IsWalk(f, start, step, n)
  <1> DEFINE Walks(f, k) == f = [i \in 0 .. k |-> IF i = 0 THEN start ELSE step[i][f[i - 1]]]
             T == {k \in Nat : \E f : Walks(f, k)}
  <1>1. 0 \in T
    <2>1. Walks([i \in 0 .. 0 |-> start], 0)
      OBVIOUS
    <2> HIDE DEF Walks
    <2> QED BY <2>1
  <1>2. ASSUME NEW k \in T PROVE k + 1 \in T
    <2>1. PICK f : Walks(f, k)
      OBVIOUS
    <2>2. k \in Nat
      OBVIOUS
    <2> DEFINE g == [i \in 0 .. k + 1 |-> IF i = k + 1 THEN step[k + 1][f[k]] ELSE f[i]]
    <2>3. \A i \in 0 .. k : i \in 0 .. k + 1 /\ g[i] = f[i]
      BY <2>2
    <2>4. g[k + 1] = step[k + 1][f[k]]
      BY <2>2
    <2>5. g = [i \in 0 .. k + 1 |-> g[i]]
      OBVIOUS
    <2> HIDE DEF g
    <2>6. ASSUME NEW i \in 0 .. k + 1
          PROVE  g[i] = IF i = 0 THEN start ELSE step[i][g[i - 1]]
      <3>1. CASE i = k + 1
        <4>1. i # 0 /\ i - 1 = k /\ k \in 0 .. k
          BY <2>2, <3>1
        <4> QED BY <2>3, <2>4, <3>1, <4>1
      <3>2. CASE i # k + 1
        <4>1. i \in 0 .. k /\ (i # 0 => i - 1 \in 0 .. k)
          BY <2>2, <3>2
        <4>2. f[i] = IF i = 0 THEN start ELSE step[i][f[i - 1]]
          BY <2>1, <4>1
        <4> QED BY <2>3, <4>1, <4>2
      <3> QED BY <3>1, <3>2
    <2>7. Walks(g, k + 1)
      BY <2>5, <2>6
    <2> HIDE DEF Walks
    <2> QED BY <2>2, <2>7
  <1> HIDE DEF T
  <1>3. n \in T
    <2>1. T \in SUBSET Nat
      BY DEF T
    <2>2. T = Nat
      BY <1>1, <1>2, <2>1, SetInduction
    <2> QED BY <2>2
  <1>4. PICK f : Walks(f, n)
    BY <1>3 DEF T
  <1>5. f[0] = start /\ \A i \in 1 .. n : f[i] = step[i][f[i - 1]]
    BY <1>4
  <1> DEFINE R == {i \in 0 .. n : f[i] \in D}
  <1>6. 0 \in R
    BY <1>5
  <1>7. ASSUME NEW i \in 0 .. n, i \in R, i < n PROVE i + 1 \in R
    <2>1. i + 1 \in 1 .. n /\ (i + 1) - 1 = i /\ f[i] \in D
      BY <1>7
    <2>2. f[i + 1] = step[i + 1][f[i]]
      BY <2>1, <1>5
    <2> HIDE DEF Walks
    <2> QED BY <2>1, <2>2
  <1> HIDE DEF R
  <1>8. \A i \in 0 .. n : i \in R
    BY <1>6, <1>7, IntervalInduction
  <1>9. \A i \in 0 .. n : f[i] \in D
    BY <1>8 DEF R
  <1>10. f \in [0 .. n -> D]
    BY <1>4, <1>9
  <1> QED BY <1>5, <1>10 DEF IsWalk

(***************************************************************************)
(* The recursion of the fold                                               *)
(***************************************************************************)

ChosenIn(s) == CHOOSE x \in s : TRUE

\* The function on the subsets of S that the fold is defined by.
FoldStep(fun, S, iter) ==
  [s \in SUBSET S |-> IF s = {} THEN 0 ELSE fun[ChosenIn(s)] + iter[s \ {ChosenIn(s)}]]

FoldOf(fun, S) == CHOOSE iter : iter = FoldStep(fun, S, iter)

LEMMA SumIsFold ==
  ASSUME NEW fun, NEW S
  PROVE  SumFunctionOnSet(fun, S) = FoldOf(fun, S)[S]
  BY DEF SumFunctionOnSet, FoldFunctionOnSet, MapThenFoldSet, FoldOf, FoldStep, ChosenIn

\* The recursion has a solution: it is built up by the size of the subsets.
LEMMA FoldDef ==
  ASSUME NEW fun, NEW S, IsFiniteSet(S)
  PROVE  FoldOf(fun, S) = FoldStep(fun, S, FoldOf(fun, S))
  <1> DEFINE D(n) == {s \in SUBSET S : Cardinality(s) <= n}
             Step(g, n) == [s \in D(n) |-> IF s = {} THEN 0
                                           ELSE fun[ChosenIn(s)] + g[s \ {ChosenIn(s)}]]
             T == {n \in Nat : \E g : g = Step(g, n)}
  <1>1. \A s \in SUBSET S : /\ IsFiniteSet(s) /\ Cardinality(s) \in Nat
                            /\ Cardinality(s) <= Cardinality(S)
    BY FS_Subset, FS_CardinalityType
  <1>2. \A n \in Nat : \A s \in D(n + 1) : s # {} =>
          s \ {ChosenIn(s)} \in D(n) /\ ChosenIn(s) \in s
    <2> SUFFICES ASSUME NEW n \in Nat, NEW s \in D(n + 1), s # {}
                 PROVE  s \ {ChosenIn(s)} \in D(n) /\ ChosenIn(s) \in s
      OBVIOUS
    <2>1. ChosenIn(s) \in s
      BY DEF ChosenIn
    <2>2. Cardinality(s \ {ChosenIn(s)}) = Cardinality(s) - 1
      BY <2>1, <1>1, FS_RemoveElement
    <2> QED BY <2>1, <2>2, <1>1
  <1>3. 0 \in T
    <2> DEFINE g == [s \in D(0) |-> 0]
    <2>1. \A s \in D(0) : s = {}
      BY <1>1, FS_EmptySet
    <2>2. g = Step(g, 0)
      BY <2>1
    <2> QED BY <2>2
  <1>4. ASSUME NEW n \in T PROVE n + 1 \in T
    <2>1. PICK g : g = Step(g, n)
      OBVIOUS
    <2> DEFINE h == Step(g, n + 1)
    <2>2. n \in Nat
      OBVIOUS
    <2>3. \A s \in D(n) : s \in D(n + 1) /\ h[s] = g[s]
      <3> TAKE s \in D(n)
      <3>1. s \in D(n + 1)
        BY <1>1, <2>2
      <3>2. g[s] = IF s = {} THEN 0 ELSE fun[ChosenIn(s)] + g[s \ {ChosenIn(s)}]
        BY <2>1
      <3> QED BY <3>1, <3>2
    <2>4. h = [s \in D(n + 1) |-> IF s = {} THEN 0 ELSE fun[ChosenIn(s)] + g[s \ {ChosenIn(s)}]]
      OBVIOUS
    <2> HIDE DEF h, D
    <2>5. \A s \in D(n + 1) : s # {} => h[s \ {ChosenIn(s)}] = g[s \ {ChosenIn(s)}]
      BY <2>2, <2>3, <1>2
    <2>6. h = Step(h, n + 1)
      BY <2>4, <2>5
    <2> HIDE DEF Step
    <2>7. \E k : k = Step(k, n + 1)
      BY <2>6
    <2> QED BY <2>2, <2>7
  <1> HIDE DEF T
  <1>5. Cardinality(S) \in T
    <2>1. T \in SUBSET Nat
      BY DEF T
    <2>2. T = Nat
      BY <1>3, <1>4, <2>1, SetInduction
    <2> QED BY <2>2, <1>1
  <1>6. D(Cardinality(S)) = SUBSET S
    BY <1>1
  <1>7. \E g : g = FoldStep(fun, S, g)
    BY <1>5, <1>6 DEF T, FoldStep
  <1> QED BY <1>7 DEF FoldOf

\* The sum over a subset does not depend on the set that it is taken from.
LEMMA FoldOfSubset ==
  ASSUME NEW fun, NEW S, IsFiniteSet(S), NEW R \in SUBSET S
  PROVE  FoldOf(fun, S)[R] = FoldOf(fun, R)[R]
  <1> DEFINE T == {n \in Nat : \A s \in SUBSET R : Cardinality(s) = n =>
                                 FoldOf(fun, S)[s] = FoldOf(fun, R)[s]}
  <1>1. IsFiniteSet(R) /\ \A s \in SUBSET R : IsFiniteSet(s) /\ Cardinality(s) \in Nat
    BY FS_Subset, FS_CardinalityType
  <1>2. \A s \in SUBSET R :
          /\ FoldOf(fun, S)[s] = IF s = {} THEN 0
                               ELSE fun[ChosenIn(s)] + FoldOf(fun, S)[s \ {ChosenIn(s)}]
          /\ FoldOf(fun, R)[s] = IF s = {} THEN 0
                               ELSE fun[ChosenIn(s)] + FoldOf(fun, R)[s \ {ChosenIn(s)}]
    <2>1. /\ FoldOf(fun, S) = FoldStep(fun, S, FoldOf(fun, S))
          /\ FoldOf(fun, R) = FoldStep(fun, R, FoldOf(fun, R))
      BY <1>1, FoldDef
    <2>2. \A s \in SUBSET R : s \in SUBSET S
      OBVIOUS
    <2> QED BY <2>1, <2>2 DEF FoldStep
  <1>3. 0 \in T
    BY <1>1, <1>2, FS_EmptySet
  <1>4. ASSUME NEW n \in T PROVE n + 1 \in T
    <2> SUFFICES ASSUME NEW s \in SUBSET R, Cardinality(s) = n + 1
                 PROVE  FoldOf(fun, S)[s] = FoldOf(fun, R)[s]
      OBVIOUS
    <2>0. n \in Nat /\ IsFiniteSet(s) /\ Cardinality(s) \in Nat
      BY <1>1
    <2>1. s # {}
      <3>1. Cardinality(s) # 0
        BY <2>0
      <3> QED BY <3>1, FS_EmptySet
    <2>2. ChosenIn(s) \in s
      BY <2>1 DEF ChosenIn
    <2>3. Cardinality(s \ {ChosenIn(s)}) = n
      <3>1. Cardinality(s \ {ChosenIn(s)}) = Cardinality(s) - 1
        BY <2>0, <2>2, FS_RemoveElement
      <3> QED BY <3>1, <2>0
    <2>4. FoldOf(fun, S)[s \ {ChosenIn(s)}] = FoldOf(fun, R)[s \ {ChosenIn(s)}]
      BY <2>3
    <2> QED BY <1>2, <2>1, <2>4
  <1> HIDE DEF T
  <1>5. T = Nat
    <2>1. T \in SUBSET Nat
      BY DEF T
    <2> QED BY <1>3, <1>4, <2>1, SetInduction
  <1> QED BY <1>1, <1>5 DEF T

\* The recursion for the sum itself, in the order of the fold.
LEMMA SumRecursion ==
  ASSUME NEW fun, NEW S, IsFiniteSet(S)
  PROVE  SumFunctionOnSet(fun, S) =
           IF S = {} THEN 0 ELSE fun[ChosenIn(S)] + SumFunctionOnSet(fun, S \ {ChosenIn(S)})
  <1>1. FoldOf(fun, S)[S] =
          IF S = {} THEN 0 ELSE fun[ChosenIn(S)] + FoldOf(fun, S)[S \ {ChosenIn(S)}]
    <2>1. FoldOf(fun, S) = FoldStep(fun, S, FoldOf(fun, S))
      BY FoldDef
    <2> QED BY <2>1 DEF FoldStep
  <1>2. FoldOf(fun, S)[S \ {ChosenIn(S)}] = FoldOf(fun, S \ {ChosenIn(S)})[S \ {ChosenIn(S)}]
    BY FoldOfSubset
  <1> QED BY <1>1, <1>2, SumIsFold

LEMMA SumEmpty ==
  ASSUME NEW fun
  PROVE  SumFunctionOnSet(fun, {}) = 0
  BY SumRecursion, FS_EmptySet

(***************************************************************************)
(* Sums of integers                                                        *)
(***************************************************************************)

LEMMA SumInt ==
  ASSUME NEW S, IsFiniteSet(S), NEW fun, \A x \in S : fun[x] \in Int
  PROVE  SumFunctionOnSet(fun, S) \in Int
  <1> DEFINE T == {n \in Nat : \A s \in SUBSET S : Cardinality(s) = n =>
                                 SumFunctionOnSet(fun, s) \in Int}
  <1>1. \A s \in SUBSET S : IsFiniteSet(s) /\ Cardinality(s) \in Nat
    BY FS_Subset, FS_CardinalityType
  <1>2. 0 \in T
    BY <1>1, FS_EmptySet, SumEmpty
  <1>3. ASSUME NEW n \in T PROVE n + 1 \in T
    <2> SUFFICES ASSUME NEW s \in SUBSET S, Cardinality(s) = n + 1
                 PROVE  SumFunctionOnSet(fun, s) \in Int
      OBVIOUS
    <2>1. n \in Nat /\ IsFiniteSet(s) /\ Cardinality(s) # 0
      BY <1>1
    <2>2. s # {}
      BY <2>1, FS_EmptySet
    <2>3. ChosenIn(s) \in s
      BY <2>2 DEF ChosenIn
    <2>4. Cardinality(s \ {ChosenIn(s)}) = n
      <3>1. Cardinality(s \ {ChosenIn(s)}) = Cardinality(s) - 1
        BY <2>1, <2>3, FS_RemoveElement
      <3> QED BY <3>1, <2>1
    <2>5. SumFunctionOnSet(fun, s \ {ChosenIn(s)}) \in Int
      BY <2>4
    <2>6. fun[ChosenIn(s)] \in Int
      BY <2>3
    <2>7. SumFunctionOnSet(fun, s) = fun[ChosenIn(s)] + SumFunctionOnSet(fun, s \ {ChosenIn(s)})
      BY <2>1, <2>2, SumRecursion
    <2> QED BY <2>5, <2>6, <2>7
  <1> HIDE DEF T
  <1>4. T = Nat
    <2>1. T \in SUBSET Nat
      BY DEF T
    <2> QED BY <1>2, <1>3, <2>1, SetInduction
  <1> QED BY <1>1, <1>4 DEF T

\* Any element may be taken out first.
LEMMA SumTake ==
  ASSUME NEW S, IsFiniteSet(S), NEW fun, \A x \in S : fun[x] \in Int, NEW x \in S
  PROVE  SumFunctionOnSet(fun, S) = fun[x] + SumFunctionOnSet(fun, S \ {x})
  <1> DEFINE T == {n \in Nat : \A s \in SUBSET S : Cardinality(s) = n =>
                     \A y \in s : SumFunctionOnSet(fun, s) =
                                    fun[y] + SumFunctionOnSet(fun, s \ {y})}
  <1>1. \A s \in SUBSET S : IsFiniteSet(s) /\ Cardinality(s) \in Nat
    BY FS_Subset, FS_CardinalityType
  <1>2. 0 \in T
    <2>1. \A s \in SUBSET S : Cardinality(s) = 0 => s = {}
      BY <1>1, FS_EmptySet
    <2> QED BY <2>1
  <1>3. ASSUME NEW n \in T PROVE n + 1 \in T
    <2> SUFFICES ASSUME NEW s \in SUBSET S, Cardinality(s) = n + 1, NEW y \in s
                 PROVE  SumFunctionOnSet(fun, s) = fun[y] + SumFunctionOnSet(fun, s \ {y})
      OBVIOUS
    <2>1. n \in Nat /\ IsFiniteSet(s)
      BY <1>1
    <2> DEFINE z == ChosenIn(s)
    <2>2. z \in s
      BY DEF ChosenIn
    <2>3. SumFunctionOnSet(fun, s) = fun[z] + SumFunctionOnSet(fun, s \ {z})
      BY <2>1, <2>2, SumRecursion
    <2> HIDE DEF z
    <2>4. CASE y = z
      BY <2>3, <2>4
    <2>5. CASE y # z
      <3>1. Cardinality(s \ {z}) = n /\ Cardinality(s \ {y}) = n
        <4>1. /\ Cardinality(s \ {z}) = Cardinality(s) - 1
              /\ Cardinality(s \ {y}) = Cardinality(s) - 1
          BY <2>1, <2>2, FS_RemoveElement
        <4> QED BY <4>1, <2>1
      <3>2. y \in s \ {z} /\ z \in s \ {y}
        BY <2>2, <2>5
      <3>3. SumFunctionOnSet(fun, s \ {z}) = fun[y] + SumFunctionOnSet(fun, (s \ {z}) \ {y})
        BY <3>1, <3>2
      <3>4. SumFunctionOnSet(fun, s \ {y}) = fun[z] + SumFunctionOnSet(fun, (s \ {y}) \ {z})
        BY <3>1, <3>2
      <3>5. (s \ {z}) \ {y} = (s \ {y}) \ {z}
        OBVIOUS
      <3>6. /\ fun[y] \in Int /\ fun[z] \in Int
            /\ SumFunctionOnSet(fun, (s \ {y}) \ {z}) \in Int
        <4>1. IsFiniteSet((s \ {y}) \ {z}) /\ \A w \in (s \ {y}) \ {z} : fun[w] \in Int
          BY <1>1
        <4> QED BY <4>1, <2>2, SumInt
      <3> HIDE DEF T
      <3> DEFINE rest == SumFunctionOnSet(fun, (s \ {y}) \ {z})
      <3>7. /\ SumFunctionOnSet(fun, s) = fun[z] + (fun[y] + rest)
            /\ SumFunctionOnSet(fun, s \ {y}) = fun[z] + rest
            /\ rest \in Int
        BY <2>3, <3>3, <3>4, <3>5, <3>6
      <3> HIDE DEF rest
      <3> QED BY <3>6, <3>7
    <2> QED BY <2>4, <2>5
  <1> HIDE DEF T
  <1>4. T = Nat
    <2>1. T \in SUBSET Nat
      BY DEF T
    <2> QED BY <1>2, <1>3, <2>1, SetInduction
  <1> QED BY <1>1, <1>4 DEF T

\* The sum over a set with one element more.
LEMMA SumAdd ==
  ASSUME NEW S, IsFiniteSet(S), NEW x, x \notin S,
         NEW fun, \A y \in S \cup {x} : fun[y] \in Int
  PROVE  SumFunctionOnSet(fun, S \cup {x}) = fun[x] + SumFunctionOnSet(fun, S)
  <1>1. IsFiniteSet(S \cup {x}) /\ (S \cup {x}) \ {x} = S /\ x \in S \cup {x}
    BY FS_AddElement
  <1> QED BY <1>1, SumTake

\* A larger function has a larger sum.
LEMMA SumMonotone ==
  ASSUME NEW S, IsFiniteSet(S), NEW f, NEW g,
         \A x \in S : f[x] \in Int /\ g[x] \in Int /\ f[x] <= g[x]
  PROVE  SumFunctionOnSet(f, S) <= SumFunctionOnSet(g, S)
  <1> DEFINE F == {U \in SUBSET S : SumFunctionOnSet(f, U) <= SumFunctionOnSet(g, U)}
  <1>1. {} \in F
    BY SumEmpty
  <1>2. ASSUME NEW U \in F, NEW x \in S \ U PROVE U \cup {x} \in F
    <2>1. U \in SUBSET S /\ IsFiniteSet(U) /\ SumFunctionOnSet(f, U) <= SumFunctionOnSet(g, U)
      BY FS_Subset
    <2>2. /\ SumFunctionOnSet(f, U \cup {x}) = f[x] + SumFunctionOnSet(f, U)
          /\ SumFunctionOnSet(g, U \cup {x}) = g[x] + SumFunctionOnSet(g, U)
      BY <2>1, SumAdd
    <2>3. SumFunctionOnSet(f, U) \in Int /\ SumFunctionOnSet(g, U) \in Int
      BY <2>1, SumInt
    <2>4. SumFunctionOnSet(f, U \cup {x}) <= SumFunctionOnSet(g, U \cup {x})
      BY <2>1, <2>2, <2>3
    <2> QED BY <2>1, <2>4
  <1> HIDE DEF F
  <1>3. S \in F
    <2>1. F \in SUBSET SUBSET S
      BY DEF F
    <2> QED BY <2>1, <1>1, <1>2, SubsetInduction
  <1> QED BY <1>3 DEF F

\* The sum only depends on the values at the elements of the set.
LEMMA SumAgree ==
  ASSUME NEW S, IsFiniteSet(S), NEW f, NEW g,
         \A x \in S : f[x] \in Int /\ f[x] = g[x]
  PROVE  SumFunctionOnSet(f, S) = SumFunctionOnSet(g, S)
  <1>1. SumFunctionOnSet(f, S) <= SumFunctionOnSet(g, S)
    BY SumMonotone
  <1>2. SumFunctionOnSet(g, S) <= SumFunctionOnSet(f, S)
    BY SumMonotone
  <1>3. SumFunctionOnSet(g, S) \in Int /\ SumFunctionOnSet(f, S) \in Int
    BY SumInt
  <1> QED BY <1>1, <1>2, <1>3

\* Functions that differ at one element only.
LEMMA SumUpdate ==
  ASSUME NEW S, IsFiniteSet(S), NEW f, NEW g, NEW x \in S,
         \A y \in S : f[y] \in Int /\ g[y] \in Int,
         \A y \in S \ {x} : g[y] = f[y]
  PROVE  SumFunctionOnSet(g, S) = SumFunctionOnSet(f, S) - f[x] + g[x]
  <1>1. IsFiniteSet(S \ {x})
    BY FS_RemoveElement
  <1>2. SumFunctionOnSet(f, S \ {x}) = SumFunctionOnSet(g, S \ {x})
    BY <1>1, SumAgree
  <1>3. /\ SumFunctionOnSet(f, S) = f[x] + SumFunctionOnSet(f, S \ {x})
        /\ SumFunctionOnSet(g, S) = g[x] + SumFunctionOnSet(g, S \ {x})
    BY SumTake
  <1>4. SumFunctionOnSet(f, S \ {x}) \in Int
    BY <1>1, SumInt
  <1> QED BY <1>2, <1>3, <1>4

\* Sums of naturals: natural, zero for zeros, and no less than each value.
LEMMA SumZero ==
  ASSUME NEW S, IsFiniteSet(S), NEW f, \A x \in S : f[x] = 0
  PROVE  SumFunctionOnSet(f, S) = 0
  <1> DEFINE F == {U \in SUBSET S : SumFunctionOnSet(f, U) = 0}
  <1>1. {} \in F
    BY SumEmpty
  <1>2. ASSUME NEW U \in F, NEW x \in S \ U PROVE U \cup {x} \in F
    <2>1. U \in SUBSET S /\ IsFiniteSet(U) /\ SumFunctionOnSet(f, U) = 0
      BY FS_Subset
    <2>2. \A y \in U \cup {x} : f[y] \in Int
      BY <2>1
    <2>3. SumFunctionOnSet(f, U \cup {x}) = f[x] + SumFunctionOnSet(f, U)
      BY <2>1, <2>2, SumAdd
    <2> QED BY <2>1, <2>3
  <1> HIDE DEF F
  <1>3. S \in F
    <2>1. F \in SUBSET SUBSET S
      BY DEF F
    <2> QED BY <2>1, <1>1, <1>2, SubsetInduction
  <1> QED BY <1>3 DEF F

LEMMA SumNat ==
  ASSUME NEW S, IsFiniteSet(S), NEW f, \A x \in S : f[x] \in Nat
  PROVE  /\ SumFunctionOnSet(f, S) \in Nat
         /\ \A x \in S : f[x] <= SumFunctionOnSet(f, S)
  <1>1. \A U \in SUBSET S : SumFunctionOnSet(f, U) \in Nat
    <2> SUFFICES ASSUME NEW U \in SUBSET S PROVE SumFunctionOnSet(f, U) \in Nat
      OBVIOUS
    <2> DEFINE g == [x \in U |-> 0]
    <2>1. IsFiniteSet(U)
      BY FS_Subset
    <2>2. SumFunctionOnSet(g, U) = 0
      BY <2>1, SumZero
    <2>3. SumFunctionOnSet(g, U) <= SumFunctionOnSet(f, U)
      BY <2>1, SumMonotone
    <2>4. SumFunctionOnSet(f, U) \in Int
      BY <2>1, SumInt
    <2> QED BY <2>2, <2>3, <2>4
  <1>2. ASSUME NEW x \in S PROVE f[x] <= SumFunctionOnSet(f, S)
    <2>1. SumFunctionOnSet(f, S) = f[x] + SumFunctionOnSet(f, S \ {x})
      BY SumTake
    <2>2. SumFunctionOnSet(f, S \ {x}) \in Nat
      BY <1>1
    <2> QED BY <2>1, <2>2
  <1> QED BY <1>1, <1>2

\* Sums over disjoint sets and sums of two functions add up.
LEMMA SumSplit ==
  ASSUME NEW S, IsFiniteSet(S), NEW R \in SUBSET S, NEW f, \A x \in S : f[x] \in Int
  PROVE  SumFunctionOnSet(f, S) = SumFunctionOnSet(f, R) + SumFunctionOnSet(f, S \ R)
  <1> DEFINE Q == S \ R
             F == {U \in SUBSET Q : SumFunctionOnSet(f, R \cup U) =
                                      SumFunctionOnSet(f, R) + SumFunctionOnSet(f, U)}
  <1>1. IsFiniteSet(Q) /\ IsFiniteSet(R) /\ \A U \in SUBSET Q : IsFiniteSet(U)
    BY FS_Subset
  <1>2. SumFunctionOnSet(f, R) \in Int /\ \A U \in SUBSET Q : SumFunctionOnSet(f, U) \in Int
    BY <1>1, SumInt
  <1>3. {} \in F
    <2>1. R \cup {} = R
      OBVIOUS
    <2> QED BY <2>1, <1>2, SumEmpty
  <1>4. ASSUME NEW U \in F, NEW x \in Q \ U PROVE U \cup {x} \in F
    <2>1. /\ U \in SUBSET Q
          /\ SumFunctionOnSet(f, R \cup U) = SumFunctionOnSet(f, R) + SumFunctionOnSet(f, U)
      OBVIOUS
    <2>2. SumFunctionOnSet(f, U \cup {x}) = f[x] + SumFunctionOnSet(f, U)
      BY <1>1, <2>1, SumAdd
    <2>3. SumFunctionOnSet(f, (R \cup U) \cup {x}) = f[x] + SumFunctionOnSet(f, R \cup U)
      <3>1. IsFiniteSet(R \cup U) /\ x \notin R \cup U
        BY <1>1, <2>1, FS_Union
      <3>2. \A y \in (R \cup U) \cup {x} : f[y] \in Int
        BY <2>1
      <3> QED BY <3>1, <3>2, SumAdd
    <2>4. R \cup (U \cup {x}) = (R \cup U) \cup {x}
      OBVIOUS
    <2>5. f[x] \in Int
      OBVIOUS
    <2>6. U \cup {x} \in SUBSET Q
      BY <2>1
    <2>7. SumFunctionOnSet(f, R \cup (U \cup {x})) =
            SumFunctionOnSet(f, R) + SumFunctionOnSet(f, U \cup {x})
      <3>1. SumFunctionOnSet(f, R \cup (U \cup {x})) =
              f[x] + (SumFunctionOnSet(f, R) + SumFunctionOnSet(f, U))
        BY <2>1, <2>3, <2>4
      <3>2. SumFunctionOnSet(f, R) \in Int /\ SumFunctionOnSet(f, U) \in Int
        BY <1>2, <2>1
      <3> HIDE DEF F, Q
      <3> QED BY <3>1, <3>2, <2>2, <2>5
    <2> QED BY <2>6, <2>7
  <1> HIDE DEF F
  <1>5. Q \in F
    <2>1. F \in SUBSET SUBSET Q
      BY DEF F
    <2> HIDE DEF Q
    <2> QED BY <1>1, <1>3, <1>4, <2>1, SubsetInduction
  <1>6. R \cup Q = S
    OBVIOUS
  <1> QED BY <1>5, <1>6 DEF F

\* Sums are linear.
LEMMA SumLinear ==
  ASSUME NEW S, IsFiniteSet(S), NEW f, NEW g, NEW h, NEW c \in Int,
         \A x \in S : f[x] \in Int /\ g[x] \in Int /\ h[x] = f[x] - g[x] * c
  PROVE  SumFunctionOnSet(h, S) = SumFunctionOnSet(f, S) - SumFunctionOnSet(g, S) * c
  <1> DEFINE F == {U \in SUBSET S : SumFunctionOnSet(h, U) =
                                      SumFunctionOnSet(f, U) - SumFunctionOnSet(g, U) * c}
  <1>1. {} \in F
    BY SumEmpty
  <1>2. ASSUME NEW U \in F, NEW x \in S \ U PROVE U \cup {x} \in F
    <2>1. /\ U \in SUBSET S /\ IsFiniteSet(U)
          /\ SumFunctionOnSet(h, U) = SumFunctionOnSet(f, U) - SumFunctionOnSet(g, U) * c
      BY FS_Subset
    <2>2. \A y \in S : h[y] \in Int
      OBVIOUS
    <2>3. /\ SumFunctionOnSet(f, U \cup {x}) = f[x] + SumFunctionOnSet(f, U)
          /\ SumFunctionOnSet(g, U \cup {x}) = g[x] + SumFunctionOnSet(g, U)
          /\ SumFunctionOnSet(h, U \cup {x}) = h[x] + SumFunctionOnSet(h, U)
      BY <2>1, <2>2, SumAdd
    <2>4. /\ SumFunctionOnSet(f, U) \in Int /\ SumFunctionOnSet(g, U) \in Int
          /\ f[x] \in Int /\ g[x] \in Int /\ h[x] = f[x] - g[x] * c
      BY <2>1, SumInt
    <2>5. ASSUME NEW j \in Int, NEW k \in Int PROVE (j + k) * c = j * c + k * c
      OBVIOUS
    <2>6. (g[x] + SumFunctionOnSet(g, U)) * c = g[x] * c + SumFunctionOnSet(g, U) * c
      BY <2>4, <2>5
    <2>7. g[x] * c \in Int /\ SumFunctionOnSet(g, U) * c \in Int
      BY <2>4
    <2>8. SumFunctionOnSet(h, U \cup {x}) =
            SumFunctionOnSet(f, U \cup {x}) - SumFunctionOnSet(g, U \cup {x}) * c
      BY <2>1, <2>3, <2>4, <2>6, <2>7
    <2> QED BY <2>1, <2>8
  <1> HIDE DEF F
  <1>3. S \in F
    <2>1. F \in SUBSET SUBSET S
      BY DEF F
    <2> QED BY <2>1, <1>1, <1>2, SubsetInduction
  <1> QED BY <1>3 DEF F

LEMMA SumScale ==
  ASSUME NEW S, IsFiniteSet(S), NEW g, NEW h, NEW c \in Int,
         \A x \in S : g[x] \in Int /\ h[x] = g[x] * c
  PROVE  SumFunctionOnSet(h, S) = SumFunctionOnSet(g, S) * c
  <1> DEFINE z == [x \in S |-> 0]
  <1>1. PICK f, d : f = z /\ d = 0 - c
    OBVIOUS
  <1>2. ASSUME NEW j \in Int PROVE j * c = 0 - j * d
    <2>1. d = 0 - c
      BY <1>1
    <2> QED BY <2>1
  <1>3. d \in Int /\ \A x \in S : f[x] \in Int /\ g[x] \in Int /\ h[x] = f[x] - g[x] * d
    BY <1>1, <1>2
  <1> HIDE DEF z
  <1>4. SumFunctionOnSet(h, S) = SumFunctionOnSet(f, S) - SumFunctionOnSet(g, S) * d
    <2>1. d \in Int /\ \A x \in S : f[x] \in Int
      BY <1>3
    <2>2. \A x \in S : g[x] \in Int
      BY <1>3
    <2>3. \A x \in S : h[x] = f[x] - g[x] * d
      BY <1>3
    <2> QED BY <2>1, <2>2, <2>3, SumLinear
  <1>5. SumFunctionOnSet(f, S) = 0
    BY <1>1, SumZero DEF z
  <1>6. SumFunctionOnSet(g, S) \in Int
    BY SumInt
  <1> QED BY <1>2, <1>4, <1>5, <1>6

\* A sum over the pairs with one second component, and over all pairs.
IsSlice(f, S, y, g) == \A x \in S : g[x] \in Int /\ f[<<x, y>>] = g[x]

LEMMA SumSlice ==
  ASSUME NEW S, IsFiniteSet(S), NEW y, NEW f, NEW g, IsSlice(f, S, y, g)
  PROVE  SumFunctionOnSet(f, S \X {y}) = SumFunctionOnSet(g, S)
  <1> DEFINE F == {U \in SUBSET S : IsFiniteSet(U \X {y}) /\
                     SumFunctionOnSet(f, U \X {y}) = SumFunctionOnSet(g, U)}
  <1>0. \A x \in S : g[x] \in Int /\ f[<<x, y>>] = g[x]
    BY DEF IsSlice
  <1>1. {} \in F
    <2>1. {} \X {y} = {}
      OBVIOUS
    <2> QED BY <2>1, SumEmpty, FS_EmptySet
  <1>2. ASSUME NEW U \in F, NEW x \in S \ U PROVE U \cup {x} \in F
    <2>1. /\ U \in SUBSET S /\ IsFiniteSet(U) /\ IsFiniteSet(U \X {y})
          /\ SumFunctionOnSet(f, U \X {y}) = SumFunctionOnSet(g, U)
      BY FS_Subset
    <2>2. (U \cup {x}) \X {y} = (U \X {y}) \cup {<<x, y>>} /\ <<x, y>> \notin U \X {y}
      OBVIOUS
    <2>3. \A p \in (U \X {y}) \cup {<<x, y>>} : f[p] \in Int
      <3> SUFFICES ASSUME NEW p \in (U \cup {x}) \X {y} PROVE f[p] \in Int
        BY <2>2
      <3>1. PICK z \in U \cup {x} : p = <<z, y>>
        OBVIOUS
      <3>2. z \in S
        BY <2>1
      <3> QED BY <3>1, <3>2, <1>0
    <2>4. /\ IsFiniteSet((U \X {y}) \cup {<<x, y>>})
          /\ SumFunctionOnSet(f, (U \X {y}) \cup {<<x, y>>}) =
               f[<<x, y>>] + SumFunctionOnSet(f, U \X {y})
      <3>1. PICK slice : slice = U \X {y}
        OBVIOUS
      <3>2. PICK pair : pair = <<x, y>>
        OBVIOUS
      <3>3. IsFiniteSet(slice) /\ pair \notin slice /\ \A p \in slice \cup {pair} : f[p] \in Int
        BY <2>1, <2>2, <2>3, <3>1, <3>2
      <3>4. IsFiniteSet(slice \cup {pair})
        BY <3>3, FS_AddElement
      <3>5. SumFunctionOnSet(f, slice \cup {pair}) = f[pair] + SumFunctionOnSet(f, slice)
        BY <3>3, SumAdd
      <3> QED BY <3>1, <3>2, <3>4, <3>5
    <2>5. SumFunctionOnSet(g, U \cup {x}) = g[x] + SumFunctionOnSet(g, U)
      BY <1>0, <2>1, SumAdd
    <2>6. U \cup {x} \in SUBSET S /\ f[<<x, y>>] = g[x]
      BY <1>0, <2>1
    <2> QED BY <2>1, <2>2, <2>4, <2>5, <2>6
  <1> HIDE DEF F
  <1>3. S \in F
    <2>1. F \in SUBSET SUBSET S
      BY DEF F
    <2> QED BY <2>1, <1>1, <1>2, SubsetInduction
  <1> QED BY <1>3 DEF F

\* f sums over x in the rows of g.
IsRowSum(f, S, T, g) ==
  \A y \in T : /\ \A x \in S : f[<<x, y>>] \in Int
               /\ g[y] = SumFunctionOnSet([x \in S |-> f[<<x, y>>]], S)

LEMMA SumProduct ==
  ASSUME NEW S, IsFiniteSet(S), NEW R, IsFiniteSet(R), NEW f, NEW g, IsRowSum(f, S, R, g)
  PROVE  SumFunctionOnSet(f, S \X R) = SumFunctionOnSet(g, R)
  <1> DEFINE F == {U \in SUBSET R : SumFunctionOnSet(f, S \X U) = SumFunctionOnSet(g, U)}
  <1>1. {} \in F
    <2>1. S \X {} = {}
      OBVIOUS
    <2> QED BY <2>1, SumEmpty
  <1>2. ASSUME NEW U \in F, NEW y \in R \ U PROVE U \cup {y} \in F
    <2>1. /\ U \in SUBSET R /\ IsFiniteSet(U)
          /\ SumFunctionOnSet(f, S \X U) = SumFunctionOnSet(g, U)
      BY FS_Subset
    <2> DEFINE row == [x \in S |-> f[<<x, y>>]]
               all == S \X (U \cup {y})
    <2>2. IsSlice(f, S, y, row)
      BY DEF IsRowSum, IsSlice
    <2>3. g[y] = SumFunctionOnSet(row, S)
      BY DEF IsRowSum
    <2>4. SumFunctionOnSet(f, S \X {y}) = g[y]
      <3> HIDE DEF row
      <3>1. SumFunctionOnSet(f, S \X {y}) = SumFunctionOnSet(row, S)
        BY <2>2, SumSlice
      <3> QED BY <2>3, <3>1
    <2>5. IsFiniteSet(all)
      BY <2>1, FS_AddElement, FS_Product
    <2>6. \A p \in all : f[p] \in Int
      <3> TAKE p \in all
      <3>1. PICK x \in S, z \in R : p = <<x, z>>
        BY <2>1
      <3> QED BY <3>1 DEF IsRowSum
    <2>7. S \X U \in SUBSET all /\ all \ (S \X U) = S \X {y}
      <3>1. S \X U \in SUBSET all
        OBVIOUS
      <3>2. S \X {y} \subseteq all \ (S \X U)
        OBVIOUS
      <3>3. ASSUME NEW p \in all \ (S \X U) PROVE p \in S \X {y}
        <4>1. PICK x \in S, z \in U \cup {y} : p = <<x, z>>
          OBVIOUS
        <4>2. z = y
          BY <4>1
        <4> QED BY <4>1, <4>2
      <3> QED BY <3>1, <3>2, <3>3
    <2> HIDE DEF all
    <2>8. SumFunctionOnSet(f, all) = SumFunctionOnSet(f, S \X U) + SumFunctionOnSet(f, S \X {y})
      BY <2>5, <2>6, <2>7, SumSplit
    <2>9. /\ g[y] \in Int
          /\ \A z \in U : g[z] \in Int
      <3>1. ASSUME NEW z \in R PROVE g[z] \in Int
        <4> DEFINE zrow == [x \in S |-> f[<<x, z>>]]
        <4>1. \A x \in S : zrow[x] \in Int
          BY DEF IsRowSum
        <4>2. g[z] = SumFunctionOnSet(zrow, S)
          BY DEF IsRowSum
        <4> HIDE DEF zrow
        <4> QED BY <4>1, <4>2, SumInt
      <3> QED BY <3>1, <2>1
    <2>10. SumFunctionOnSet(g, U \cup {y}) = g[y] + SumFunctionOnSet(g, U)
      BY <2>1, <2>9, SumAdd
    <2>11. SumFunctionOnSet(g, U) \in Int
      BY <2>1, <2>9, SumInt
    <2>12. SumFunctionOnSet(f, all) = SumFunctionOnSet(g, U \cup {y})
      BY <2>1, <2>4, <2>8, <2>9, <2>10, <2>11
    <2> QED BY <2>1, <2>12 DEF all
  <1> HIDE DEF F
  <1>3. R \in F
    <2>1. F \in SUBSET SUBSET R
      BY DEF F
    <2> QED BY <2>1, <1>1, <1>2, SubsetInduction
  <1> QED BY <1>3 DEF F
=============================================================================
