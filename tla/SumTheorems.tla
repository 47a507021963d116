----------------------------- MODULE SumTheorems -----------------------------
(***************************************************************************)
(* Sums over finite sets: of the shares an order has delivered, of what    *)
(* the trades of a position cost, of what the open positions are worth.    *)
(*                                                                         *)
(* SumFunctionOnSet is a fold, which a recursive function on the subsets   *)
(* of a set defines.  That function exists (FoldStep), and what holds of a *)
(* subset whenever it holds of the smaller ones holds of every finite set  *)
(* (SubsetInduction): the property is given as the set of the subsets that *)
(* have it, since the provers instantiate no operator.                     *)
(*                                                                         *)
(* With them, what the proofs need of integers: their least in a set, and  *)
(* what multiplication keeps and division loses.                           *)
(***************************************************************************)
EXTENDS FiniteSetsExt, FiniteSetTheorems, TLAPS

(* The term a fold takes first.                                            *)
Pick(T) == CHOOSE x \in T : TRUE

(* g gives the sum of f over every subset of S, one term at a time.         *)
Recurrence(f, S, g) ==
    g = [T \in SUBSET S |-> IF T = {} THEN 0 ELSE f[Pick(T)] + g[T \ {Pick(T)}]]

(* A set that is not empty has it.                                          *)
LEMMA PickIn == ASSUME NEW T, T # {} PROVE Pick(T) \in T
  BY DEF Pick

(* The function that the fold over S chooses, and its value at S.           *)
Table(f, S) == CHOOSE g : Recurrence(f, S, g)
Fold(f, S)  == Table(f, S)[S]

(* A sum is such a fold.                                                    *)
LEMMA SumUnfold ==
  ASSUME NEW f, NEW S
  PROVE  SumFunctionOnSet(f, S) = Fold(f, S)
  BY DEF SumFunctionOnSet, FoldFunctionOnSet, MapThenFoldSet, Recurrence, Pick, Table, Fold

(* Induction on the subsets of a finite set.                                *)
LEMMA SubsetInduction ==
  ASSUME NEW S, IsFiniteSet(S), NEW Good,
         \A T \in SUBSET S : (\A U \in SUBSET T : U # T => U \in Good) => T \in Good
  PROVE  \A T \in SUBSET S : T \in Good
<1> DEFINE Bad == {T \in SUBSET S : T \notin Good}
<1> SUFFICES ASSUME Bad # {} PROVE FALSE
  OBVIOUS
<1>1. IsWellFoundedOn(StrictSubsetOrdering(S), SUBSET S)
  <2>1. IsWellFoundedOn(StrictSubsetOrdering(S), FiniteSubsetsOf(S))
    BY FS_StrictSubsetOrderingWellFounded
  <2>2. FiniteSubsetsOf(S) = SUBSET S
    BY FS_FiniteSubsetsOfFinite
  <2> QED
    BY <2>1, <2>2
<1>2. PICK T \in Bad : \A U \in Bad : ~(<<U, T>> \in StrictSubsetOrdering(S))
  <2>1. Bad \subseteq SUBSET S
    OBVIOUS
  <2> HIDE DEF Bad
  <2> QED
    BY <1>1, <2>1, WFMin
<1>3. \A U \in SUBSET T : U # T => U \in Good
  BY <1>2 DEF StrictSubsetOrdering
<1> QED
  BY <1>3

(* Two such functions agree on what both are defined on.                    *)
LEMMA SameFold ==
  ASSUME NEW f, NEW R, NEW S, NEW g, NEW h, Recurrence(f, R, g), Recurrence(f, S, h),
         NEW T, IsFiniteSet(T), T \subseteq R, T \subseteq S
  PROVE  g[T] = h[T]
<1> DEFINE Good == {U \in SUBSET T : g[U] = h[U]}
<1>1. ASSUME NEW U \in SUBSET T, \A V \in SUBSET U : V # U => V \in Good
      PROVE  U \in Good
  <2>1. /\ g[U] = IF U = {} THEN 0 ELSE f[Pick(U)] + g[U \ {Pick(U)}]
        /\ h[U] = IF U = {} THEN 0 ELSE f[Pick(U)] + h[U \ {Pick(U)}]
    <3>1. U \in SUBSET R /\ U \in SUBSET S
      OBVIOUS
    <3>2. g[U] = IF U = {} THEN 0 ELSE f[Pick(U)] + g[U \ {Pick(U)}]
      BY <3>1 DEF Recurrence
    <3>3. h[U] = IF U = {} THEN 0 ELSE f[Pick(U)] + h[U \ {Pick(U)}]
      BY <3>1 DEF Recurrence
    <3> QED
      BY <3>2, <3>3
  <2>2. U # {} => U \ {Pick(U)} \in Good
    BY <1>1, PickIn
  <2> QED
    BY <2>1, <2>2
<1>2. T \in Good
  <2> HIDE DEF Good
  <2> QED
    BY <1>1, SubsetInduction
<1> QED
  BY <1>2

(* There is such a function for every finite set, so that the fold is its   *)
(* first term and the fold of the others.                                   *)
LEMMA FoldStep ==
  ASSUME NEW f, NEW S, IsFiniteSet(S)
  PROVE  Fold(f, S) = IF S = {} THEN 0 ELSE f[Pick(S)] + Fold(f, S \ {Pick(S)})
<1> DEFINE Good == {T \in SUBSET S : Recurrence(f, T, Table(f, T))}
<1>1. ASSUME NEW T \in SUBSET S, Recurrence(f, T, Table(f, T)), T # {},
             Recurrence(f, T \ {Pick(T)}, Table(f, T \ {Pick(T)}))
      PROVE  Fold(f, T) = f[Pick(T)] + Fold(f, T \ {Pick(T)})
  <2> DEFINE U == T \ {Pick(T)}
  <2>1. Table(f, T)[T] = f[Pick(T)] + Table(f, T)[U]
    BY <1>1 DEF Recurrence
  <2>2. IsFiniteSet(U) /\ U \subseteq T
    BY FS_Subset
  <2>3. Table(f, T)[U] = Table(f, U)[U]
    <3> HIDE DEF U
    <3> QED
      BY <1>1, <2>2, SameFold DEF U
  <2> QED
    BY <2>1, <2>3 DEF Fold
<1>2. ASSUME NEW T \in SUBSET S, Recurrence(f, T, Table(f, T))
      PROVE  T = {} => Fold(f, T) = 0
  BY <1>2 DEF Recurrence, Fold
<1>3. ASSUME NEW T \in SUBSET S, \A U \in SUBSET T : U # T => U \in Good
      PROVE  T \in Good
  <2> DEFINE g == [U \in SUBSET T |->
                    IF U = {} THEN 0 ELSE f[Pick(U)] + Fold(f, U \ {Pick(U)})]
  <2>1. ASSUME NEW U \in SUBSET T, U # T
        PROVE  g[U] = Fold(f, U)
    <3>1. U \in Good
      BY <1>3, <2>1
    <3>2. CASE U = {}
      BY <1>2, <3>1, <3>2
    <3>3. CASE U # {}
      <4>1. U \ {Pick(U)} \in Good
        BY <1>3, <3>3, PickIn
      <4> QED
        BY <1>1, <3>1, <3>3, <4>1
    <3> QED
      BY <3>2, <3>3
  <2>2. \A U \in SUBSET T : U # {} => U \ {Pick(U)} \in SUBSET T /\ U \ {Pick(U)} # T
    BY PickIn
  <2>3. \A U \in SUBSET T :
          g[U] = IF U = {} THEN 0 ELSE f[Pick(U)] + g[U \ {Pick(U)}]
    BY <2>1, <2>2
  <2>4. Recurrence(f, T, g)
    <3>1. g = [U \in SUBSET T |-> g[U]]
      OBVIOUS
    <3> HIDE DEF g
    <3> QED
      BY <2>3, <3>1 DEF Recurrence
  <2> HIDE DEF g
  <2> QED
    BY <2>4 DEF Table
<1>4. \A T \in SUBSET S : T \in Good
  <2> HIDE DEF Good
  <2> QED
    BY <1>3, SubsetInduction
<1>5. S \in Good /\ S \ {Pick(S)} \in Good
  BY <1>4
<1> QED
  BY <1>1, <1>2, <1>5

-----------------------------------------------------------------------------
(* What a sum is. *)

(* A sum is its first term and the sum of the others.                       *)
LEMMA SumStep ==
  ASSUME NEW f, NEW S, IsFiniteSet(S)
  PROVE  SumFunctionOnSet(f, S) =
            IF S = {} THEN 0 ELSE f[Pick(S)] + SumFunctionOnSet(f, S \ {Pick(S)})
  BY SumUnfold, FoldStep

(* The sum of nothing.                                                      *)
LEMMA SumEmpty == ASSUME NEW f PROVE SumFunctionOnSet(f, {}) = 0
  BY SumStep, FS_EmptySet

(* The sum of integers is an integer.                                       *)
LEMMA SumInt ==
  ASSUME NEW S, IsFiniteSet(S), NEW f, \A x \in S : f[x] \in Int
  PROVE  SumFunctionOnSet(f, S) \in Int
<1> DEFINE Good == {T \in SUBSET S : SumFunctionOnSet(f, T) \in Int}
<1>1. ASSUME NEW T \in SUBSET S, \A U \in SUBSET T : U # T => U \in Good
      PROVE  T \in Good
  <2>1. IsFiniteSet(T)
    BY FS_Subset
  <2>2. CASE T = {}
    BY <2>2, SumEmpty
  <2>3. CASE T # {}
    <3>1. Pick(T) \in T /\ T \ {Pick(T)} \in Good
      BY <1>1, <2>3, PickIn
    <3>2. SumFunctionOnSet(f, T) = f[Pick(T)] + SumFunctionOnSet(f, T \ {Pick(T)})
      BY <2>1, <2>3, SumStep
    <3> QED
      BY <3>1, <3>2
  <2> QED
    BY <2>2, <2>3
<1>2. S \in Good
  <2> HIDE DEF Good
  <2> QED
    BY <1>1, SubsetInduction
<1> QED
  BY <1>2

(* The sum does not depend on the order in which the terms are taken.       *)
LEMMA SumRemove ==
  ASSUME NEW S, IsFiniteSet(S), NEW f, \A x \in S : f[x] \in Int, NEW x \in S
  PROVE  SumFunctionOnSet(f, S) = f[x] + SumFunctionOnSet(f, S \ {x})
<1> DEFINE Good == {T \in SUBSET S :
                     \A y \in T : SumFunctionOnSet(f, T) = f[y] + SumFunctionOnSet(f, T \ {y})}
<1>1. ASSUME NEW T \in SUBSET S, \A U \in SUBSET T : U # T => U \in Good, NEW y \in T
      PROVE  SumFunctionOnSet(f, T) = f[y] + SumFunctionOnSet(f, T \ {y})
  <2> DEFINE z == Pick(T)
  <2>1. z \in T
    BY PickIn
  <2>2. IsFiniteSet(T) /\ IsFiniteSet(T \ {y}) /\ IsFiniteSet((T \ {y}) \ {z})
    BY FS_Subset
  <2>3. SumFunctionOnSet(f, T) = f[z] + SumFunctionOnSet(f, T \ {z})
    BY <2>2, SumStep
  <2>4. CASE y # z
    <3> HIDE DEF z
    <3>1. T \ {z} \in Good /\ T \ {y} \in Good
      BY <1>1, <2>1
    <3>2. SumFunctionOnSet(f, T \ {z}) = f[y] + SumFunctionOnSet(f, (T \ {z}) \ {y})
      BY <2>4, <3>1
    <3>3. SumFunctionOnSet(f, T \ {y}) = f[z] + SumFunctionOnSet(f, (T \ {y}) \ {z})
      BY <2>1, <2>4, <3>1
    <3>4. SumFunctionOnSet(f, T \ {z}) = f[y] + SumFunctionOnSet(f, (T \ {y}) \ {z})
      <4>1. (T \ {z}) \ {y} = (T \ {y}) \ {z}
        OBVIOUS
      <4> QED
        BY <3>2, <4>1
    <3>5. SumFunctionOnSet(f, (T \ {y}) \ {z}) \in Int /\ f[y] \in Int /\ f[z] \in Int
      BY <2>1, <2>2, SumInt
    <3> QED
      BY <2>3, <3>3, <3>4, <3>5
  <2> QED
    BY <2>3, <2>4
<1>2. S \in Good
  <2>1. \A T \in SUBSET S : (\A U \in SUBSET T : U # T => U \in Good) => T \in Good
    BY <1>1
  <2> HIDE DEF Good
  <2> QED
    BY <2>1, SubsetInduction
<1> QED
  BY <1>2

(* A term more.                                                             *)
LEMMA SumAdd ==
  ASSUME NEW S, IsFiniteSet(S), NEW x, x \notin S,
         NEW f, \A y \in S \cup {x} : f[y] \in Int
  PROVE  SumFunctionOnSet(f, S \cup {x}) = SumFunctionOnSet(f, S) + f[x]
<1>1. IsFiniteSet(S \cup {x}) /\ (S \cup {x}) \ {x} = S
  BY FS_AddElement
<1>2. SumFunctionOnSet(f, S \cup {x}) = f[x] + SumFunctionOnSet(f, S)
  BY <1>1, SumRemove
<1>3. SumFunctionOnSet(f, S) \in Int
  BY SumInt
<1> QED
  BY <1>2, <1>3

(* It depends on the terms only.                                            *)
LEMMA SumSame ==
  ASSUME NEW S, IsFiniteSet(S), NEW f, NEW g, \A x \in S : f[x] = g[x]
  PROVE  SumFunctionOnSet(f, S) = SumFunctionOnSet(g, S)
<1> DEFINE Good == {T \in SUBSET S : SumFunctionOnSet(f, T) = SumFunctionOnSet(g, T)}
<1>1. ASSUME NEW T \in SUBSET S, \A U \in SUBSET T : U # T => U \in Good
      PROVE  T \in Good
  <2>1. IsFiniteSet(T)
    BY FS_Subset
  <2>2. /\ SumFunctionOnSet(f, T) =
              IF T = {} THEN 0 ELSE f[Pick(T)] + SumFunctionOnSet(f, T \ {Pick(T)})
        /\ SumFunctionOnSet(g, T) =
              IF T = {} THEN 0 ELSE g[Pick(T)] + SumFunctionOnSet(g, T \ {Pick(T)})
    BY <2>1, SumStep
  <2>3. T # {} => Pick(T) \in T /\ T \ {Pick(T)} \in Good
    BY <1>1, PickIn
  <2> QED
    BY <2>2, <2>3
<1>2. S \in Good
  <2> HIDE DEF Good
  <2> QED
    BY <1>1, SubsetInduction
<1> QED
  BY <1>2

(* The sum over the whole domain.                                           *)
LEMMA SumOver ==
  ASSUME NEW S, IsFiniteSet(S), NEW f, DOMAIN f = S, NEW g, \A x \in S : f[x] = g[x]
  PROVE  SumFunction(f) = SumFunctionOnSet(g, S)
  BY SumSame DEF SumFunction

(* Of naturals, it is a natural, and no term exceeds it.                    *)
LEMMA SumNat ==
  ASSUME NEW S, IsFiniteSet(S), NEW f, \A x \in S : f[x] \in Nat
  PROVE  SumFunctionOnSet(f, S) \in Nat /\ \A x \in S : f[x] <= SumFunctionOnSet(f, S)
<1> DEFINE Good == {T \in SUBSET S : SumFunctionOnSet(f, T) \in Nat}
<1>1. ASSUME NEW T \in SUBSET S, \A U \in SUBSET T : U # T => U \in Good
      PROVE  T \in Good
  <2>1. IsFiniteSet(T)
    BY FS_Subset
  <2>2. SumFunctionOnSet(f, T) =
              IF T = {} THEN 0 ELSE f[Pick(T)] + SumFunctionOnSet(f, T \ {Pick(T)})
    BY <2>1, SumStep
  <2>3. T # {} => Pick(T) \in T /\ T \ {Pick(T)} \in Good
    BY <1>1, PickIn
  <2> QED
    BY <2>2, <2>3
<1>2. \A T \in SUBSET S : T \in Good
  <2> HIDE DEF Good
  <2> QED
    BY <1>1, SubsetInduction
<1>3. ASSUME NEW x \in S
      PROVE  f[x] <= SumFunctionOnSet(f, S)
  <2>1. S \ {x} \in Good /\ SumFunctionOnSet(f, S) = f[x] + SumFunctionOnSet(f, S \ {x})
    BY <1>2, SumRemove
  <2> QED
    BY <2>1
<1> QED
  BY <1>2, <1>3

(* The terms of a part and those of the rest.                               *)
LEMMA SumSplit ==
  ASSUME NEW S, IsFiniteSet(S), NEW f, \A x \in S : f[x] \in Int, NEW T \in SUBSET S
  PROVE  SumFunctionOnSet(f, S) = SumFunctionOnSet(f, T) + SumFunctionOnSet(f, S \ T)
<1> DEFINE Sum(U) == SumFunctionOnSet(f, U)
           Good == {U \in SUBSET T : Sum(S) = Sum(U) + Sum(S \ U)}
<1>1. \A U \in SUBSET S : IsFiniteSet(U) /\ Sum(U) \in Int
  BY FS_Subset, SumInt
<1>2. ASSUME NEW U \in SUBSET T, \A V \in SUBSET U : V # U => V \in Good
      PROVE  U \in Good
  <2>1. CASE U = {}
    <3>1. Sum(U) = 0 /\ Sum(S \ U) = Sum(S) /\ Sum(S) \in Int
      <4>1. S \ U = S
        BY <2>1
      <4> QED
        BY <1>1, <2>1, <4>1, SumEmpty
    <3>2. Sum(S) = Sum(U) + Sum(S \ U)
      <4> HIDE DEF Sum
      <4> QED
        BY <3>1
    <3> QED
      BY <3>2
  <2>2. CASE U # {}
    <3> DEFINE x == Pick(U)
               V == U \ {x}
    <3>1. x \in U /\ V \in Good
      BY <1>2, <2>2, PickIn
    <3> HIDE DEF x
    <3>2. Sum(U) = f[x] + Sum(V)
      <4>1. IsFiniteSet(U) /\ \A y \in U : f[y] \in Int
        BY <1>1
      <4> QED
        BY <3>1, <4>1, SumRemove
    <3>3. Sum(S \ V) = f[x] + Sum(S \ U)
      <4>1. /\ IsFiniteSet(S \ V) /\ \A y \in S \ V : f[y] \in Int
            /\ x \in S \ V /\ (S \ V) \ {x} = S \ U
        BY <1>1, <3>1
      <4>2. Sum(S \ V) = f[x] + Sum((S \ V) \ {x})
        BY <4>1, SumRemove
      <4> QED
        BY <4>1, <4>2
    <3>4. Sum(S) = Sum(V) + Sum(S \ V)
      BY <3>1
    <3>5. f[x] \in Int /\ Sum(V) \in Int /\ Sum(S \ U) \in Int
      BY <1>1, <3>1
    <3>6. Sum(S) = Sum(U) + Sum(S \ U)
      <4> HIDE DEF V, Sum
      <4> QED
        BY <3>2, <3>3, <3>4, <3>5
    <3> QED
      BY <3>6
  <2> QED
    BY <2>1, <2>2
<1>3. T \in Good
  <2>1. IsFiniteSet(T)
    BY <1>1
  <2> HIDE DEF Good
  <2> QED
    BY <1>2, <2>1, SubsetInduction
<1> QED
  BY <1>3

(* The sum of sums.                                                         *)
LEMMA SumPlus ==
  ASSUME NEW S, IsFiniteSet(S), NEW f, NEW g, NEW h,
         \A x \in S : f[x] \in Int /\ g[x] \in Int /\ h[x] = f[x] + g[x]
  PROVE  SumFunctionOnSet(h, S) = SumFunctionOnSet(f, S) + SumFunctionOnSet(g, S)
<1> DEFINE Sum(e, U) == SumFunctionOnSet(e, U)
           Good == {U \in SUBSET S : Sum(h, U) = Sum(f, U) + Sum(g, U)}
<1>1. ASSUME NEW U \in SUBSET S, \A V \in SUBSET U : V # U => V \in Good
      PROVE  U \in Good
  <2>1. IsFiniteSet(U)
    BY FS_Subset
  <2>2. CASE U = {}
    BY <2>2, SumEmpty
  <2>3. CASE U # {}
    <3> DEFINE x == Pick(U)
               V == U \ {x}
    <3>1. x \in U /\ V \in Good /\ IsFiniteSet(V)
      BY <1>1, <2>1, <2>3, PickIn, FS_Subset
    <3>2. /\ Sum(f, U) = f[x] + Sum(f, V)
          /\ Sum(g, U) = g[x] + Sum(g, V)
          /\ Sum(h, U) = h[x] + Sum(h, V)
      BY <2>1, <2>3, SumStep
    <3>3. /\ f[x] \in Int /\ g[x] \in Int /\ h[x] = f[x] + g[x]
          /\ Sum(f, V) \in Int /\ Sum(g, V) \in Int
      BY <3>1, SumInt
    <3>4. Sum(h, V) = Sum(f, V) + Sum(g, V)
      BY <3>1
    <3>5. Sum(h, U) = Sum(f, U) + Sum(g, U)
      <4> HIDE DEF x, V, Sum
      <4> QED
        BY <3>2, <3>3, <3>4
    <3> QED
      BY <3>5
  <2> QED
    BY <2>2, <2>3
<1>2. S \in Good
  <2> HIDE DEF Good
  <2> QED
    BY <1>1, SubsetInduction
<1> QED
  BY <1>2

(* A bound on each term, k times over.                                      *)
LEMMA SumBound ==
  ASSUME NEW S, IsFiniteSet(S), NEW f, NEW g, NEW k \in Int,
         \A x \in S : f[x] \in Int /\ g[x] \in Int /\ k * f[x] <= g[x]
  PROVE  k * SumFunctionOnSet(f, S) <= SumFunctionOnSet(g, S)
<1> DEFINE Sum(e, U) == SumFunctionOnSet(e, U)
           Good == {U \in SUBSET S : k * Sum(f, U) <= Sum(g, U)}
<1>1. ASSUME NEW U \in SUBSET S, \A V \in SUBSET U : V # U => V \in Good
      PROVE  U \in Good
  <2>1. IsFiniteSet(U)
    BY FS_Subset
  <2>2. CASE U = {}
    <3>1. Sum(f, U) = 0 /\ Sum(g, U) = 0
      BY <2>2, SumEmpty
    <3>2. k * Sum(f, U) <= Sum(g, U)
      <4> HIDE DEF Sum
      <4> QED
        BY <3>1
    <3> QED
      BY <3>2
  <2>3. CASE U # {}
    <3> DEFINE x == Pick(U)
               V == U \ {x}
    <3>1. x \in U /\ V \in Good /\ IsFiniteSet(V)
      BY <1>1, <2>1, <2>3, PickIn, FS_Subset
    <3>2. Sum(f, U) = f[x] + Sum(f, V) /\ Sum(g, U) = g[x] + Sum(g, V)
      BY <2>1, <2>3, SumStep
    <3>3. /\ f[x] \in Int /\ g[x] \in Int /\ k * f[x] <= g[x]
          /\ Sum(f, V) \in Int /\ Sum(g, V) \in Int
      BY <3>1, SumInt
    <3>4. k * Sum(f, V) <= Sum(g, V)
      BY <3>1
    <3>5. k * Sum(f, U) <= Sum(g, U)
      <4> HIDE DEF x, V, Sum
      <4>1. k * (f[x] + Sum(f, V)) = k * f[x] + k * Sum(f, V)
        BY <3>3
      <4> QED
        BY <3>2, <3>3, <3>4, <4>1
    <3> QED
      BY <3>5
  <2> QED
    BY <2>2, <2>3
<1>2. S \in Good
  <2> HIDE DEF Good
  <2> QED
    BY <1>1, SubsetInduction
<1> QED
  BY <1>2

(* Terms that are nothing, and terms that are not negative.                 *)
LEMMA SumNone ==
  ASSUME NEW S, IsFiniteSet(S), NEW f, \A x \in S : f[x] = 0
  PROVE  SumFunctionOnSet(f, S) = 0
<1> DEFINE sum == SumFunctionOnSet(f, S)
<1>1. sum = sum + sum
  BY SumPlus
<1>2. sum \in Int
  BY SumInt
<1>3. sum = 0
  <2> HIDE DEF sum
  <2> QED
    BY <1>1, <1>2
<1> QED
  BY <1>3

LEMMA SumNegative ==
  ASSUME NEW S, IsFiniteSet(S), NEW f, \A x \in S : f[x] \in Int /\ f[x] <= 0
  PROVE  SumFunctionOnSet(f, S) \in Int /\ SumFunctionOnSet(f, S) <= 0
<1> DEFINE none == [x \in S |-> 0]
<1>1. \A x \in S : f[x] \in Int /\ none[x] \in Int /\ 1 * f[x] <= none[x]
  OBVIOUS
<1>2. SumFunctionOnSet(none, S) = 0
  BY SumNone
<1>3. SumFunctionOnSet(f, S) \in Int
  BY SumInt
<1>4. 1 * SumFunctionOnSet(f, S) <= SumFunctionOnSet(none, S)
  <2> HIDE DEF none
  <2> QED
    BY <1>1, SumBound
<1> QED
  <2> HIDE DEF none
  <2> QED
    BY <1>2, <1>3, <1>4

-----------------------------------------------------------------------------
(* Sums over the rows of a table.  The table is a sequence of n rows, f and *)
(* g give a number for each.                                                *)

(* Integers add up to an integer.                                           *)
LEMMA RowsInt ==
  ASSUME NEW n \in Nat, NEW f, DOMAIN f = 1..n, \A k \in 1..n : f[k] \in Int
  PROVE  SumFunction(f) \in Int
  BY FS_Interval, SumInt DEF SumFunction

(* Naturals add up to a natural that no row exceeds.                        *)
LEMMA RowsNat ==
  ASSUME NEW n \in Nat, NEW f, DOMAIN f = 1..n, \A k \in 1..n : f[k] \in Nat
  PROVE  SumFunction(f) \in Nat /\ \A k \in 1..n : f[k] <= SumFunction(f)
<1>1. IsFiniteSet(1..n)
  BY FS_Interval
<1>2. SumFunctionOnSet(f, 1..n) \in Nat /\ \A k \in 1..n : f[k] <= SumFunctionOnSet(f, 1..n)
  BY <1>1, SumNat
<1> QED
  BY <1>2 DEF SumFunction

(* A row more.                                                              *)
LEMMA RowAdded ==
  ASSUME NEW n \in Nat, NEW f, NEW g, DOMAIN f = 1..n, DOMAIN g = 1..n + 1,
         \A k \in 1..n : f[k] \in Int /\ g[k] = f[k], g[n + 1] \in Int
  PROVE  SumFunction(g) = SumFunction(f) + g[n + 1]
<1>1. IsFiniteSet(1..n) /\ n + 1 \notin 1..n /\ 1..n + 1 = (1..n) \cup {n + 1}
  <2>1. IsFiniteSet(1..n)
    BY FS_Interval
  <2>2. n + 1 \notin 1..n /\ 1..n + 1 = (1..n) \cup {n + 1}
    OBVIOUS
  <2> QED
    BY <2>1, <2>2
<1>2. SumFunctionOnSet(g, 1..n + 1) = SumFunctionOnSet(g, 1..n) + g[n + 1]
  <2>1. \A k \in (1..n) \cup {n + 1} : g[k] \in Int
    OBVIOUS
  <2>2. SumFunctionOnSet(g, (1..n) \cup {n + 1}) = SumFunctionOnSet(g, 1..n) + g[n + 1]
    BY <1>1, <2>1, SumAdd
  <2> QED
    BY <1>1, <2>2
<1>3. SumFunctionOnSet(g, 1..n) = SumFunctionOnSet(f, 1..n)
  BY <1>1, SumSame
<1> QED
  BY <1>2, <1>3 DEF SumFunction

(* A row changed.                                                           *)
LEMMA RowChanged ==
  ASSUME NEW n \in Nat, NEW f, NEW g, DOMAIN f = 1..n, DOMAIN g = 1..n, NEW r \in 1..n,
         \A k \in 1..n : f[k] \in Int /\ (k # r => g[k] = f[k]), g[r] \in Int
  PROVE  SumFunction(g) = SumFunction(f) - f[r] + g[r]
<1> DEFINE S == 1..n
<1>1. IsFiniteSet(S)
  BY FS_Interval
<1>2. /\ r \in S /\ DOMAIN f = S /\ DOMAIN g = S
      /\ \A k \in S : f[k] \in Int /\ g[k] \in Int
      /\ \A k \in S \ {r} : g[k] = f[k]
  OBVIOUS
<1> HIDE DEF S
<1>3. IsFiniteSet(S \ {r})
  BY <1>1, FS_Subset
<1>4. SumFunctionOnSet(f, S) = f[r] + SumFunctionOnSet(f, S \ {r})
  BY <1>1, <1>2, SumRemove
<1>5. SumFunctionOnSet(g, S) = g[r] + SumFunctionOnSet(g, S \ {r})
  BY <1>1, <1>2, SumRemove
<1>6. SumFunctionOnSet(g, S \ {r}) = SumFunctionOnSet(f, S \ {r})
  BY <1>2, <1>3, SumSame
<1>7. SumFunctionOnSet(f, S \ {r}) \in Int
  BY <1>2, <1>3, SumInt
<1>8. SumFunctionOnSet(g, S) = SumFunctionOnSet(f, S) - f[r] + g[r]
  BY <1>2, <1>4, <1>5, <1>6, <1>7
<1> QED
  BY <1>2, <1>8 DEF SumFunction

(* No row changed.                                                          *)
LEMMA RowsSame ==
  ASSUME NEW n \in Nat, NEW f, NEW g, DOMAIN f = 1..n, DOMAIN g = 1..n,
         \A k \in 1..n : g[k] = f[k]
  PROVE  SumFunction(g) = SumFunction(f)
  BY FS_Interval, SumSame DEF SumFunction

(* No row.                                                                  *)
LEMMA NoRows == ASSUME NEW f, DOMAIN f = {} PROVE SumFunction(f) = 0
  BY SumEmpty DEF SumFunction

-----------------------------------------------------------------------------
(* Integers.                                                                *)

(* A finite set of integers has a least one.                                *)
LEMMA LeastExists ==
  ASSUME NEW S \in SUBSET Int, IsFiniteSet(S), S # {}
  PROVE  \E x \in S : \A y \in S : x <= y
<1> DEFINE Good == {T \in SUBSET S : T # {} => \E x \in T : \A y \in T : x <= y}
<1>1. ASSUME NEW T \in SUBSET S, \A U \in SUBSET T : U # T => U \in Good
      PROVE  T \in Good
  <2>1. CASE T = {}
    BY <2>1
  <2>2. CASE T # {}
    <3>1. PICK z \in T : TRUE
      BY <2>2
    <3>2. T \ {z} \in Good
      BY <1>1, <3>1
    <3>3. CASE T \ {z} = {}
      BY <3>1, <3>3
    <3>4. CASE T \ {z} # {}
      <4>1. PICK x \in T \ {z} : \A y \in T \ {z} : x <= y
        BY <3>2, <3>4
      <4>2. x \in Int /\ z \in Int
        BY <3>1, <4>1
      <4>3. CASE x <= z
        BY <4>1, <4>3
      <4>4. CASE ~(x <= z)
        <5>1. \A y \in T : y \in Int
          OBVIOUS
        <5>2. \A y \in T : z <= y
          BY <3>1, <4>1, <4>2, <4>4, <5>1
        <5> QED
          BY <3>1, <5>2
      <4> QED
        BY <4>3, <4>4
    <3> QED
      BY <3>3, <3>4
  <2> QED
    BY <2>1, <2>2
<1>2. \A T \in SUBSET S : T \in Good
  <2> HIDE DEF Good
  <2> QED
    BY <1>1, SubsetInduction
<1>3. S \in Good
  <2> HIDE DEF Good
  <2> QED
    BY <1>2
<1> QED
  BY <1>3

(* A factor that is not negative keeps an order.                            *)
LEMMA TimesKeeps ==
  ASSUME NEW a \in Int, NEW b \in Int, NEW k \in Nat, a <= b
  PROVE  k * a <= k * b /\ k * a \in Int /\ k * b \in Int
  BY Z3

(* Division rounds down.                                                    *)
LEMMA DivisionFacts ==
  ASSUME NEW a \in Int, NEW b \in Nat, b > 0
  PROVE  a \div b \in Int /\ (a \div b) * b <= a /\ a < (a \div b) * b + b
  BY Z3

LEMMA DivisionNat ==
  ASSUME NEW a \in Nat, NEW b \in Nat, b > 0
  PROVE  a \div b \in Nat
  BY Z3
=============================================================================
