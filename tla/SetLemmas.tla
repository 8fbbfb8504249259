------------------------------ MODULE SetLemmas ------------------------------
(***************************************************************************)
(* Lemmas about finite sets that the proofs of several components use.     *)
(*                                                                         *)
(* Ranks: the elements of a finite set in a total order are numbered       *)
(* without gap or repetition.                                              *)
(*                                                                         *)
(* Sums: SumFunctionOnSet of the community modules does not depend on the  *)
(* order of summation, adds what a new element carries, and changes by     *)
(* what one element changes.  The fold is a recursive function over the    *)
(* subsets of a set; what holds of it for every finite set follows from a  *)
(* minimal counterexample (WFMin), without an induction schema.            *)
(***************************************************************************)
EXTENDS Integers, FiniteSets, FiniteSetTheorems, SequenceTheorems, WellFoundedInduction, TLAPS

TotalOn(S, order) ==
    /\ \A i \in S : <<i, i>> \notin order
    /\ \A i, j \in S : i = j \/ <<i, j>> \in order \/ <<j, i>> \in order
    /\ \A i, j, k \in S : <<i, j>> \in order /\ <<j, k>> \in order => <<i, k>> \in order

RankIn(S, order, i) == Cardinality({j \in S : <<j, i>> \in order})

(* The ranks of the elements of a finite set in a total order are exactly  *)
(* 0..Cardinality(S)-1, each taken once.                                   *)
LEMMA RanksIn ==
    ASSUME NEW S, IsFiniteSet(S), NEW order, TotalOn(S, order)
    PROVE  /\ \A i \in S : RankIn(S, order, i) \in 0..(Cardinality(S) - 1)
           /\ \A i, j \in S : <<i, j>> \in order => RankIn(S, order, i) < RankIn(S, order, j)
           /\ \A i, j \in S : RankIn(S, order, i) = RankIn(S, order, j) => i = j
           /\ \A k \in 0..(Cardinality(S) - 1) : \E i \in S : RankIn(S, order, i) = k
<1> DEFINE Below(i) == {j \in S : <<j, i>> \in order}
           T == 0..(Cardinality(S) - 1)
           f == [i \in S |-> RankIn(S, order, i)]
<1>0. /\ \A i \in S : <<i, i>> \notin order
      /\ \A i, j \in S : i = j \/ <<i, j>> \in order \/ <<j, i>> \in order
      /\ \A i, j, k \in S : <<i, j>> \in order /\ <<j, k>> \in order => <<i, k>> \in order
  BY DEF TotalOn
<1>1. Cardinality(S) \in Nat
  BY FS_CardinalityType
<1>2. ASSUME NEW i \in S
      PROVE  /\ IsFiniteSet(Below(i)) /\ RankIn(S, order, i) \in Nat
             /\ RankIn(S, order, i) < Cardinality(S)
  <2>1. Below(i) \in SUBSET S /\ i \notin Below(i)
    BY <1>0
  <2>2. /\ IsFiniteSet(Below(i)) /\ Cardinality(Below(i)) <= Cardinality(S)
        /\ Cardinality(S) = Cardinality(Below(i)) => S = Below(i)
    BY <2>1, FS_Subset
  <2>3. Cardinality(Below(i)) \in Nat
    BY <2>2, FS_CardinalityType
  <2> QED  BY <1>1, <2>1, <2>2, <2>3 DEF RankIn
<1>3. ASSUME NEW i \in S, NEW j \in S, <<i, j>> \in order
      PROVE  RankIn(S, order, i) < RankIn(S, order, j)
  <2>1. Below(i) \subseteq Below(j) /\ i \in Below(j) /\ i \notin Below(i)
    BY <1>0, <1>3
  <2>2. /\ Cardinality(Below(i)) <= Cardinality(Below(j))
        /\ Cardinality(Below(j)) = Cardinality(Below(i)) => Below(j) = Below(i)
    BY <1>2, <2>1, FS_Subset
  <2>3. Cardinality(Below(i)) # Cardinality(Below(j))
    <3>1. Below(i) # Below(j)
      BY <2>1
    <3> QED  BY <2>2, <3>1
  <2>4. Cardinality(Below(i)) = RankIn(S, order, i) /\ Cardinality(Below(j)) = RankIn(S, order, j)
    BY DEF RankIn
  <2> HIDE DEF Below
  <2> QED  BY <1>2, <2>2, <2>3, <2>4
<1>4. T = 0..(Cardinality(S) - 1) /\ IsFiniteSet(T) /\ Cardinality(T) = Cardinality(S)
  <2>1. Cardinality(S) - 1 \in Int /\ 0 \in Int
    BY <1>1
  <2> QED  BY <1>1, <2>1, FS_Interval
<1>5. f \in [S -> T] /\ \A i \in S : f[i] = RankIn(S, order, i)
  <2>1. \A i \in S : RankIn(S, order, i) \in Nat /\ RankIn(S, order, i) < Cardinality(S)
    BY <1>2
  <2>2. \A i \in S : RankIn(S, order, i) \in T
    BY <1>1, <2>1
  <2> HIDE DEF T
  <2> QED  BY <2>2
<1>6. \A i, j \in S : f[i] = f[j] => i = j
  <2> SUFFICES ASSUME NEW i \in S, NEW j \in S, f[i] = f[j], i # j
               PROVE  FALSE
    OBVIOUS
  <2>1. RankIn(S, order, i) < RankIn(S, order, j) \/ RankIn(S, order, j) < RankIn(S, order, i)
    BY <1>0, <1>3
  <2> QED  BY <1>2, <1>5, <2>1
<1> HIDE DEF T, f
<1>7. f \in Injection(S, T)
  BY <1>5, <1>6 DEF Injection, IsInjective
<1>8. f \in Surjection(S, T)
  BY <1>4, <1>7, FS_Injection
<1>9. \A k \in T : \E i \in S : f[i] = k
  BY <1>8 DEF Surjection
<1> QED  BY <1>1, <1>2, <1>3, <1>4, <1>5, <1>6, <1>9

RankBy(S, key, i) == Cardinality({j \in S : key[j] < key[i]})

(* The same for the order of a key that tells the elements apart.          *)
LEMMA RanksBy ==
    ASSUME NEW S, IsFiniteSet(S), NEW key, \A i \in S : key[i] \in Int,
           \A i, j \in S : key[i] = key[j] => i = j
    PROVE  /\ \A i \in S : RankBy(S, key, i) \in 0..(Cardinality(S) - 1)
           /\ \A i, j \in S : key[i] < key[j] => RankBy(S, key, i) < RankBy(S, key, j)
           /\ \A k \in 0..(Cardinality(S) - 1) : \E i \in S : RankBy(S, key, i) = k
<1> DEFINE order == {p \in S \X S : key[p[1]] < key[p[2]]}
<1>1. \A i, j \in S : <<i, j>> \in order <=> key[i] < key[j]
  OBVIOUS
<1> HIDE DEF order
<1>2. TotalOn(S, order)
  BY <1>1 DEF TotalOn
<1>3. \A i \in S : RankIn(S, order, i) = RankBy(S, key, i)
  BY <1>1 DEF RankIn, RankBy
<1>4. /\ \A i \in S : RankIn(S, order, i) \in 0..(Cardinality(S) - 1)
      /\ \A i, j \in S : <<i, j>> \in order => RankIn(S, order, i) < RankIn(S, order, j)
      /\ \A k \in 0..(Cardinality(S) - 1) : \E i \in S : RankIn(S, order, i) = k
  BY <1>2, RanksIn
<1> QED  BY <1>1, <1>3, <1>4

Rank(S, i) == Cardinality({j \in S : j < i})

(* The same for a finite set of numbers in their own order. *)
LEMMA Ranks ==
    ASSUME NEW S \in SUBSET Nat, IsFiniteSet(S)
    PROVE  /\ \A i \in S : Rank(S, i) \in 0..(Cardinality(S) - 1)
           /\ \A i, j \in S : i < j => Rank(S, i) < Rank(S, j)
           /\ \A k \in 0..(Cardinality(S) - 1) : \E i \in S : Rank(S, i) = k
<1> DEFINE key == [i \in S |-> i]
<1>1. (\A i \in S : key[i] = i /\ key[i] \in Int) /\ \A i, j \in S : key[i] = key[j] => i = j
  OBVIOUS
<1> HIDE DEF key
<1>2. ASSUME NEW i \in S PROVE RankBy(S, key, i) = Rank(S, i)
  <2>1. {j \in S : key[j] < key[i]} = {j \in S : j < i}
    BY <1>1
  <2> QED  BY <2>1 DEF RankBy, Rank
<1>3. /\ \A i \in S : RankBy(S, key, i) \in 0..(Cardinality(S) - 1)
      /\ \A i, j \in S : key[i] < key[j] => RankBy(S, key, i) < RankBy(S, key, j)
      /\ \A k \in 0..(Cardinality(S) - 1) : \E i \in S : RankBy(S, key, i) = k
  BY <1>1, RanksBy
<1> QED  BY <1>1, <1>2, <1>3

(* A non-empty finite set of numbers has a least one. *)
LEMMA LeastElement ==
    ASSUME NEW S \in SUBSET Nat, IsFiniteSet(S), S # {}
    PROVE  \E i \in S : \A j \in S : i <= j
<1>1. Cardinality(S) \in Nat \ {0}
  BY FS_CardinalityType, FS_EmptySet
<1>2. PICK i \in S : Rank(S, i) = 0
  BY <1>1, Ranks
<1>3. \A j \in S : ~ (j < i)
  BY <1>1, <1>2, Ranks
<1> QED  BY <1>3

-----------------------------------------------------------------------------
Picked(s) == CHOOSE y \in s : TRUE

IsSum(f, S, g) ==
    g = [s \in SUBSET S |-> IF s = {} THEN 0 ELSE f[Picked(s)] + g[s \ {Picked(s)}]]

TheSum(f, S) == CHOOSE g : IsSum(f, S, g)

(* A set of subsets of a finite set has a minimal member. *)
LEMMA MinimalSubset ==
    ASSUME NEW S, IsFiniteSet(S), NEW B, B \subseteq SUBSET S, B # {}
    PROVE  \E T \in B : \A U \in B : U \subseteq T => U = T
<1>1. B \subseteq FiniteSubsetsOf(S)
  BY FS_Subset DEF FiniteSubsetsOf
<1>2. IsWellFoundedOn(StrictSubsetOrdering(S), FiniteSubsetsOf(S))
  BY FS_StrictSubsetOrderingWellFounded
<1>3. PICK T \in B : \A U \in B : ~ (<<U, T>> \in StrictSubsetOrdering(S))
  BY <1>1, <1>2, WFMin
<1> QED  BY <1>3 DEF StrictSubsetOrdering

LEMMA SumIsTheSum ==
    ASSUME NEW f, NEW S
    PROVE  SumFunctionOnSet(f, S) = TheSum(f, S)[S]
  BY DEF SumFunctionOnSet, FoldFunctionOnSet, MapThenFoldSet, TheSum, IsSum, Picked

LEMMA PickedIn == ASSUME NEW s, s # {} PROVE Picked(s) \in s
  BY DEF Picked

(* Below a finite set the partial sums are determined. *)
LEMMA SumUnique ==
    ASSUME NEW f, NEW S, IsFiniteSet(S), NEW g, NEW h, IsSum(f, S, g), IsSum(f, S, h)
    PROVE  g = h
<1> DEFINE B == {s \in SUBSET S : g[s] # h[s]}
<1>1. SUFFICES ASSUME B # {} PROVE FALSE
  <2>1. \A s \in SUBSET S : g[s] = h[s]
    BY <1>1
  <2> QED  BY <2>1 DEF IsSum
<1>2. PICK T \in B : \A U \in B : U \subseteq T => U = T
  <2>1. B \subseteq SUBSET S
    OBVIOUS
  <2> HIDE DEF B
  <2> QED  BY <1>1, <2>1, MinimalSubset
<1>3. CASE T = {}
  BY <1>3 DEF IsSum
<1>4. CASE T # {}
  <2>1. Picked(T) \in T
    BY <1>4, PickedIn
  <2>2. g[T \ {Picked(T)}] = h[T \ {Picked(T)}]
    BY <1>2, <2>1
  <2> QED  BY <1>4, <2>2 DEF IsSum
<1> QED  BY <1>3, <1>4

(* The partial sums of a set restrict to those of a subset. *)
LEMMA SumRestricts ==
    ASSUME NEW f, NEW S, IsFiniteSet(S), NEW g, IsSum(f, S, g), NEW U \in SUBSET S, NEW h, IsSum(f, U, h)
    PROVE  g[U] = h[U]
<1> DEFINE r == [s \in SUBSET U |-> g[s]]
<1>1. IsFiniteSet(U)
  BY FS_Subset
<1>2. ASSUME NEW s \in SUBSET U
      PROVE  r[s] = IF s = {} THEN 0 ELSE f[Picked(s)] + r[s \ {Picked(s)}]
  BY DEF IsSum
<1>3. IsSum(f, U, r)
  <2> HIDE DEF r
  <2>1. r = [s \in SUBSET U |-> r[s]]
    BY DEF r
  <2> QED  BY <1>2, <2>1 DEF IsSum
<1>4. r = h
  BY <1>1, <1>3, SumUnique
<1> QED  BY <1>4

(* They exist. *)
LEMMA SumExists ==
    ASSUME NEW f, NEW S, IsFiniteSet(S)
    PROVE  IsSum(f, S, TheSum(f, S))
<1> DEFINE B == {T \in SUBSET S : ~ \E g : IsSum(f, T, g)}
<1>1. SUFFICES ASSUME B # {} PROVE FALSE
  BY <1>1 DEF TheSum
<1>2. PICK T \in B : \A U \in B : U \subseteq T => U = T
  <2>1. B \subseteq SUBSET S
    OBVIOUS
  <2> HIDE DEF B
  <2> QED  BY <1>1, <2>1, MinimalSubset
<1>3. \A U \in SUBSET T : U # T => IsSum(f, U, TheSum(f, U))
  BY <1>2 DEF TheSum
<1> DEFINE rest(s) == s \ {Picked(s)}
           h == [s \in SUBSET T |-> IF s = {} THEN 0 ELSE f[Picked(s)] + TheSum(f, rest(s))[rest(s)]]
<1>4. ASSUME NEW U \in SUBSET T, U # T
      PROVE  h[U] = TheSum(f, U)[U]
  <2>1. IsSum(f, U, TheSum(f, U)) /\ IsFiniteSet(U)
    BY <1>2, <1>3, <1>4, FS_Subset
  <2>2. CASE U = {}
    BY <2>1, <2>2 DEF IsSum
  <2>3. CASE U # {}
    <3>1. rest(U) \in SUBSET U /\ rest(U) # T
      BY <1>4, <2>3, PickedIn
    <3>2. IsSum(f, rest(U), TheSum(f, rest(U)))
      BY <1>3, <3>1
    <3>3. TheSum(f, U)[rest(U)] = TheSum(f, rest(U))[rest(U)]
      BY <2>1, <3>1, <3>2, SumRestricts
    <3>4. TheSum(f, U)[U] = f[Picked(U)] + TheSum(f, U)[rest(U)]
      BY <2>1, <2>3 DEF IsSum
    <3> QED  BY <2>3, <3>3, <3>4
  <2> QED  BY <2>2, <2>3
<1>5. ASSUME NEW s \in SUBSET T
      PROVE  h[s] = IF s = {} THEN 0 ELSE f[Picked(s)] + h[rest(s)]
  <2>1. CASE s = {}
    BY <2>1
  <2>2. CASE s # {}
    <3>1. rest(s) \in SUBSET T /\ rest(s) # T
      BY <2>2, PickedIn
    <3>2. h[rest(s)] = TheSum(f, rest(s))[rest(s)]
      BY <1>4, <3>1
    <3> QED  BY <2>2, <3>2
  <2> QED  BY <2>1, <2>2
<1>6. IsSum(f, T, h)
  <2>1. h = [s \in SUBSET T |-> h[s]]
    OBVIOUS
  <2> HIDE DEF h
  <2> QED  BY <1>5, <2>1 DEF IsSum
<1> QED  BY <1>2, <1>6

-----------------------------------------------------------------------------
LEMMA SumEmpty ==
    ASSUME NEW f PROVE SumFunctionOnSet(f, {}) = 0
<1>1. IsSum(f, {}, TheSum(f, {}))
  BY SumExists, FS_EmptySet
<1> QED  BY <1>1, SumIsTheSum DEF IsSum

LEMMA SumPicked ==
    ASSUME NEW f, NEW S, IsFiniteSet(S), S # {}
    PROVE  SumFunctionOnSet(f, S) = f[Picked(S)] + SumFunctionOnSet(f, S \ {Picked(S)})
<1> DEFINE U == S \ {Picked(S)}
<1>1. U \in SUBSET S /\ IsFiniteSet(U)
  BY FS_Subset
<1>2. IsSum(f, S, TheSum(f, S)) /\ IsSum(f, U, TheSum(f, U))
  BY <1>1, SumExists
<1>3. TheSum(f, S)[U] = TheSum(f, U)[U]
  BY <1>1, <1>2, SumRestricts
<1>4. TheSum(f, S)[S] = f[Picked(S)] + TheSum(f, S)[U]
  BY <1>2 DEF IsSum
<1> QED  BY <1>3, <1>4, SumIsTheSum

LEMMA SumType ==
    ASSUME NEW f, NEW S, IsFiniteSet(S), \A x \in S : f[x] \in Int
    PROVE  SumFunctionOnSet(f, S) \in Int
<1> DEFINE B == {T \in SUBSET S : SumFunctionOnSet(f, T) \notin Int}
<1>1. SUFFICES ASSUME B # {} PROVE FALSE
  BY <1>1
<1>2. PICK T \in B : \A U \in B : U \subseteq T => U = T
  <2>1. B \subseteq SUBSET S
    OBVIOUS
  <2> HIDE DEF B
  <2> QED  BY <1>1, <2>1, MinimalSubset
<1>3. T # {} /\ IsFiniteSet(T)
  <2>1. SumFunctionOnSet(f, {}) \in Int
    BY SumEmpty
  <2>2. T \in SUBSET S /\ SumFunctionOnSet(f, T) \notin Int
    BY <1>2
  <2> QED  BY <2>1, <2>2, FS_Subset
<1>4. Picked(T) \in T /\ T \ {Picked(T)} \in SUBSET S
  BY <1>2, <1>3, PickedIn
<1>5. SumFunctionOnSet(f, T \ {Picked(T)}) \in Int
  BY <1>2, <1>4
<1>6. f[Picked(T)] \in Int
  BY <1>2, <1>4
<1> QED  BY <1>2, <1>3, <1>5, <1>6, SumPicked

LEMMA SumNat ==
    ASSUME NEW f, NEW S, IsFiniteSet(S), \A x \in S : f[x] \in Nat
    PROVE  SumFunctionOnSet(f, S) \in Nat
<1> DEFINE B == {T \in SUBSET S : SumFunctionOnSet(f, T) \notin Nat}
<1>1. SUFFICES ASSUME B # {} PROVE FALSE
  BY <1>1
<1>2. PICK T \in B : \A U \in B : U \subseteq T => U = T
  <2>1. B \subseteq SUBSET S
    OBVIOUS
  <2> HIDE DEF B
  <2> QED  BY <1>1, <2>1, MinimalSubset
<1>3. T # {} /\ IsFiniteSet(T)
  <2>1. SumFunctionOnSet(f, {}) \in Nat
    BY SumEmpty
  <2>2. T \in SUBSET S /\ SumFunctionOnSet(f, T) \notin Nat
    BY <1>2
  <2> QED  BY <2>1, <2>2, FS_Subset
<1>4. Picked(T) \in T /\ T \ {Picked(T)} \in SUBSET S
  BY <1>2, <1>3, PickedIn
<1>5. SumFunctionOnSet(f, T \ {Picked(T)}) \in Nat
  BY <1>2, <1>4
<1>6. f[Picked(T)] \in Nat
  BY <1>2, <1>4
<1> QED  BY <1>2, <1>3, <1>5, <1>6, SumPicked

(* A sum does not depend on the order in which its terms are taken. *)
LEMMA SumRemove ==
    ASSUME NEW f, NEW S, IsFiniteSet(S), \A y \in S : f[y] \in Int, NEW x \in S
    PROVE  SumFunctionOnSet(f, S) = f[x] + SumFunctionOnSet(f, S \ {x})
<1> DEFINE total(T) == SumFunctionOnSet(f, T)
           B == {T \in SUBSET S : \E y \in T : total(T) # f[y] + total(T \ {y})}
<1> HIDE DEF total
<1>1. SUFFICES ASSUME B # {} PROVE FALSE
  BY <1>1 DEF total
<1>2. PICK T \in B : \A U \in B : U \subseteq T => U = T
  <2>1. B \subseteq SUBSET S
    OBVIOUS
  <2> HIDE DEF B
  <2> QED  BY <1>1, <2>1, MinimalSubset
<1>3. PICK y \in T : total(T) # f[y] + total(T \ {y})
  BY <1>2
<1>4. T \in SUBSET S /\ IsFiniteSet(T) /\ T # {}
  BY <1>2, FS_Subset
<1> DEFINE p == Picked(T)
<1>5. p \in T /\ total(T) = f[p] + total(T \ {p})
  BY <1>4, SumPicked, PickedIn DEF total
<1> HIDE DEF p
<1>6. p # y
  BY <1>3, <1>5
<1>7. /\ total(T \ {p}) = f[y] + total((T \ {p}) \ {y})
      /\ total(T \ {y}) = f[p] + total((T \ {y}) \ {p})
  <2>1. T \ {p} \notin B /\ T \ {y} \notin B
    BY <1>2, <1>5
  <2>2. T \ {p} \in SUBSET S /\ T \ {y} \in SUBSET S /\ y \in T \ {p} /\ p \in T \ {y}
    BY <1>4, <1>5, <1>6
  <2> QED  BY <2>1, <2>2
<1>8. (T \ {p}) \ {y} = (T \ {y}) \ {p}
  OBVIOUS
<1>9. total((T \ {y}) \ {p}) \in Int /\ f[p] \in Int /\ f[y] \in Int
  <2>1. (T \ {y}) \ {p} \in SUBSET S /\ IsFiniteSet((T \ {y}) \ {p})
    BY <1>4, FS_Subset
  <2> QED  BY <1>4, <1>5, <2>1, SumType DEF total
<1> DEFINE z == total((T \ {y}) \ {p})
<1>10. total(T) = f[p] + (f[y] + z) /\ total(T \ {y}) = f[p] + z
  BY <1>5, <1>7, <1>8
<1>11. z \in Int /\ f[p] \in Int /\ f[y] \in Int
  BY <1>9
<1> HIDE DEF z
<1>12. f[p] + (f[y] + z) = f[y] + (f[p] + z)
  BY <1>11
<1> QED  BY <1>3, <1>10, <1>12

(* A new element adds what it carries. *)
LEMMA SumAdd ==
    ASSUME NEW f, NEW S, IsFiniteSet(S), NEW x, x \notin S, \A y \in S \union {x} : f[y] \in Int
    PROVE  SumFunctionOnSet(f, S \union {x}) = SumFunctionOnSet(f, S) + f[x]
<1>1. IsFiniteSet(S \union {x}) /\ (S \union {x}) \ {x} = S
  BY FS_AddElement
<1>2. SumFunctionOnSet(f, S) \in Int
  BY SumType
<1> QED  BY <1>1, <1>2, SumRemove

(* Only the terms matter. *)
LEMMA SumSame ==
    ASSUME NEW f, NEW g, NEW S, IsFiniteSet(S), \A x \in S : f[x] = g[x]
    PROVE  SumFunctionOnSet(f, S) = SumFunctionOnSet(g, S)
<1> DEFINE B == {T \in SUBSET S : SumFunctionOnSet(f, T) # SumFunctionOnSet(g, T)}
<1>1. SUFFICES ASSUME B # {} PROVE FALSE
  BY <1>1
<1>2. PICK T \in B : \A U \in B : U \subseteq T => U = T
  <2>1. B \subseteq SUBSET S
    OBVIOUS
  <2> HIDE DEF B
  <2> QED  BY <1>1, <2>1, MinimalSubset
<1>3. T # {} /\ IsFiniteSet(T)
  BY <1>2, SumEmpty, FS_Subset
<1>4. Picked(T) \in T /\ T \ {Picked(T)} \in SUBSET S
  BY <1>2, <1>3, PickedIn
<1>5. SumFunctionOnSet(f, T \ {Picked(T)}) = SumFunctionOnSet(g, T \ {Picked(T)})
  BY <1>2, <1>4
<1>6. f[Picked(T)] = g[Picked(T)]
  BY <1>2, <1>4
<1> QED  BY <1>2, <1>3, <1>5, <1>6, SumPicked

LEMMA SumZero ==
    ASSUME NEW f, NEW S, IsFiniteSet(S), \A x \in S : f[x] = 0
    PROVE  SumFunctionOnSet(f, S) = 0
<1> DEFINE B == {T \in SUBSET S : SumFunctionOnSet(f, T) # 0}
<1>1. SUFFICES ASSUME B # {} PROVE FALSE
  BY <1>1
<1>2. PICK T \in B : \A U \in B : U \subseteq T => U = T
  <2>1. B \subseteq SUBSET S
    OBVIOUS
  <2> HIDE DEF B
  <2> QED  BY <1>1, <2>1, MinimalSubset
<1>3. T # {} /\ IsFiniteSet(T)
  BY <1>2, SumEmpty, FS_Subset
<1>4. Picked(T) \in T /\ T \ {Picked(T)} \in SUBSET S
  BY <1>2, <1>3, PickedIn
<1>5. SumFunctionOnSet(f, T \ {Picked(T)}) = 0 /\ f[Picked(T)] = 0
  BY <1>2, <1>4
<1> QED  BY <1>2, <1>3, <1>5, SumPicked

(* When one term changes, the sum changes by as much. *)
LEMMA SumChange ==
    ASSUME NEW f, NEW g, NEW S, IsFiniteSet(S), NEW x \in S,
           \A y \in S : f[y] \in Int /\ g[y] \in Int,
           \A y \in S : y # x => f[y] = g[y]
    PROVE  SumFunctionOnSet(g, S) = SumFunctionOnSet(f, S) - f[x] + g[x]
<1> DEFINE U == S \ {x}
<1>1. IsFiniteSet(U)
  BY FS_Subset
<1>2. SumFunctionOnSet(f, U) = SumFunctionOnSet(g, U)
  BY <1>1, SumSame
<1>3. SumFunctionOnSet(f, U) \in Int
  BY <1>1, SumType
<1>4. /\ SumFunctionOnSet(f, S) = f[x] + SumFunctionOnSet(f, U)
      /\ SumFunctionOnSet(g, S) = g[x] + SumFunctionOnSet(g, U)
  BY SumRemove
<1> HIDE DEF U
<1> QED  BY <1>2, <1>3, <1>4

(* The parts of a set that is split in two. *)
LEMMA SumUnion ==
    ASSUME NEW f, NEW S, IsFiniteSet(S), NEW T, IsFiniteSet(T), S \cap T = {},
           \A x \in S \union T : f[x] \in Int
    PROVE  SumFunctionOnSet(f, S \union T) = SumFunctionOnSet(f, S) + SumFunctionOnSet(f, T)
<1> DEFINE total(U) == SumFunctionOnSet(f, U)
           B == {U \in SUBSET T : total(S \union U) # total(S) + total(U)}
<1>0. \A U \in SUBSET T : total(U) \in Int /\ total(S \union U) \in Int /\ IsFiniteSet(U) /\ IsFiniteSet(S \union U)
  <2> SUFFICES ASSUME NEW U \in SUBSET T PROVE total(U) \in Int /\ total(S \union U) \in Int /\ IsFiniteSet(U) /\ IsFiniteSet(S \union U)
    OBVIOUS
  <2>1. IsFiniteSet(U)
    BY FS_Subset
  <2>2. IsFiniteSet(S \union U)
    BY <2>1, FS_Union
  <2> QED  BY <2>1, <2>2, SumType
<1>z. total(S) \in Int /\ total({}) = 0
  BY SumType, SumEmpty
<1>1. SUFFICES ASSUME B # {} PROVE FALSE
  BY <1>1
<1>2. PICK U \in B : \A V \in B : V \subseteq U => V = U
  <2>1. B \subseteq SUBSET T
    OBVIOUS
  <2> HIDE DEF B
  <2> QED  BY <1>1, <2>1, MinimalSubset
<1>3. U \in SUBSET T /\ total(S \union U) # total(S) + total(U)
  BY <1>2
<1>4. U # {}
  <2> SUFFICES ASSUME U = {} PROVE FALSE
    OBVIOUS
  <2>1. S \union U = S
    OBVIOUS
  <2> HIDE DEF total
  <2> QED  BY <1>z, <1>3, <2>1
<1>5. PICK x \in U : TRUE
  BY <1>4
<1> DEFINE V == U \ {x}
<1>6. V \in SUBSET T /\ V \notin B
  BY <1>2, <1>3, <1>5
<1>7. total(S \union V) = total(S) + total(V)
  BY <1>6
<1>8. /\ x \notin V /\ x \notin S \union V
      /\ U = V \union {x} /\ S \union U = (S \union V) \union {x}
  BY <1>3, <1>5
<1>9. f[x] \in Int
  BY <1>3, <1>5
<1>10. total(V \union {x}) = total(V) + f[x]
  <2>1. IsFiniteSet(V) /\ \A y \in V \union {x} : f[y] \in Int
    BY <1>0, <1>3, <1>5, <1>6
  <2> HIDE DEF V
  <2> QED  BY <1>8, <2>1, SumAdd
<1>11. total((S \union V) \union {x}) = total(S \union V) + f[x]
  <2>1. IsFiniteSet(S \union V) /\ \A y \in (S \union V) \union {x} : f[y] \in Int
    BY <1>0, <1>3, <1>5, <1>6
  <2> HIDE DEF V
  <2> QED  BY <1>8, <2>1, SumAdd
<1>12. total(V) \in Int
  BY <1>0, <1>6
<1>13. total(U) = total(V) + f[x] /\ total(S \union U) = (total(S) + total(V)) + f[x]
  BY <1>7, <1>8, <1>10, <1>11
<1> HIDE DEF total, V, B
<1>14. (total(S) + total(V)) + f[x] = total(S) + (total(V) + f[x])
  BY <1>z, <1>9, <1>12
<1> QED  BY <1>3, <1>13, <1>14

(* A function on 1..n is a sequence. *)
LEMMA SequenceOf ==
    ASSUME NEW n \in Nat, NEW S, NEW f \in [1..n -> S]
    PROVE  f \in Seq(S) /\ Len(f) = n /\ DOMAIN f = 1..n
<1>1. f \in Seq(S)
  BY SeqDef
<1>2. DOMAIN f = 1..n
  OBVIOUS
<1> QED  BY <1>1, <1>2, LenProperties

=============================================================================
