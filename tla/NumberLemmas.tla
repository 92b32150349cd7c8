----------------------------- MODULE NumberLemmas -----------------------------
(***************************************************************************)
(* What the proofs of several components need of numbers, finite sets and  *)
(* sums, and no library of theorems states.  The provers cannot induce     *)
(* over an arbitrary predicate, so inductions go by a least counterexample *)
(* in a set of numbers or a family of sets.                                *)
(***************************************************************************)
EXTENDS Integers, FiniteSets, Functions, FiniteSetTheorems, WellFoundedInduction, TLAPS

-----------------------------------------------------------------------------
(* Every nonempty set of naturals has a least element. *)
LEMMA LeastElement ==
  ASSUME NEW T \in SUBSET Nat, T # {}
  PROVE  \E x \in T : \A y \in T : x <= y
<1> DEFINE R == OpToRel(<, Nat)
<1>1. IsWellFoundedOn(R, Nat)
  BY NatLessThanWellFounded
<1>2. \A x, y \in Nat : <<y, x>> \in R <=> y < x
  BY DEF OpToRel
<1> HIDE DEF R
<1>3. \E x \in T : \A y \in T : ~ (<<y, x>> \in R)
  BY <1>1, WFMin
<1>4. PICK x \in T : \A y \in T : ~ (<<y, x>> \in R)
  BY <1>3
<1>5. x \in Nat /\ \A y \in T : y \in Nat
  OBVIOUS
<1>6. \A y \in T : ~ (y < x)
  BY <1>2, <1>4, <1>5
<1>7. \A y \in T : x <= y
  BY <1>5, <1>6
<1> QED
  BY <1>7

(* What holds of zero, and of every number with its predecessor, holds of  *)
(* all numbers up to a bound.                                              *)
LEMMA UpwardInduction ==
  ASSUME NEW n \in Nat, NEW T, 0 \in T, \A k \in 1 .. n : k - 1 \in T => k \in T
  PROVE  \A k \in 0 .. n : k \in T
<1> DEFINE Bad == {k \in 0 .. n : k \notin T}
<1>1. SUFFICES ASSUME Bad # {}
               PROVE  FALSE
  OBVIOUS
<1>2. PICK k \in Bad : \A j \in Bad : k <= j
  <2>1. Bad \in SUBSET Nat
    OBVIOUS
  <2> HIDE DEF Bad
  <2> QED BY <1>1, <2>1, LeastElement
<1>3. k \in 1 .. n /\ k \notin T
  OBVIOUS
<1>4. k - 1 \in 0 .. n /\ ~ (k <= k - 1)
  BY <1>3
<1>5. k - 1 \notin Bad
  <2> HIDE DEF Bad
  <2> QED BY <1>2, <1>4
<1> QED
  BY <1>3, <1>4, <1>5

(* A nonempty set of indices of a sequence has a greatest element. *)
LEMMA GreatestIndex ==
  ASSUME NEW n \in Nat, NEW T \in SUBSET (1 .. n), T # {}
  PROVE  \E x \in T : \A y \in T : y <= x
<1> DEFINE U == {n - y : y \in T}
<1>1. U \in SUBSET Nat /\ U # {}
  <2>1. \A y \in T : y \in 1 .. n
    OBVIOUS
  <2>2. \A y \in T : n - y \in Nat
    BY <2>1
  <2>3. PICK y \in T : TRUE
    OBVIOUS
  <2>4. n - y \in U
    BY <2>3
  <2> QED
    BY <2>2, <2>4
<1>2. PICK u \in U : \A v \in U : u <= v
  BY <1>1, LeastElement
<1>3. PICK x \in T : u = n - x
  BY <1>2
<1>4. \A y \in T : n - x <= n - y
  BY <1>2, <1>3
<1>5. \A y \in T : y <= x
  BY <1>4
<1> QED
  BY <1>5

(* A nonempty family of subsets of a finite set has a minimal member. *)
LEMMA MinimalSubset ==
  ASSUME NEW S, IsFiniteSet(S), NEW Family \in SUBSET SUBSET S, Family # {}
  PROVE  \E s \in Family : \A r \in SUBSET s : r # s => r \notin Family
<1> DEFINE Sizes == {Cardinality(s) : s \in Family}
<1>1. \A s \in Family : IsFiniteSet(s) /\ Cardinality(s) \in Nat
  BY FS_Subset, FS_CardinalityType
<1>2. Sizes \in SUBSET Nat /\ Sizes # {}
  BY <1>1
<1>3. PICK n \in Sizes : \A m \in Sizes : n <= m
  <2> HIDE DEF Sizes
  <2> QED BY <1>2, LeastElement
<1>4. PICK s \in Family : n = Cardinality(s)
  OBVIOUS
<1>5. ASSUME NEW r \in SUBSET s, r # s
      PROVE  r \notin Family
  <2>1. Cardinality(r) <= Cardinality(s) /\ Cardinality(r) # Cardinality(s)
    BY <1>1, <1>5, FS_Subset
  <2>2. Cardinality(r) \in Nat
    BY <1>1, FS_Subset, FS_CardinalityType
  <2>3. SUFFICES ASSUME r \in Family
                 PROVE  FALSE
    OBVIOUS
  <2>4. Cardinality(s) <= Cardinality(r)
    BY <1>3, <1>4, <2>3
  <2> QED
    BY <1>1, <2>1, <2>2, <2>4
<1> QED
  BY <1>5

-----------------------------------------------------------------------------
(* Sums over finite sets: SumFunctionOnSet of module Functions. *)

Picked(s) == CHOOSE x \in s : TRUE

(* The table of partial sums that SumFunctionOnSet looks its result up in. *)
SumTable(f, S, table) ==
  table = [s \in SUBSET S |-> IF s = {} THEN 0 ELSE f[Picked(s)] + table[s \ {Picked(s)}]]

LEMMA SumIsInTable ==
  ASSUME NEW f, NEW S
  PROVE  SumFunctionOnSet(f, S) = (CHOOSE table : SumTable(f, S, table))[S]
BY DEF SumFunctionOnSet, FoldFunctionOnSet, MapThenFoldSet, SumTable, Picked

LEMMA PickedIsElement ==
  ASSUME NEW s, s # {}
  PROVE  Picked(s) \in s
BY DEF Picked

(* There is such a table: a partial one, for the subsets whose members are  *)
(* all in a family, can always be extended by a subset.                     *)
LEMMA SumTableExists ==
  ASSUME NEW f, NEW S, IsFiniteSet(S)
  PROVE  \E table : SumTable(f, S, table)
<1> DEFINE Next(table) ==
             [s \in SUBSET S |-> IF s = {} THEN 0 ELSE f[Picked(s)] + table[s \ {Picked(s)}]]
           Upto(n, table) ==
             \A s \in SUBSET S : Cardinality(s) <= n => table[s] = Next(table)[s]
           Bad == {n \in Nat : ~ \E table : Upto(n, table)}
<1>1. \A s \in SUBSET S : Cardinality(s) \in Nat /\ (Cardinality(s) = 0 <=> s = {})
  BY FS_Subset, FS_CardinalityType, FS_EmptySet
<1>2. ASSUME NEW s \in SUBSET S, s # {}
      PROVE  /\ s \ {Picked(s)} \in SUBSET S
             /\ Cardinality(s \ {Picked(s)}) = Cardinality(s) - 1
  BY <1>2, PickedIsElement, FS_Subset, FS_RemoveElement
<1>3. Bad = {}
  <2> SUFFICES ASSUME Bad # {}
               PROVE  FALSE
    OBVIOUS
  <2>1. PICK n \in Bad : \A m \in Bad : n <= m
    <3>1. Bad \in SUBSET Nat
      OBVIOUS
    <3> HIDE DEF Bad
    <3> QED BY <3>1, LeastElement
  <2>2. CASE n = 0
    <3> DEFINE zero == [s \in SUBSET S |-> 0]
    <3>1. Upto(0, zero)
      <4> SUFFICES ASSUME NEW s \in SUBSET S, Cardinality(s) <= 0
                   PROVE  zero[s] = Next(zero)[s]
        OBVIOUS
      <4>1. s = {}
        BY <1>1
      <4> QED
        BY <4>1
    <3> HIDE DEF Upto, zero
    <3> QED
      BY <2>2, <3>1
  <2>3. CASE n # 0
    <3>1. n - 1 \in Nat /\ n - 1 \notin Bad
      <4>1. n \in Nat
        OBVIOUS
      <4> HIDE DEF Bad
      <4> QED BY <2>1, <2>3, <4>1
    <3>2. PICK table : Upto(n - 1, table)
      <4> HIDE DEF Upto
      <4> QED BY <3>1
    <3> DEFINE next == Next(table)
    <3>3. Upto(n, next)
      <4> SUFFICES ASSUME NEW s \in SUBSET S, Cardinality(s) <= n
                   PROVE  next[s] = Next(next)[s]
        OBVIOUS
      <4>1. CASE s = {}
        BY <4>1
      <4>2. CASE s # {}
        <5> DEFINE r == s \ {Picked(s)}
        <5>1. r \in SUBSET S /\ Cardinality(r) <= n - 1
          BY <1>1, <1>2, <4>2
        <5>2. table[r] = next[r]
          BY <3>2, <5>1
        <5>3. next[s] = f[Picked(s)] + table[r] /\ Next(next)[s] = f[Picked(s)] + next[r]
          BY <4>2
        <5> QED
          BY <5>2, <5>3
      <4> QED
        BY <4>1, <4>2
    <3> HIDE DEF Upto, next
    <3> QED
      BY <3>3
  <2> QED
    BY <2>2, <2>3
<1>4. PICK table : Upto(Cardinality(S), table)
  <2>1. Cardinality(S) \in Nat
    BY FS_CardinalityType
  <2> HIDE DEF Upto
  <2> QED BY <1>3, <2>1
<1>5. \A s \in SUBSET S : table[s] = Next(table)[s]
  <2>1. \A s \in SUBSET S : Cardinality(s) <= Cardinality(S)
    BY FS_Subset
  <2> QED
    BY <1>4, <2>1
<1> DEFINE whole == [s \in SUBSET S |-> table[s]]
<1>6. SumTable(f, S, whole)
  <2>1. ASSUME NEW s \in SUBSET S
        PROVE  whole[s] = IF s = {} THEN 0 ELSE f[Picked(s)] + whole[s \ {Picked(s)}]
    BY <1>5
  <2> QED
    BY <2>1 DEF SumTable
<1> QED
  BY <1>6

(* Two such tables agree on common subsets where the functions do. *)
LEMMA SumTablesAgree ==
  ASSUME NEW f, NEW S, NEW table, SumTable(f, S, table),
         NEW g, NEW T, NEW other, SumTable(g, T, other),
         IsFiniteSet(S), NEW s \in SUBSET S, s \in SUBSET T, \A x \in s : f[x] = g[x]
  PROVE  table[s] = other[s]
<1> DEFINE Bad == {r \in SUBSET s : table[r] # other[r]}
<1>1. SUFFICES Bad = {}
  OBVIOUS
<1>2. SUFFICES ASSUME Bad # {}
               PROVE  FALSE
  OBVIOUS
<1>3. PICK r \in Bad : \A q \in SUBSET r : q # r => q \notin Bad
  <2>1. Bad \in SUBSET SUBSET S
    OBVIOUS
  <2> HIDE DEF Bad
  <2> QED BY <1>2, <2>1, MinimalSubset
<1>4. r \in SUBSET S /\ r \in SUBSET T /\ table[r] # other[r]
  OBVIOUS
<1>5. /\ table[r] = IF r = {} THEN 0 ELSE f[Picked(r)] + table[r \ {Picked(r)}]
      /\ other[r] = IF r = {} THEN 0 ELSE g[Picked(r)] + other[r \ {Picked(r)}]
  BY <1>4 DEF SumTable
<1>6. r # {}
  BY <1>4, <1>5
<1>7. Picked(r) \in r /\ f[Picked(r)] = g[Picked(r)]
  BY <1>6, PickedIsElement
<1>8. table[r \ {Picked(r)}] = other[r \ {Picked(r)}]
  <2>1. r \ {Picked(r)} \in SUBSET r /\ r \ {Picked(r)} # r /\ r \ {Picked(r)} \in SUBSET s
    BY <1>7
  <2>2. r \ {Picked(r)} \notin Bad
    <3> HIDE DEF Bad
    <3> QED BY <1>3, <2>1
  <2> QED
    BY <2>1, <2>2
<1> QED
  BY <1>4, <1>5, <1>7, <1>8

(* The sum of a finite set is that of one of its elements and the others. *)
LEMMA SumStep ==
  ASSUME NEW f, NEW S, IsFiniteSet(S)
  PROVE  SumFunctionOnSet(f, S)
           = IF S = {} THEN 0 ELSE f[Picked(S)] + SumFunctionOnSet(f, S \ {Picked(S)})
<1> DEFINE R == S \ {Picked(S)}
           table == CHOOSE t : SumTable(f, S, t)
           other == CHOOSE t : SumTable(f, R, t)
<1>1. SumTable(f, S, table)
  BY SumTableExists
<1>2. IsFiniteSet(R)
  BY FS_Subset
<1>3. SumTable(f, R, other)
  <2>1. \E t : SumTable(f, R, t)
    BY <1>2, SumTableExists
  <2> QED
    BY <2>1
<1>4. SumFunctionOnSet(f, S) = table[S] /\ SumFunctionOnSet(f, R) = other[R]
  BY SumIsInTable
<1> HIDE DEF table, other
<1>5. table[S] = IF S = {} THEN 0 ELSE f[Picked(S)] + table[R]
  BY <1>1 DEF SumTable
<1>6. table[R] = other[R]
  <2>1. R \in SUBSET S /\ R \in SUBSET R /\ \A x \in R : f[x] = f[x]
    OBVIOUS
  <2> HIDE DEF R
  <2> QED BY <1>1, <1>3, <2>1, SumTablesAgree
<1> QED
  BY <1>4, <1>5, <1>6

(* Sums depend on the values in the set alone. *)
LEMMA SumEqual ==
  ASSUME NEW f, NEW g, NEW S, IsFiniteSet(S), \A x \in S : f[x] = g[x]
  PROVE  SumFunctionOnSet(f, S) = SumFunctionOnSet(g, S)
<1> DEFINE table == CHOOSE t : SumTable(f, S, t)
           other == CHOOSE t : SumTable(g, S, t)
<1>1. SumTable(f, S, table) /\ SumTable(g, S, other)
  BY SumTableExists
<1>2. SumFunctionOnSet(f, S) = table[S] /\ SumFunctionOnSet(g, S) = other[S]
  BY SumIsInTable
<1> HIDE DEF table, other
<1>3. table[S] = other[S]
  BY <1>1, SumTablesAgree
<1> QED
  BY <1>2, <1>3

LEMMA SumEmpty ==
  ASSUME NEW f
  PROVE  SumFunctionOnSet(f, {}) = 0
BY SumStep, FS_EmptySet

(* A sum of integers is an integer. *)
LEMMA SumType ==
  ASSUME NEW f, NEW S, IsFiniteSet(S), \A x \in S : f[x] \in Int
  PROVE  SumFunctionOnSet(f, S) \in Int
<1> DEFINE Bad == {r \in SUBSET S : SumFunctionOnSet(f, r) \notin Int}
<1>1. SUFFICES ASSUME Bad # {}
               PROVE  FALSE
  OBVIOUS
<1>2. PICK r \in Bad : \A q \in SUBSET r : q # r => q \notin Bad
  <2>1. Bad \in SUBSET SUBSET S
    OBVIOUS
  <2> HIDE DEF Bad
  <2> QED BY <1>1, <2>1, MinimalSubset
<1> DEFINE q == r \ {Picked(r)}
<1>3. r \in SUBSET S /\ IsFiniteSet(r) /\ SumFunctionOnSet(f, r) \notin Int
  BY FS_Subset
<1>4. r # {}
  BY <1>3, SumEmpty
<1>5. Picked(r) \in r /\ f[Picked(r)] \in Int
  BY <1>3, <1>4, PickedIsElement
<1>6. SumFunctionOnSet(f, q) \in Int
  <2>1. q \in SUBSET r /\ q # r /\ q \in SUBSET S
    BY <1>3, <1>5
  <2>2. q \notin Bad
    <3> HIDE DEF Bad, q
    <3> QED BY <1>2, <2>1
  <2> QED
    BY <2>1, <2>2
<1>7. SumFunctionOnSet(f, r) = f[Picked(r)] + SumFunctionOnSet(f, q)
  BY <1>3, <1>4, SumStep
<1> QED
  BY <1>3, <1>5, <1>6, <1>7

(* It makes no difference which element is taken out of a sum. *)
LEMMA SumTakeOut ==
  ASSUME NEW f, NEW S, IsFiniteSet(S), \A x \in S : f[x] \in Int, NEW a \in S
  PROVE  SumFunctionOnSet(f, S) = f[a] + SumFunctionOnSet(f, S \ {a})
<1> DEFINE Sum(s) == SumFunctionOnSet(f, s)
           Bad == {r \in SUBSET S : \E x \in r : Sum(r) # f[x] + Sum(r \ {x})}
<1>1. SUFFICES ASSUME Bad # {}
               PROVE  FALSE
  OBVIOUS
<1>2. PICK r \in Bad : \A q \in SUBSET r : q # r => q \notin Bad
  <2>1. Bad \in SUBSET SUBSET S
    OBVIOUS
  <2> HIDE DEF Bad
  <2> QED BY <1>1, <2>1, MinimalSubset
<1>3. PICK x \in r : Sum(r) # f[x] + Sum(r \ {x})
  OBVIOUS
<1> DEFINE y == Picked(r)
<1>4. r \in SUBSET S /\ IsFiniteSet(r) /\ y \in r /\ x \in S /\ y \in S
  BY PickedIsElement, FS_Subset
<1>5. Sum(r) = f[y] + Sum(r \ {y})
  BY <1>4, SumStep
<1>6. x # y
  BY <1>3, <1>5
<1>7. Sum(r \ {y}) = f[x] + Sum((r \ {y}) \ {x})
  <2>1. r \ {y} \in SUBSET r /\ r \ {y} # r /\ r \ {y} \in SUBSET S /\ x \in r \ {y}
    BY <1>4, <1>6
  <2>2. r \ {y} \notin Bad
    <3> HIDE DEF Bad, y
    <3> QED BY <1>2, <2>1
  <2> QED
    BY <2>1, <2>2
<1>8. Sum(r \ {x}) = f[y] + Sum((r \ {x}) \ {y})
  <2>1. r \ {x} \in SUBSET r /\ r \ {x} # r /\ r \ {x} \in SUBSET S /\ y \in r \ {x}
    BY <1>4, <1>6
  <2>2. r \ {x} \notin Bad
    <3> HIDE DEF Bad, y
    <3> QED BY <1>2, <2>1
  <2> QED
    BY <2>1, <2>2
<1>9. (r \ {x}) \ {y} = (r \ {y}) \ {x}
  OBVIOUS
<1>10. f[x] \in Int /\ f[y] \in Int /\ Sum((r \ {x}) \ {y}) \in Int
  <2>1. IsFiniteSet((r \ {x}) \ {y}) /\ (r \ {x}) \ {y} \in SUBSET S
    BY <1>4, FS_Subset
  <2> QED
    BY <1>4, <2>1, SumType
<1>11. Sum(r) = f[x] + Sum(r \ {x})
  <2> HIDE DEF Sum, y
  <2> QED BY <1>5, <1>7, <1>8, <1>9, <1>10
<1> QED
  BY <1>3, <1>11

(* A sum of naturals is a natural, and no less than any of them. *)
LEMMA SumNat ==
  ASSUME NEW f, NEW S, IsFiniteSet(S), \A x \in S : f[x] \in Nat
  PROVE  /\ SumFunctionOnSet(f, S) \in Nat
         /\ \A x \in S : f[x] <= SumFunctionOnSet(f, S)
<1> DEFINE Sum(s) == SumFunctionOnSet(f, s)
           Bad == {r \in SUBSET S : Sum(r) \notin Nat}
<1>1. Bad = {}
  <2>1. SUFFICES ASSUME Bad # {}
                 PROVE  FALSE
    OBVIOUS
  <2>2. PICK r \in Bad : \A q \in SUBSET r : q # r => q \notin Bad
    <3>1. Bad \in SUBSET SUBSET S
      OBVIOUS
    <3> HIDE DEF Bad
    <3> QED BY <2>1, <3>1, MinimalSubset
  <2>3. r \in SUBSET S /\ IsFiniteSet(r) /\ Sum(r) \notin Nat
    BY FS_Subset
  <2>4. PICK a : a \in r
    BY <2>3, SumEmpty
  <2>5. Sum(r) = f[a] + Sum(r \ {a})
    BY <2>3, <2>4, SumTakeOut
  <2>6. Sum(r \ {a}) \in Nat
    <3>1. r \ {a} \in SUBSET r /\ r \ {a} # r /\ r \ {a} \in SUBSET S
      BY <2>3, <2>4
    <3>2. r \ {a} \notin Bad
      <4> HIDE DEF Bad
      <4> QED BY <2>2, <3>1
    <3> QED
      BY <3>1, <3>2
  <2>7. f[a] \in Nat
    BY <2>3, <2>4
  <2> QED
    <3> HIDE DEF Sum, Bad
    <3> QED BY <2>3, <2>5, <2>6, <2>7
<1>2. \A s \in SUBSET S : Sum(s) \in Nat
  BY <1>1
<1>3. ASSUME NEW x \in S
      PROVE  f[x] <= Sum(S)
  <2>1. Sum(S) = f[x] + Sum(S \ {x})
    BY SumTakeOut
  <2>2. Sum(S \ {x}) \in Nat /\ f[x] \in Nat
    BY <1>2
  <2> HIDE DEF Sum
  <2> QED
    BY <2>1, <2>2
<1> QED
  BY <1>2, <1>3

(* One more element adds its value. *)
LEMMA SumAdd ==
  ASSUME NEW f, NEW S, IsFiniteSet(S), NEW a, a \notin S,
         \A x \in S \cup {a} : f[x] \in Int
  PROVE  SumFunctionOnSet(f, S \cup {a}) = SumFunctionOnSet(f, S) + f[a]
<1>1. IsFiniteSet(S \cup {a}) /\ (S \cup {a}) \ {a} = S
  BY FS_AddElement
<1>2. SumFunctionOnSet(f, S \cup {a}) = f[a] + SumFunctionOnSet(f, S)
  BY <1>1, SumTakeOut
<1> QED
  BY <1>1, <1>2, SumType

(* Elements of value zero do not count. *)
LEMMA SumOfNonzero ==
  ASSUME NEW f, NEW S, IsFiniteSet(S), \A x \in S : f[x] \in Int,
         NEW T \in SUBSET S, \A x \in S \ T : f[x] = 0
  PROVE  SumFunctionOnSet(f, S) = SumFunctionOnSet(f, T)
<1> DEFINE Sum(s) == SumFunctionOnSet(f, s)
           Bad == {r \in SUBSET S : T \subseteq r /\ Sum(r) # Sum(T)}
<1>1. SUFFICES ASSUME Bad # {}
               PROVE  FALSE
  OBVIOUS
<1>2. PICK r \in Bad : \A q \in SUBSET r : q # r => q \notin Bad
  <2>1. Bad \in SUBSET SUBSET S
    OBVIOUS
  <2> HIDE DEF Bad
  <2> QED BY <1>1, <2>1, MinimalSubset
<1>3. PICK a \in r : a \notin T
  OBVIOUS
<1>4. r \in SUBSET S /\ IsFiniteSet(r) /\ f[a] = 0
  BY <1>3, FS_Subset
<1>5. Sum(r) = f[a] + Sum(r \ {a})
  BY <1>4, SumTakeOut
<1>6. Sum(r \ {a}) = Sum(T)
  <2>1. r \ {a} \in SUBSET r /\ r \ {a} # r /\ r \ {a} \in SUBSET S /\ T \subseteq r \ {a}
    BY <1>3, <1>4
  <2>2. r \ {a} \notin Bad
    <3> HIDE DEF Bad
    <3> QED BY <1>2, <2>1
  <2> QED
    BY <2>1, <2>2
<1>7. Sum(T) \in Int
  BY SumType, FS_Subset
<1>8. Sum(r) # Sum(T)
  OBVIOUS
<1> QED
  <2> HIDE DEF Sum, Bad
  <2> QED BY <1>4, <1>5, <1>6, <1>7, <1>8

(* The sum of two disjoint sets is the sum of theirs. *)
LEMMA SumUnion ==
  ASSUME NEW f, NEW S, IsFiniteSet(S), NEW T, IsFiniteSet(T), S \cap T = {},
         \A x \in S \cup T : f[x] \in Int
  PROVE  SumFunctionOnSet(f, S \cup T) = SumFunctionOnSet(f, S) + SumFunctionOnSet(f, T)
<1> DEFINE Sum(s) == SumFunctionOnSet(f, s)
           Bad == {r \in SUBSET T : Sum(S \cup r) # Sum(S) + Sum(r)}
<1>1. SUFFICES ASSUME Bad # {}
               PROVE  FALSE
  OBVIOUS
<1>2. PICK r \in Bad : \A q \in SUBSET r : q # r => q \notin Bad
  <2>1. Bad \in SUBSET SUBSET T
    OBVIOUS
  <2> HIDE DEF Bad
  <2> QED BY <1>1, <2>1, MinimalSubset
<1>3. r \in SUBSET T /\ IsFiniteSet(r) /\ Sum(S \cup r) # Sum(S) + Sum(r)
  BY FS_Subset
<1>4. Sum(S) \in Int
  BY SumType
<1>5. r # {}
  <2>1. SUFFICES ASSUME r = {}
                 PROVE  Sum(S \cup r) = Sum(S) + Sum(r)
    BY <1>3
  <2>2. S \cup r = S
    BY <2>1
  <2>3. Sum(r) = 0
    BY <2>1, SumEmpty
  <2> HIDE DEF Sum
  <2> QED BY <1>4, <2>2, <2>3
<1>6. PICK a : a \in r
  BY <1>5
<1> DEFINE q == r \ {a}
<1>7. q \in SUBSET T /\ IsFiniteSet(q) /\ q \in SUBSET r /\ q # r /\ a \notin q /\ q \cup {a} = r
  BY <1>3, <1>6, FS_Subset
<1>8. Sum(S \cup q) = Sum(S) + Sum(q)
  <2>1. q \notin Bad
    <3> HIDE DEF Bad, q
    <3> QED BY <1>2, <1>7
  <2> QED
    BY <1>7, <2>1
<1>9. Sum(r) = Sum(q) + f[a]
  <2>1. \A x \in q \cup {a} : f[x] \in Int
    BY <1>3, <1>7
  <2> HIDE DEF q
  <2> QED BY <1>7, <2>1, SumAdd
<1>10. Sum(S \cup r) = Sum(S \cup q) + f[a]
  <2>1. /\ IsFiniteSet(S \cup q)
        /\ a \notin S \cup q
        /\ (S \cup q) \cup {a} = S \cup r
        /\ \A x \in (S \cup q) \cup {a} : f[x] \in Int
    BY <1>3, <1>6, <1>7, FS_Union
  <2> HIDE DEF q
  <2> QED BY <2>1, SumAdd
<1>11. Sum(q) \in Int /\ f[a] \in Int
  BY <1>3, <1>6, <1>7, SumType
<1> QED
  <2> HIDE DEF Sum, q, Bad
  <2> QED BY <1>3, <1>4, <1>8, <1>9, <1>10, <1>11

(* A sum over indices is that over what distinct indices stand for. *)
LEMMA SumReindex ==
  ASSUME NEW f, NEW I, IsFiniteSet(I), NEW J, NEW h \in Bijection(I, J),
         NEW g, \A i \in I : g[i] \in Int, \A i \in I : g[i] = f[h[i]]
  PROVE  SumFunctionOnSet(g, I) = SumFunctionOnSet(f, J)
<1> DEFINE Image(s) == {h[i] : i \in s}
           Bad == {r \in SUBSET I :
                     ~ /\ IsFiniteSet(Image(r))
                       /\ SumFunctionOnSet(g, r) = SumFunctionOnSet(f, Image(r))}
<1>0. J = Image(I) /\ \A i, j \in I : h[i] = h[j] => i = j
  BY DEF Bijection, Injection, Surjection, IsInjective
<1>1. SUFFICES ASSUME Bad # {}
               PROVE  FALSE
  BY <1>0
<1>2. PICK r \in Bad : \A q \in SUBSET r : q # r => q \notin Bad
  <2>1. Bad \in SUBSET SUBSET I
    OBVIOUS
  <2> HIDE DEF Bad
  <2> QED BY <1>1, <2>1, MinimalSubset
<1>3. /\ r \in SUBSET I /\ IsFiniteSet(r)
      /\ ~ /\ IsFiniteSet(Image(r))
            /\ SumFunctionOnSet(g, r) = SumFunctionOnSet(f, Image(r))
  BY FS_Subset
<1>4. r # {}
  <2>1. SUFFICES ASSUME r = {}
                 PROVE  /\ IsFiniteSet(Image(r))
                        /\ SumFunctionOnSet(g, r) = SumFunctionOnSet(f, Image(r))
    BY <1>3
  <2>2. Image(r) = {}
    BY <2>1
  <2> HIDE DEF Image
  <2> QED BY <2>1, <2>2, SumEmpty, FS_EmptySet
<1>5. PICK a : a \in r
  BY <1>4
<1> DEFINE q == r \ {a}
<1>6. q \in SUBSET I /\ IsFiniteSet(q) /\ q \in SUBSET r /\ q # r /\ a \notin q /\ q \cup {a} = r
  BY <1>3, <1>5, FS_Subset
<1>7. IsFiniteSet(Image(q)) /\ SumFunctionOnSet(g, q) = SumFunctionOnSet(f, Image(q))
  <2>1. q \notin Bad
    <3> HIDE DEF Bad, q
    <3> QED BY <1>2, <1>6
  <2> QED
    BY <1>6, <2>1
<1>8. SumFunctionOnSet(g, r) = SumFunctionOnSet(g, q) + g[a]
  <2>1. \A x \in q \cup {a} : g[x] \in Int
    BY <1>3, <1>6
  <2> HIDE DEF q
  <2> QED BY <1>6, <2>1, SumAdd
<1>9. /\ IsFiniteSet(Image(r))
      /\ SumFunctionOnSet(f, Image(r)) = SumFunctionOnSet(f, Image(q)) + f[h[a]]
  <2>1. Image(r) = Image(q) \cup {h[a]}
    BY <1>5
  <2>2. h[a] \notin Image(q)
    BY <1>0, <1>3, <1>5
  <2>3. \A x \in Image(q) \cup {h[a]} : f[x] \in Int
    BY <1>3, <1>5
  <2> HIDE DEF Image, q
  <2> QED BY <1>7, <2>1, <2>2, <2>3, SumAdd, FS_AddElement
<1>10. g[a] = f[h[a]]
  BY <1>3, <1>5
<1> QED
  BY <1>3, <1>7, <1>8, <1>9, <1>10

(* A nonempty finite set of integers has a greatest element. *)
LEMMA GreatestElement ==
  ASSUME NEW T \in SUBSET Int, T # {}, IsFiniteSet(T)
  PROVE  \E x \in T : \A y \in T : y <= x
<1> DEFINE Bounded(r) == \E x \in r : \A y \in r : y <= x
           Bad == {r \in SUBSET T : r # {} /\ ~ Bounded(r)}
<1>1. SUFFICES ASSUME Bad # {}
               PROVE  FALSE
  OBVIOUS
<1>2. PICK r \in Bad : \A q \in SUBSET r : q # r => q \notin Bad
  <2>1. Bad \in SUBSET SUBSET T
    OBVIOUS
  <2> HIDE DEF Bad
  <2> QED BY <1>1, <2>1, MinimalSubset
<1>3. PICK a : a \in r
  OBVIOUS
<1>4. r \ {a} # {}
  BY <1>3
<1>5. r \ {a} \in SUBSET T /\ r \ {a} \in SUBSET r /\ r \ {a} # r
  BY <1>3
<1>6. r \ {a} \notin Bad
  <2> HIDE DEF Bad
  <2> QED BY <1>2, <1>5
<1>7. PICK m \in r \ {a} : \A y \in r \ {a} : y <= m
  BY <1>4, <1>5, <1>6
<1>8. a \in Int /\ m \in Int /\ \A y \in r : y \in Int
  BY <1>3
<1>9. Bounded(r)
  <2>1. CASE a <= m
    BY <1>7, <1>8, <2>1
  <2>2. CASE m <= a
    BY <1>3, <1>7, <1>8, <2>2
  <2> QED
    BY <1>8, <2>1, <2>2
<1> QED
  BY <1>9

-----------------------------------------------------------------------------
(* Products and quotients by a positive number. *)

LEMMA ProductMonotonic ==
  ASSUME NEW a \in Int, NEW b \in Int, NEW c \in Nat, a <= b
  PROVE  a * c <= b * c
<1>1. (b - a) * c >= 0
  OBVIOUS
<1>2. (b - a) * c = b * c - a * c
  OBVIOUS
<1> QED
  BY <1>1, <1>2

LEMMA QuotientAndRemainder ==
  ASSUME NEW t \in Int, NEW c \in Nat \ {0}
  PROVE  t = (t \div c) * c + (t % c) /\ t \div c \in Int
OBVIOUS

LEMMA QuotientBounds ==
  ASSUME NEW t \in Int, NEW c \in Nat \ {0}
  PROVE  /\ t \div c \in Int
         /\ (t \div c) * c <= t
         /\ t < (t \div c + 1) * c
<1>1. t = (t \div c) * c + (t % c) /\ (t % c) \in 0 .. c - 1 /\ t \div c \in Int
  OBVIOUS
<1>2. (t \div c + 1) * c = (t \div c) * c + c
  BY <1>1
<1> QED
  BY <1>1, <1>2

(* A quotient is the number of whole divisors below. *)
LEMMA QuotientAtLeast ==
  ASSUME NEW t \in Int, NEW c \in Nat \ {0}, NEW q \in Int, q * c <= t
  PROVE  q <= t \div c
<1>1. SUFFICES ASSUME t \div c + 1 <= q
               PROVE  FALSE
  BY QuotientBounds
<1>2. (t \div c + 1) * c <= q * c
  BY <1>1, QuotientBounds, ProductMonotonic
<1> QED
  BY <1>2, QuotientBounds

LEMMA QuotientMonotonic ==
  ASSUME NEW s \in Int, NEW t \in Int, NEW c \in Nat \ {0}, s <= t
  PROVE  s \div c <= t \div c
<1>1. (s \div c) * c <= t
  BY QuotientBounds
<1> QED
  BY <1>1, QuotientBounds, QuotientAtLeast

(* Two strictly increasing enumerations of the same numbers are the same.  *)
LEMMA IncreasingUnique ==
  ASSUME NEW n \in Nat, NEW a \in [1 .. n -> Int], NEW b \in [1 .. n -> Int],
         \A i, j \in 1 .. n : i < j => a[i] < a[j],
         \A i, j \in 1 .. n : i < j => b[i] < b[j],
         \A i \in 1 .. n : \E j \in 1 .. n : a[i] = b[j],
         \A i \in 1 .. n : \E j \in 1 .. n : b[i] = a[j]
  PROVE  \A i \in 1 .. n : a[i] = b[i]
<1> DEFINE Bad == {i \in 1 .. n : a[i] # b[i]}
<1> SUFFICES ASSUME Bad # {}
             PROVE  FALSE
  OBVIOUS
<1>1. PICK i \in Bad : \A j \in Bad : i <= j
  <2>1. Bad \in SUBSET Nat
    OBVIOUS
  <2> HIDE DEF Bad
  <2> QED
    BY <2>1, LeastElement
<1>2. i \in 1 .. n /\ a[i] # b[i] /\ i \in Nat
  OBVIOUS
<1>3. ASSUME NEW j \in 1 .. n, j < i
      PROVE  a[j] = b[j]
  BY <1>1, <1>2, <1>3
<1> HIDE DEF Bad
<1>4. CASE a[i] < b[i]
  <2>1. PICK j \in 1 .. n : a[i] = b[j]
    BY <1>2
  <2>2. CASE j < i
    <3>1. a[j] = b[j] /\ a[j] < a[i] /\ a[j] \in Int /\ a[i] \in Int
      BY <1>2, <1>3, <2>2
    <3> QED
      BY <2>1, <3>1
  <2>3. CASE i = j
    BY <1>2, <2>1, <2>3
  <2>4. CASE i < j
    <3>1. b[i] < b[j] /\ b[i] \in Int /\ a[i] \in Int
      BY <1>2, <2>4
    <3>2. b[i] < a[i]
      BY ONLY <2>1, <3>1
    <3> QED
      BY ONLY <1>4, <3>1, <3>2
  <2> QED
    BY <1>2, <2>2, <2>3, <2>4
<1>5. CASE b[i] < a[i]
  <2>1. PICK j \in 1 .. n : b[i] = a[j]
    BY <1>2
  <2>2. CASE j < i
    <3>1. a[j] = b[j] /\ b[j] < b[i] /\ b[j] \in Int /\ b[i] \in Int
      BY <1>2, <1>3, <2>2
    <3> QED
      BY <2>1, <3>1
  <2>3. CASE i = j
    BY <1>2, <2>1, <2>3
  <2>4. CASE i < j
    <3>1. a[i] < a[j] /\ a[i] \in Int /\ b[i] \in Int
      BY <1>2, <2>4
    <3>2. a[i] < b[i]
      BY ONLY <2>1, <3>1
    <3> QED
      BY ONLY <1>5, <3>1, <3>2
  <2> QED
    BY <1>2, <2>2, <2>3, <2>4
<1>6. a[i] \in Int /\ b[i] \in Int
  BY <1>2
<1> QED
  BY <1>2, <1>4, <1>5, <1>6

=============================================================================
