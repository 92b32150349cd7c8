------------------------------ MODULE FoldLemmas ------------------------------
(***************************************************************************)
(* Induction over data.  The provers cannot take an operator as the value  *)
(* of a quantified parameter, but the parameter of a module is replaced    *)
(* before they see it: a proof about a fold instantiates this module with  *)
(* the step of that fold, and is then told of the run of the fold from     *)
(* element to element, over which it can induct.                           *)
(***************************************************************************)
EXTENDS SequencesExt, NumberLemmas

CONSTANT Step(_, _, _)  \* of what else the step needs, a result and an element

(* The folds of the community modules over a sequence and over a set. *)
LeftFold(c, base, seq) == FoldLeft(LAMBDA result, x : Step(c, result, x), base, seq)

SetFold(c, base, set) == FoldSet(LAMBDA x, result : Step(c, result, x), base, set)

-----------------------------------------------------------------------------
(* Both look their result up in a table of partial results, one for every  *)
(* set of positions; the order is that in which `pick' takes them off.     *)

Entry(c, base, value, pick, table, s) ==
  IF s = {} THEN base ELSE Step(c, table[s \ {pick[s]}], value[pick[s]])

Table(c, base, value, pick, S, table) ==
  /\ DOMAIN table = SUBSET S
  /\ \A s \in SUBSET S : table[s] = Entry(c, base, value, pick, table, s)

Picks(pick, S) == \A s \in SUBSET S : s # {} => pick[s] \in s

(* There is such a table: a partial one, for the subsets of a size, can     *)
(* always be extended to the next size.                                     *)
LEMMA TableExists ==
  ASSUME NEW c, NEW base, NEW value, NEW S, IsFiniteSet(S), NEW pick, Picks(pick, S)
  PROVE  \E table : Table(c, base, value, pick, S, table)
<1> DEFINE Next(table) == [s \in SUBSET S |-> Entry(c, base, value, pick, table, s)]
           Upto(n, table) ==
             \A s \in SUBSET S : Cardinality(s) <= n => table[s] = Next(table)[s]
           Bad == {n \in Nat : ~ \E table : Upto(n, table)}
<1>1. \A s \in SUBSET S : Cardinality(s) \in Nat /\ (Cardinality(s) = 0 <=> s = {})
  BY FS_Subset, FS_CardinalityType, FS_EmptySet
<1>2. ASSUME NEW s \in SUBSET S, s # {}
      PROVE  /\ s \ {pick[s]} \in SUBSET S
             /\ Cardinality(s \ {pick[s]}) = Cardinality(s) - 1
  BY <1>2, FS_Subset, FS_RemoveElement DEF Picks
<1>3. Bad = {}
  <2> SUFFICES ASSUME Bad # {}
               PROVE  FALSE
    OBVIOUS
  <2>1. PICK n \in Bad : \A m \in Bad : n <= m
    <3>1. Bad \in SUBSET Nat
      OBVIOUS
    <3> HIDE DEF Bad
    <3> QED BY <3>1, LeastElement
  <2>2. CASE n = 0
    <3> DEFINE first == [s \in SUBSET S |-> base]
    <3>1. Upto(0, first)
      <4> SUFFICES ASSUME NEW s \in SUBSET S, Cardinality(s) <= 0
                   PROVE  first[s] = Next(first)[s]
        OBVIOUS
      <4>1. s = {}
        BY <1>1
      <4> QED
        BY <4>1 DEF Entry
    <3> HIDE DEF Upto, first
    <3> QED
      BY <2>2, <3>1
  <2>3. CASE n # 0
    <3>1. n - 1 \in Nat /\ n - 1 \notin Bad
      <4>1. n \in Nat
        OBVIOUS
      <4> HIDE DEF Bad
      <4> QED BY <2>1, <2>3, <4>1
    <3>2. PICK table : Upto(n - 1, table)
      <4> HIDE DEF Upto
      <4> QED BY <3>1
    <3> DEFINE next == Next(table)
    <3>3. Upto(n, next)
      <4> SUFFICES ASSUME NEW s \in SUBSET S, Cardinality(s) <= n
                   PROVE  next[s] = Next(next)[s]
        OBVIOUS
      <4>1. CASE s = {}
        BY <4>1 DEF Entry
      <4>2. CASE s # {}
        <5> DEFINE r == s \ {pick[s]}
        <5>1. r \in SUBSET S /\ Cardinality(r) <= n - 1
          <6>1. n \in Nat /\ Cardinality(s) \in Nat
            BY <1>1
          <6>2. r \in SUBSET S /\ Cardinality(r) = Cardinality(s) - 1
            BY <1>2, <4>2
          <6> HIDE DEF r
          <6> QED BY <6>1, <6>2
        <5>2. table[r] = next[r]
          BY <3>2, <5>1
        <5>3. /\ next[s] = Step(c, table[r], value[pick[s]])
              /\ Next(next)[s] = Step(c, next[r], value[pick[s]])
          BY <4>2 DEF Entry
        <5> QED
          BY <5>2, <5>3
      <4> QED
        BY <4>1, <4>2
    <3> HIDE DEF Upto, next
    <3> QED
      BY <3>3
  <2> QED
    BY <2>2, <2>3
<1>4. PICK table : Upto(Cardinality(S), table)
  <2>1. Cardinality(S) \in Nat
    BY FS_CardinalityType
  <2> HIDE DEF Upto
  <2> QED BY <1>3, <2>1
<1>5. \A s \in SUBSET S : table[s] = Next(table)[s]
  <2>1. \A s \in SUBSET S : Cardinality(s) <= Cardinality(S)
    BY FS_Subset
  <2> QED
    BY <1>4, <2>1
<1> DEFINE whole == [s \in SUBSET S |-> table[s]]
<1>6. Table(c, base, value, pick, S, whole)
  <2>1. ASSUME NEW s \in SUBSET S
        PROVE  whole[s] = Entry(c, base, value, pick, whole, s)
    <3>1. CASE s = {}
      BY <1>5, <3>1 DEF Entry
    <3>2. CASE s # {}
      <4>1. s \ {pick[s]} \in SUBSET S
        BY <1>2, <3>2
      <4> QED
        BY <1>5, <3>2, <4>1 DEF Entry
    <3> QED
      BY <3>1, <3>2
  <2> QED
    BY <2>1 DEF Table
<1> QED
  BY <1>6

(* A fold over a sequence goes through the results of its prefixes. *)
LeftRun(c, base, seq, n, run) ==
  /\ run[0] = base
  /\ \A k \in 1 .. n : run[k] = Step(c, run[k - 1], seq[k])
  /\ LeftFold(c, base, seq) = run[n]

LEMMA LeftFoldRuns ==
  ASSUME NEW c, NEW base, NEW seq, NEW n \in Nat, DOMAIN seq = 1 .. n
  PROVE  \E run : LeftRun(c, base, seq, n, run)
<1> DEFINE S == 1 .. n
           IsTable(table) == table = [s \in SUBSET S |->
             IF s = {} THEN base ELSE Step(c, table[s \ {Max(s)}], seq[Max(s)])]
           pick == [s \in SUBSET S |-> Max(s)]
           looked == CHOOSE table : IsTable(table)
<1>1. LeftFold(c, base, seq) = looked[S]
  BY DEF LeftFold, FoldLeft, MapThenFoldSet
<1>2. ASSUME NEW s \in SUBSET S, s # {}
      PROVE  Max(s) \in s /\ \A x \in s : Max(s) >= x
  <2>1. PICK m \in s : \A x \in s : x <= m
    BY <1>2, GreatestIndex
  <2>2. \A x \in s : m >= x
    BY <2>1
  <2> QED
    BY <2>1, <2>2 DEF Max
<1>3. IsTable(looked)
  <2>1. Picks(pick, S) /\ IsFiniteSet(S)
    <3>1. \A s \in SUBSET S : s # {} => pick[s] \in s
      BY <1>2
    <3>2. IsFiniteSet(S)
      BY FS_Interval
    <3> QED
      BY <3>1, <3>2 DEF Picks
  <2>2. PICK table : Table(c, base, seq, pick, S, table)
    BY <2>1, TableExists
  <2>3. IsTable([s \in SUBSET S |-> table[s]])
    <3> DEFINE whole == [s \in SUBSET S |-> table[s]]
    <3>1. ASSUME NEW s \in SUBSET S
          PROVE  whole[s] = IF s = {} THEN base ELSE Step(c, whole[s \ {Max(s)}], seq[Max(s)])
      <4>1. s \ {Max(s)} \in SUBSET S /\ pick[s] = Max(s)
        OBVIOUS
      <4> QED
        BY <2>2, <4>1 DEF Table, Entry
    <3> QED
      BY <3>1
  <2> QED
    BY <2>3
<1> DEFINE run == [k \in 0 .. n |-> looked[1 .. k]]
<1>4. ASSUME NEW k \in 1 .. n
      PROVE  /\ Max(1 .. k) = k
             /\ (1 .. k) \ {k} = 1 .. k - 1
             /\ 1 .. k # {} /\ 1 .. k \in SUBSET S
  <2>1. 1 .. k \in SUBSET S /\ k \in 1 .. k
    OBVIOUS
  <2>2. Max(1 .. k) \in 1 .. k /\ Max(1 .. k) >= k
    BY <1>2, <2>1
  <2> QED
    BY <2>1, <2>2
<1>5. run[0] = base
  <2>1. 1 .. 0 = {} /\ {} \in SUBSET S
    OBVIOUS
  <2>2. looked[{}] = base
    BY <1>3, <2>1
  <2> QED
    BY <2>1, <2>2
<1>6. ASSUME NEW k \in 1 .. n
      PROVE  run[k] = Step(c, run[k - 1], seq[k])
  <2>1. looked[1 .. k] = Step(c, looked[(1 .. k) \ {Max(1 .. k)}], seq[Max(1 .. k)])
    BY <1>3, <1>4
  <2>2. run[k] = looked[1 .. k] /\ run[k - 1] = looked[1 .. k - 1]
    OBVIOUS
  <2> QED
    BY <1>4, <2>1, <2>2
<1>7. run[n] = looked[S]
  OBVIOUS
<1> QED
  BY <1>1, <1>5, <1>6, <1>7 DEF LeftRun

(* A fold over a set goes through the results of subsets, each of which    *)
(* adds one element to another.                                            *)
SetRun(c, base, set, run) ==
  /\ run[{}] = base
  /\ \A s \in SUBSET set : s # {} => \E x \in s : run[s] = Step(c, run[s \ {x}], x)
  /\ SetFold(c, base, set) = run[set]

LEMMA SetFoldRuns ==
  ASSUME NEW c, NEW base, NEW set, IsFiniteSet(set)
  PROVE  \E run : SetRun(c, base, set, run)
<1> DEFINE IsTable(table) == table = [s \in SUBSET set |->
             IF s = {} THEN base
             ELSE Step(c, table[s \ {CHOOSE x \in s : TRUE}], CHOOSE x \in s : TRUE)]
           pick == [s \in SUBSET set |-> CHOOSE x \in s : TRUE]
           value == [x \in set |-> x]
           looked == CHOOSE table : IsTable(table)
<1>1. SetFold(c, base, set) = looked[set]
  BY DEF SetFold, FoldSet, MapThenFoldSet
<1>2. IsTable(looked)
  <2>1. Picks(pick, set)
    BY DEF Picks
  <2>2. PICK table : Table(c, base, value, pick, set, table)
    BY <2>1, TableExists
  <2>3. IsTable([s \in SUBSET set |-> table[s]])
    <3> DEFINE whole == [s \in SUBSET set |-> table[s]]
    <3>1. ASSUME NEW s \in SUBSET set
          PROVE  whole[s] = IF s = {} THEN base
                            ELSE Step(c, whole[s \ {CHOOSE x \in s : TRUE}], CHOOSE x \in s : TRUE)
      <4>1. s \ {pick[s]} \in SUBSET set /\ pick[s] = CHOOSE x \in s : TRUE
        OBVIOUS
      <4>2. s # {} => value[pick[s]] = pick[s]
        BY <2>1 DEF Picks
      <4> QED
        BY <2>2, <4>1, <4>2 DEF Table, Entry
    <3> QED
      BY <3>1
  <2> QED
    BY <2>3
<1>3. looked[{}] = base
  BY <1>2
<1>4. ASSUME NEW s \in SUBSET set, s # {}
      PROVE  \E x \in s : looked[s] = Step(c, looked[s \ {x}], x)
  <2>1. (CHOOSE x \in s : TRUE) \in s
    BY <1>4
  <2>2. looked[s] = Step(c, looked[s \ {CHOOSE x \in s : TRUE}], CHOOSE x \in s : TRUE)
    BY <1>2, <1>4
  <2> QED
    BY <2>1, <2>2
<1> HIDE DEF looked
<1> QED
  BY <1>1, <1>3, <1>4 DEF SetRun

=============================================================================
