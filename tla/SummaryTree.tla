------------------------------ MODULE SummaryTree ------------------------------
(***************************************************************************)
(* The circular history of transformers/history.rs and the summaries kept  *)
(* in it by statistics.rs, trajectory.rs and path_signature.rs.            *)
(*                                                                         *)
(* The slots of the history are the leaves of a flat binary tree, whose    *)
(* inner nodes hold the summary of the leaves below them.  Merging is not  *)
(* commutative: the newest values may wrap around the last leaf, and then  *)
(* the older ones are to its right.  Arithmetic is exact, in units of      *)
(* 1/Scale for means and 1/Scale^2 for second moments.                     *)
(***************************************************************************)
EXTENDS Integers, FiniteSetsExt, SequencesExt

CONSTANT Scale  \* a multiple of every number of values merged

(* The default summary, of no value at all. *)
Empty == [count |-> 0]

MergeNonempty(a, b, Both(_, _)) ==
  IF a.count = 0 THEN b ELSE IF b.count = 0 THEN a ELSE Both(a, b)

-----------------------------------------------------------------------------
(* Statistics: the mean is relative to the first value, the origin. *)

StatisticsOf(value) ==
  [count |-> 1, origin |-> value, mean |-> 0, m2 |-> 0, min |-> value, max |-> value]

MergeStatistics(x, y) ==
  MergeNonempty(x, y, LAMBDA a, b :
    LET count == a.count + b.count
        delta == Scale * (b.origin - a.origin) + (b.mean - a.mean)
    IN  [count  |-> count,
         origin |-> a.origin,
         mean   |-> a.mean + (delta * b.count) \div count,
         m2     |-> a.m2 + b.m2 + (delta * delta * a.count * b.count) \div count,
         min    |-> Min({a.min, b.min}),
         max    |-> Max({a.max, b.max})])

(* statistic; a deviation by its square, <<m2, count>>. *)
Statistic(summary, kind) ==
  IF summary.count = 0 THEN <<>>
  ELSE CASE kind = "Std"   -> <<summary.m2, summary.count>>
         [] kind = "Min"   -> <<summary.min>>
         [] kind = "Max"   -> <<summary.max>>
         [] kind = "Range" -> <<summary.max - summary.min>>

-----------------------------------------------------------------------------
(* Trajectories.  Twice the covariance with the sample index is kept. *)

TrajectoryOf(value) ==
  [count |-> 1, first |-> value, last |-> value, min |-> value, max |-> value, mean |-> 0,
   covariance |-> 0, positive |-> 0, negative |-> 0, drawdown |-> 0, changes |-> 0,
   firstDirection |-> 0, lastDirection |-> 0]

DirectionOf(delta) == IF delta > 0 THEN 1 ELSE IF delta < 0 THEN -1 ELSE 0

Reversal(left, right) == IF left # 0 /\ right # 0 /\ left # right THEN 1 ELSE 0

FirstNonzero(a, b, c) == IF a # 0 THEN a ELSE IF b # 0 THEN b ELSE c

(* The reversals where two segments meet; one that does not move is skipped. *)
BoundaryChanges(a, direction, b) ==
  IF direction = 0 THEN Reversal(a.lastDirection, b.firstDirection)
  ELSE Reversal(a.lastDirection, direction) + Reversal(direction, b.firstDirection)

MergeTrajectories(x, y) ==
  MergeNonempty(x, y, LAMBDA a, b :
    LET delta     == b.first - a.last
        direction == DirectionOf(delta)
        count     == a.count + b.count
        meanDelta == Scale * (b.first - a.first) + (b.mean - a.mean)
    IN  [count |-> count, first |-> a.first, last |-> b.last,
         min |-> Min({a.min, b.min}), max |-> Max({a.max, b.max}),
         mean |-> a.mean + (meanDelta * b.count) \div count,
         covariance |-> a.covariance + b.covariance + meanDelta * a.count * b.count,
         positive |-> a.positive + b.positive + Max({delta, 0}),
         negative |-> a.negative + b.negative + Max({-delta, 0}),
         drawdown |-> Max({a.drawdown, b.drawdown, a.max - b.min}),
         changes |-> a.changes + b.changes + BoundaryChanges(a, direction, b),
         firstDirection |-> FirstNonzero(a.firstDirection, direction, b.firstDirection),
         lastDirection |-> FirstNonzero(b.lastDirection, direction, a.lastDirection)])

(* measurement; a slope by <<covariance, count>>. *)
Measurement(summary, kind) ==
  IF summary.count = 0 \/ (kind = "Slope" /\ summary.count < 2) THEN <<>>
  ELSE CASE kind = "Slope"                -> <<summary.covariance, summary.count>>
         [] kind = "PathLength"           -> <<summary.positive + summary.negative>>
         [] kind = "PositiveMovement"     -> <<summary.positive>>
         [] kind = "NegativeMovement"     -> <<summary.negative>>
         [] kind = "DirectionChangeCount" -> <<summary.changes>>
         [] kind = "MaxDrawdown"          -> <<summary.drawdown>>

-----------------------------------------------------------------------------
(* Path signatures: level one, and twice level two. *)

Segment(delta) ==
  [one |-> delta, two |-> [i \in 1 .. 2 |-> [j \in 1 .. 2 |-> delta[i] * delta[j]]]]

(* Chen's identity. *)
Then(s, t) ==
  [one |-> [i \in 1 .. 2 |-> s.one[i] + t.one[i]],
   two |-> [i \in 1 .. 2 |->
              [j \in 1 .. 2 |-> s.two[i][j] + 2 * s.one[i] * t.one[j] + t.two[i][j]]]]

SignatureOf(value) ==
  [count |-> 1, first |-> value, last |-> value, signature |-> Segment(<<0, 0>>)]

MergeSignatures(x, y) ==
  MergeNonempty(x, y, LAMBDA a, b :
    [count |-> a.count + b.count, first |-> a.first, last |-> b.last,
     signature |-> Then(Then(a.signature, Segment(<<1, b.first - a.last>>)), b.signature)])

(* coordinates, before time is scaled to one by the number of steps. *)
Coordinates(summary) ==
  LET change == summary.last - summary.first
      s      == summary.signature
  IN  <<s.one[1], change, s.two[1][1], s.two[1][2], s.two[2][1], change * change>>

-----------------------------------------------------------------------------
(* The tree, of one kind of summaries. *)

Merge(kind, a, b) ==
  CASE kind = "Statistics" -> MergeStatistics(a, b)
    [] kind = "Trajectory" -> MergeTrajectories(a, b)
    [] kind = "Signature"  -> MergeSignatures(a, b)

NextPowerOfTwo(n) == Min({2 ^ k : k \in {j \in 0 .. n : 2 ^ j >= n}})

NewHistory(kind, capacity) ==
  LET base == NextPowerOfTwo(capacity)
  IN  [kind |-> kind, capacity |-> capacity, base |-> base, next |-> 0, len |-> 0,
       tree |-> [n \in 0 .. 2 * base - 1 |-> Empty]]

(* write: a leaf, and the nodes above it from the bottom to the root. *)
Write(history, index, summary) ==
  LET leaf  == history.base + index
      above == {leaf \div 2 ^ k : k \in 1 .. history.base} \ {0}
      node[n \in DOMAIN history.tree] ==
        IF n = leaf THEN summary
        ELSE IF n \in above THEN Merge(history.kind, node[2 * n], node[2 * n + 1])
        ELSE history.tree[n]
  IN  [history EXCEPT !.tree = node]

(* push: a new slot, or one more value for the newest slot. *)
Push(history, summary, sameBucket) ==
  LET newest == (history.next + history.capacity - 1) % history.capacity
      index  == IF sameBucket THEN newest ELSE history.next
      leaf   == IF sameBucket
                  THEN Merge(history.kind, history.tree[history.base + newest], summary)
                  ELSE summary
  IN  [Write(history, index, leaf)
         EXCEPT !.next = (index + 1) % history.capacity,
                !.len  = IF sameBucket THEN @ ELSE Min({@ + 1, history.capacity})]

(* query: the slots from start on and before end, one level at a time. *)
Query(history, start, end) ==
  LET Level(q, level) ==
        IF q.start >= q.end THEN q
        ELSE [start |-> (q.start + 1) \div 2,
              end   |-> q.end \div 2,
              left  |-> IF q.start % 2 = 0 THEN q.left
                        ELSE Merge(history.kind, q.left, history.tree[q.start]),
              right |-> IF q.end % 2 = 0 THEN q.right
                        ELSE Merge(history.kind, history.tree[q.end - 1], q.right)]
      whole == [start |-> start + history.base, end |-> end + history.base,
                left |-> Empty, right |-> Empty]
      done  == FoldLeft(Level, whole, [level \in 1 .. history.base + 1 |-> level])
  IN  Merge(history.kind, done.left, done.right)

(* Faulty variant: the slots before the wrap come last. *)
StretchesInSlotOrder(history, count) ==
  LET start == (history.next + history.capacity - count) % history.capacity
  IN  IF count = 0 THEN <<>>
      ELSE IF start < history.next THEN << <<start, history.next>> >>
      ELSE << <<0, history.next>>, <<start, history.capacity>> >>

(* The slots with the newest values, in the order of time. *)
Stretches(history, count) ==
  LET start == (history.next + history.capacity - count) % history.capacity
  IN  IF count = 0 THEN <<>>
      ELSE IF start < history.next THEN << <<start, history.next>> >>
      ELSE << <<start, history.capacity>>, <<0, history.next>> >>

(* newest: the summary of that many newest values. *)
Newest(history, count) ==
  FoldLeft(LAMBDA sum, slots : Merge(history.kind, sum, Query(history, slots[1], slots[2])),
           Empty, Stretches(history, count))

=============================================================================
