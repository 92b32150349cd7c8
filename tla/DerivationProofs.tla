--------------------------- MODULE DerivationProofs ---------------------------
(***************************************************************************)
(* Proofs about the timed features of Derivations, for any windows, times  *)
(* and trades.                                                             *)
(*                                                                         *)
(* First the ring: whatever its capacity, it is a sequence that loses its  *)
(* oldest item when it is full.  Then windows and their offsets over any   *)
(* sequence of buckets, and what a running sum over such a window is.      *)
(* Then the indicators, with what they have in common: their windows are   *)
(* ready when they are warm and sum up what the ring holds of them.  Then  *)
(* what the ring holds: of each bucket traded within any window, what the  *)
(* log has of it.  Both together are the invariant of the features.        *)
(***************************************************************************)
EXTENDS Derivations, NumberLemmas, SequenceTheorems

-----------------------------------------------------------------------------
(* Rings. *)

RingFields == {"capacity", "slots", "head", "length"}

(* Every slot that a reader may look into has been written. *)
SlotsWritten(r) == \A i \in 0 .. r.length - 1 : r.slots[Slot(r, i)] # Uninit

IsRing(r) ==
  /\ r = [field \in RingFields |-> r[field]]
  /\ r.capacity \in Nat \ {0}
  /\ r.slots = [s \in 0 .. r.capacity - 1 |-> r.slots[s]]
  /\ r.head \in 0 .. r.capacity - 1
  /\ r.length \in 0 .. r.capacity
  /\ SlotsWritten(r)

ItemAt(r, i) == r.slots[Slot(r, i - 1)][1]

(* What `after' holds: of what the ring holds, all but the oldest `lost'    *)
(* items and the newest `popped' ones, and then an item.                    *)
RingKept(before, after, lost, kept) ==
  /\ IsRing(after) /\ after.capacity = before.capacity
  /\ \A i \in 1 .. kept : ItemAt(after, i) = ItemAt(before, i + lost)

LEMMA WrittenIsInitialized ==
  ASSUME NEW item
  PROVE  <<item>> # Uninit
BY DEF Uninit

LEMMA SlotWraps ==
  ASSUME NEW a \in Nat, NEW c \in Nat \ {0}, a < 2 * c
  PROVE  a % c = IF a < c THEN a ELSE a - c
<1>1. a = (a \div c) * c + (a % c) /\ a \div c \in Int /\ (a % c) \in 0 .. c - 1
  BY QuotientAndRemainder
<1>2. a \div c \in {0, 1}
  <2>1. a \div c >= 0
    <3>1. 0 * c <= a
      OBVIOUS
    <3> QED
      BY <3>1, QuotientAtLeast
  <2>2. ~ (2 <= a \div c)
    <3>1. SUFFICES ASSUME 2 <= a \div c
                   PROVE  FALSE
      OBVIOUS
    <3>2. 2 * c <= (a \div c) * c
      BY <1>1, <3>1, ProductMonotonic
    <3>3. (a \div c) * c <= a
      BY QuotientBounds
    <3>4. (a \div c) * c \in Int
      BY <1>1
    <3> QED
      BY <3>2, <3>3, <3>4
  <2> QED
    BY <1>1, <2>1, <2>2
<1>3. CASE a \div c = 0
  BY <1>1, <1>3
<1>4. CASE a \div c = 1
  <2>1. a = c + (a % c)
    BY <1>1, <1>4
  <2> QED
    BY <1>1, <2>1
<1> QED
  BY <1>2, <1>3, <1>4

LEMMA SlotAt ==
  ASSUME NEW r, IsRing(r), NEW i \in 0 .. r.capacity
  PROVE  /\ Slot(r, i) = IF r.head + i < r.capacity THEN r.head + i ELSE r.head + i - r.capacity
         /\ Slot(r, i) \in 0 .. r.capacity - 1
<1> DEFINE c == r.capacity
           a == r.head + i
<1>1. c \in Nat \ {0} /\ a \in Nat /\ a < 2 * c /\ r.head \in 0 .. c - 1
  BY DEF IsRing
<1>2. Slot(r, i) = a % c
  BY DEF Slot
<1>3. a % c = IF a < c THEN a ELSE a - c
  BY <1>1, SlotWraps
<1> QED
  BY <1>1, <1>2, <1>3

(* A full ring loses its oldest item to a new one. *)
LEMMA PushAppends ==
  ASSUME NEW r, IsRing(r), NEW item
  PROVE  LET next == PushBack(r, item)
             lost == IF IsFullRing(r) THEN 1 ELSE 0
         IN  /\ next.length = r.length - lost + 1
             /\ RingKept(r, next, lost, r.length - lost)
             /\ ItemAt(next, next.length) = item
<1> DEFINE c == r.capacity
           next == PushBack(r, item)
           n == r.length
<1>1. c \in Nat \ {0} /\ n \in 0 .. c /\ r.head \in 0 .. c - 1
  BY DEF IsRing
<1>2. CASE IsFullRing(r)
  <2>1. n = c
    BY <1>2 DEF IsFullRing
  <2>2. /\ next = [field \in RingFields |-> next[field]]
        /\ next.capacity = c /\ next.length = n /\ next.head = Slot(r, 1)
        /\ next.slots = [r.slots EXCEPT ![r.head] = <<item>>]
    BY <1>2 DEF PushBack, IsRing, RingFields
  <2>3. Slot(r, 1) = (IF r.head + 1 < c THEN r.head + 1 ELSE 0) /\ Slot(r, 1) \in 0 .. c - 1
    BY <1>1, SlotAt
  <2>4. /\ next.slots = [s \in 0 .. c - 1 |-> next.slots[s]]
        /\ \A s \in 0 .. c - 1 : next.slots[s] = IF s = r.head THEN <<item>> ELSE r.slots[s]
    BY <2>2, <1>1 DEF IsRing
  <2>5. ASSUME NEW i \in 0 .. c - 1
        PROVE  Slot(next, i) = IF i = c - 1 THEN r.head ELSE Slot(r, i + 1)
    <3>1. Slot(next, i) = (Slot(r, 1) + i) % c
      BY <2>2 DEF Slot
    <3>2. Slot(r, 1) + i \in Nat /\ Slot(r, 1) + i < 2 * c
      BY <1>1, <2>3
    <3>3. (Slot(r, 1) + i) % c = IF Slot(r, 1) + i < c THEN Slot(r, 1) + i ELSE (Slot(r, 1) + i) - c
      <4> DEFINE a == Slot(r, 1) + i
      <4>1. a \in Nat /\ a < 2 * c /\ c \in Nat \ {0}
        BY <1>1, <3>2
      <4> HIDE DEF a, c
      <4>2. a % c = IF a < c THEN a ELSE a - c
        BY <4>1, SlotWraps
      <4> QED
        BY <4>2 DEF a, c
    <3>4. Slot(r, i + 1) = IF r.head + (i + 1) < c THEN r.head + (i + 1) ELSE r.head + (i + 1) - c
      BY <1>1, SlotAt
    <3> DEFINE h == r.head
    <3>5. h \in 0 .. c - 1 /\ c \in Nat \ {0} /\ i \in 0 .. c - 1
      BY <1>1
    <3>6. CASE h + 1 < c
      <4>1. Slot(r, 1) = h + 1
        BY <2>3, <3>6
      <4>2. Slot(next, i) = IF (h + 1) + i < c THEN (h + 1) + i ELSE ((h + 1) + i) - c
        BY <3>1, <3>3, <4>1
      <4> HIDE DEF next, c, h
      <4>3. i = c - 1 => Slot(next, i) = h
        BY <3>5, <4>2
      <4>4. i # c - 1 => Slot(next, i) = IF h + (i + 1) < c THEN h + (i + 1) ELSE h + (i + 1) - c
        BY <3>5, <4>2
      <4> QED
        BY <3>4, <4>3, <4>4 DEF h
    <3>7. CASE ~ (h + 1 < c)
      <4>1. Slot(r, 1) = 0 /\ h = c - 1
        BY <2>3, <3>5, <3>7
      <4>2. Slot(next, i) = i
        BY <3>1, <3>3, <3>5, <4>1
      <4>3. i # c - 1 => Slot(r, i + 1) = i
        BY <3>4, <3>5, <4>1
      <4> HIDE DEF next
      <4> QED
        BY <4>1, <4>2, <4>3
    <3> QED
      BY <3>6, <3>7
  <2>6. ASSUME NEW i \in 0 .. c - 2
        PROVE  next.slots[Slot(next, i)] = r.slots[Slot(r, i + 1)]
    <3>1. /\ Slot(r, i + 1) = IF r.head + (i + 1) < c THEN r.head + (i + 1) ELSE r.head + (i + 1) - c
          /\ Slot(r, i + 1) \in 0 .. c - 1
      BY <1>1, SlotAt
    <3>2. Slot(r, i + 1) # r.head
      BY <1>1, <3>1
    <3>3. Slot(next, i) = Slot(r, i + 1)
      BY <1>1, <2>5
    <3> QED
      BY <2>4, <3>1, <3>2, <3>3
  <2>7. next.slots[Slot(next, c - 1)] = <<item>>
    <3>1. Slot(next, c - 1) = r.head
      BY <1>1, <2>5
    <3> QED
      BY <1>1, <2>4, <3>1
  <2> HIDE DEF next
  <2>8. IsRing(next)
    <3>1. ASSUME NEW i \in 0 .. c - 1
          PROVE  next.slots[Slot(next, i)] # Uninit
      <4>1. CASE i = c - 1
        BY <2>7, <4>1, WrittenIsInitialized
      <4>2. CASE i # c - 1
        <5>1. i \in 0 .. c - 2 /\ i + 1 \in 0 .. n - 1
          BY <1>1, <2>1, <4>2
        <5>2. r.slots[Slot(r, i + 1)] # Uninit
          BY <5>1 DEF IsRing, SlotsWritten
        <5> QED
          BY <2>6, <5>1, <5>2
      <4> QED
        BY <4>1, <4>2
    <3> QED
      <4>1. SlotsWritten(next)
        BY <2>1, <2>2, <3>1 DEF SlotsWritten
      <4> QED
        BY <1>1, <2>1, <2>2, <2>3, <2>4, <4>1 DEF IsRing
  <2>9. \A i \in 1 .. n - 1 : ItemAt(next, i) = ItemAt(r, i + 1)
    <3>1. SUFFICES ASSUME NEW i \in 1 .. n - 1
                   PROVE  ItemAt(next, i) = ItemAt(r, i + 1)
      OBVIOUS
    <3>2. i - 1 \in 0 .. c - 2 /\ (i - 1) + 1 = (i + 1) - 1
      BY <1>1, <2>1
    <3> QED
      BY <2>6, <3>2 DEF ItemAt
  <2>10. ItemAt(next, n) = item
    BY <2>1, <2>7 DEF ItemAt
  <2> QED
    BY <1>1, <1>2, <2>2, <2>8, <2>9, <2>10 DEF RingKept, next
<1>3. CASE ~ IsFullRing(r)
  <2>1. n \in 0 .. c - 1
    BY <1>1, <1>3 DEF IsFullRing
  <2>2. /\ next = [field \in RingFields |-> next[field]]
        /\ next.capacity = c /\ next.length = n + 1 /\ next.head = r.head
        /\ next.slots = [r.slots EXCEPT ![Slot(r, n)] = <<item>>]
    BY <1>3 DEF PushBack, IsRing, RingFields
  <2>3. \A i \in 0 .. c : /\ Slot(next, i) = Slot(r, i) /\ Slot(r, i) \in 0 .. c - 1
                          /\ Slot(r, i) = IF r.head + i < c THEN r.head + i ELSE r.head + i - c
    BY <2>2, SlotAt DEF Slot
  <2>4. /\ next.slots = [s \in 0 .. c - 1 |-> next.slots[s]]
        /\ \A s \in 0 .. c - 1 : next.slots[s] = IF s = Slot(r, n) THEN <<item>> ELSE r.slots[s]
    BY <2>1, <2>2, <2>3 DEF IsRing
  <2>5. ASSUME NEW i \in 0 .. n - 1
        PROVE  next.slots[Slot(next, i)] = r.slots[Slot(r, i)]
    <3>1. Slot(r, i) # Slot(r, n) /\ Slot(r, i) \in 0 .. c - 1 /\ Slot(next, i) = Slot(r, i)
      BY <1>1, <2>1, <2>3
    <3> QED
      BY <2>4, <3>1
  <2>6. next.slots[Slot(next, n)] = <<item>>
    BY <1>1, <2>1, <2>3, <2>4
  <2> HIDE DEF next
  <2>7. IsRing(next)
    <3>1. ASSUME NEW i \in 0 .. n
          PROVE  next.slots[Slot(next, i)] # Uninit
      <4>1. CASE i = n
        BY <2>6, <4>1, WrittenIsInitialized
      <4>2. CASE i # n
        <5>1. i \in 0 .. n - 1
          BY <1>1, <4>2
        <5> QED
          BY <2>5, <5>1 DEF IsRing, SlotsWritten
      <4> QED
        BY <4>1, <4>2
    <3> QED
      <4>1. (n + 1) - 1 = n
        BY <1>1
      <4>2. SlotsWritten(next)
        BY <2>2, <3>1, <4>1 DEF SlotsWritten
      <4>3. next.length \in 0 .. c /\ next.head \in 0 .. c - 1
        BY <1>1, <2>1, <2>2
      <4> QED
        BY <1>1, <2>2, <2>4, <4>2, <4>3 DEF IsRing
  <2>8. \A i \in 1 .. n : ItemAt(next, i) = ItemAt(r, i + 0)
    <3>1. SUFFICES ASSUME NEW i \in 1 .. n
                   PROVE  ItemAt(next, i) = ItemAt(r, i)
      OBVIOUS
    <3>2. i - 1 \in 0 .. n - 1
      BY <1>1
    <3> QED
      BY <2>5, <3>2 DEF ItemAt
  <2>9. ItemAt(next, n + 1) = item
    <3>1. (n + 1) - 1 = n
      BY <1>1
    <3> QED
      BY <2>6, <3>1 DEF ItemAt
  <2> QED
    BY <1>1, <1>3, <2>2, <2>7, <2>8, <2>9 DEF RingKept, next
<1> QED
  BY <1>2, <1>3

(* Taking out the newest item leaves the others. *)
LEMMA PopDropsNewest ==
  ASSUME NEW r, IsRing(r), ~ IsEmptyRing(r)
  PROVE  LET next == PopBack(r)
         IN  next.length = r.length - 1 /\ RingKept(r, next, 0, r.length - 1)
<1> DEFINE c == r.capacity
           next == PopBack(r)
           n == r.length
<1>1. c \in Nat \ {0} /\ n \in 1 .. c /\ r.head \in 0 .. c - 1
  BY DEF IsRing, IsEmptyRing
<1>2. /\ next = [field \in RingFields |-> next[field]]
      /\ next.capacity = c /\ next.length = n - 1 /\ next.head = r.head
      /\ next.slots = [r.slots EXCEPT ![Slot(r, n - 1)] = Uninit]
  BY DEF PopBack, IsRing, RingFields
<1>3. \A i \in 0 .. c : /\ Slot(next, i) = Slot(r, i) /\ Slot(r, i) \in 0 .. c - 1
                        /\ Slot(r, i) = IF r.head + i < c THEN r.head + i ELSE r.head + i - c
  BY <1>2, SlotAt DEF Slot
<1>4. /\ next.slots = [s \in 0 .. c - 1 |-> next.slots[s]]
      /\ \A s \in 0 .. c - 1 : next.slots[s] = IF s = Slot(r, n - 1) THEN Uninit ELSE r.slots[s]
  BY <1>1, <1>2, <1>3 DEF IsRing
<1>5. ASSUME NEW i \in 0 .. n - 2
      PROVE  next.slots[Slot(next, i)] = r.slots[Slot(r, i)]
  <2>1. Slot(r, i) # Slot(r, n - 1) /\ Slot(r, i) \in 0 .. c - 1 /\ Slot(next, i) = Slot(r, i)
    BY <1>1, <1>3
  <2> QED
    BY <1>4, <2>1
<1> HIDE DEF next
<1>6. IsRing(next)
  <2>1. ASSUME NEW i \in 0 .. n - 2
        PROVE  next.slots[Slot(next, i)] # Uninit
    <3>1. i \in 0 .. n - 1
      BY <1>1
    <3> QED
      BY <1>5, <3>1 DEF IsRing, SlotsWritten
  <2>2. SlotsWritten(next)
    <3>1. (n - 1) - 1 = n - 2
      BY <1>1
    <3> QED
      BY <1>2, <2>1, <3>1 DEF SlotsWritten
  <2>3. next.length \in 0 .. c /\ next.head \in 0 .. c - 1
    BY <1>1, <1>2
  <2> QED
    BY <1>1, <1>2, <1>4, <2>2, <2>3 DEF IsRing
<1>7. \A i \in 1 .. n - 1 : ItemAt(next, i) = ItemAt(r, i + 0)
  <2>1. SUFFICES ASSUME NEW i \in 1 .. n - 1
                 PROVE  ItemAt(next, i) = ItemAt(r, i)
    OBVIOUS
  <2>2. i - 1 \in 0 .. n - 2
    BY <1>1
  <2> QED
    BY <1>5, <2>2 DEF ItemAt
<1> QED
  BY <1>2, <1>6, <1>7 DEF RingKept, next

LEMMA NewRingIsEmpty ==
  ASSUME NEW N \in Nat \ {0}
  PROVE  IsRing(NewRing(N)) /\ NewRing(N).length = 0 /\ NewRing(N).capacity = N
BY DEF NewRing, IsRing, SlotsWritten, RingFields

(* Readers of a ring. *)
LEMMA RingReads ==
  ASSUME NEW r, IsRing(r)
  PROVE  /\ Len(Items(r)) = r.length /\ r.length \in Nat
         /\ \A i \in 1 .. r.length : Items(r)[i] = ItemAt(r, i)
         /\ r.length > 0 => PeekBack(r)[1] = ItemAt(r, r.length)
         /\ IsFullRing(r) => EvictedBy(r)[1] = ItemAt(r, 1)
<1>1. r.length \in Nat /\ r.capacity \in Nat \ {0} /\ r.head \in 0 .. r.capacity - 1
  BY DEF IsRing
<1>2. Len(Items(r)) = r.length
  BY <1>1 DEF Items
<1>3. \A i \in 1 .. r.length : Items(r)[i] = ItemAt(r, i)
  BY <1>1 DEF Items, PeekFrontAt, ItemAt
<1>4. r.length > 0 => PeekBack(r)[1] = ItemAt(r, r.length)
  <2>1. (r.length - 1) - 0 = r.length - 1
    BY <1>1
  <2> QED
    BY <1>1, <2>1 DEF PeekBack, PeekBackAt, ItemAt
<1>5. IsFullRing(r) => EvictedBy(r)[1] = ItemAt(r, 1)
  <2>1. Slot(r, 1 - 1) = r.head
    BY <1>1, SlotAt
  <2> QED
    BY <2>1 DEF EvictedBy, ItemAt
<1> QED
  BY <1>1, <1>2, <1>3, <1>4, <1>5

(* Recording in the newest bucket, or in a new one that a full ring evicts *)
(* its oldest for.                                                         *)
Shift(r, same) == IF ~ same /\ IsFullRing(r) THEN 1 ELSE 0

Kept(r, same) == r.length - (IF same THEN 1 ELSE Shift(r, same))

Recorded(r, next, same, bucket) ==
  /\ IsRing(next) /\ next.capacity = r.capacity
  /\ Shift(r, same) \in 0 .. r.length
  /\ Kept(r, same) \in 0 .. r.length - Shift(r, same)
  /\ next.length = Kept(r, same) + 1
  /\ \A i \in 1 .. Kept(r, same) : Items(next)[i] = Items(r)[i + Shift(r, same)]
  /\ Items(next)[next.length] = bucket

LEMMA RecordingAppends ==
  ASSUME NEW o, IsRing(o.data), NEW same, same \in BOOLEAN, same => ~ IsEmptyRing(o.data),
         NEW bucket
  PROVE  Recorded(o.data, Recording(o, same, bucket), same, bucket)
<1> DEFINE r == o.data
           n == r.length
           next == Recording(o, same, bucket)
<1>1. n \in Nat /\ r.capacity \in Nat \ {0} /\ n <= r.capacity
  BY DEF IsRing
<1>2. CASE same
  <2> DEFINE rest == PopBack(r)
  <2>1. rest.length = n - 1 /\ RingKept(r, rest, 0, n - 1) /\ n >= 1
    BY <1>1, <1>2, PopDropsNewest DEF IsEmptyRing
  <2>2. IsRing(rest) /\ rest.capacity = r.capacity /\ ~ IsFullRing(rest)
    BY <1>1, <2>1 DEF RingKept, IsFullRing
  <2>3. next = PushBack(rest, bucket)
    BY <1>2 DEF Recording
  <2> HIDE DEF rest, next
  <2>4. /\ next.length = rest.length - 0 + 1
        /\ RingKept(rest, next, 0, rest.length - 0)
        /\ ItemAt(next, next.length) = bucket
    BY <2>2, <2>3, PushAppends
  <2>5. Shift(r, same) = 0 /\ Kept(r, same) = n - 1
    BY <1>2 DEF Shift, Kept
  <2>6. IsRing(next) /\ next.capacity = r.capacity /\ next.length = (n - 1) + 1
    BY <1>1, <2>1, <2>2, <2>4 DEF RingKept
  <2>7. ASSUME NEW i \in 1 .. n - 1
        PROVE  Items(next)[i] = Items(r)[i + 0]
    <3>1. i \in 1 .. rest.length /\ i \in 1 .. rest.length - 0 /\ i \in 1 .. n
          /\ i \in 1 .. next.length /\ i + 0 = i
      BY <1>1, <2>1, <2>6
    <3>2. ItemAt(next, i) = ItemAt(rest, i) /\ ItemAt(rest, i) = ItemAt(r, i)
      BY <2>1, <2>4, <3>1 DEF RingKept
    <3> QED
      BY <2>6, <3>1, <3>2, RingReads
  <2>8. Items(next)[next.length] = bucket
    <3>1. next.length \in 1 .. next.length
      BY <1>1, <2>1, <2>6
    <3> QED
      BY <2>4, <2>6, <3>1, RingReads
  <2> QED
    BY <1>1, <2>1, <2>5, <2>6, <2>7, <2>8 DEF Recorded, next
<1>3. CASE ~ same
  <2> DEFINE lost == IF IsFullRing(r) THEN 1 ELSE 0
  <2>1. next = PushBack(r, bucket) /\ Shift(r, same) = lost /\ Kept(r, same) = n - lost
    BY <1>3 DEF Recording, Shift, Kept
  <2> HIDE DEF next
  <2>2. /\ next.length = n - lost + 1
        /\ RingKept(r, next, lost, n - lost)
        /\ ItemAt(next, next.length) = bucket
    BY <2>1, PushAppends
  <2>3. lost \in {0, 1} /\ lost <= n
    BY <1>1 DEF IsFullRing
  <2>4. IsRing(next) /\ next.capacity = r.capacity
    BY <2>2 DEF RingKept
  <2> HIDE DEF lost
  <2>5. ASSUME NEW i \in 1 .. n - lost
        PROVE  Items(next)[i] = Items(r)[i + lost]
    <3>1. i \in 1 .. next.length /\ i + lost \in 1 .. n
      BY <1>1, <2>2, <2>3
    <3>2. ItemAt(next, i) = ItemAt(r, i + lost)
      BY <2>2 DEF RingKept
    <3> QED
      BY <2>4, <3>1, <3>2, RingReads
  <2>6. Items(next)[next.length] = bucket
    <3>1. next.length \in 1 .. next.length
      BY <1>1, <2>2, <2>3
    <3> QED
      BY <2>2, <2>4, <3>1, RingReads
  <2> QED
    BY <1>1, <2>1, <2>2, <2>3, <2>4, <2>5, <2>6 DEF Recorded, next
<1> QED
  BY <1>2, <1>3

-----------------------------------------------------------------------------
(* Sums over a range of a ring. *)

RangeSum(v, i, j) == SumFunctionOnSet([k \in i + 1 .. j |-> v[k]], i + 1 .. j)

LEMMA RangeType ==
  ASSUME NEW v, NEW i \in Int, NEW j \in Int, \A k \in i + 1 .. j : v[k] \in Int
  PROVE  RangeSum(v, i, j) \in Int
<1>1. IsFiniteSet(i + 1 .. j)
  BY FS_Interval
<1>2. \A k \in i + 1 .. j : [l \in i + 1 .. j |-> v[l]][k] \in Int
  OBVIOUS
<1> QED
  BY <1>1, <1>2, SumType DEF RangeSum

LEMMA RangeEmpty ==
  ASSUME NEW v, NEW i \in Int, NEW j \in Int, j <= i
  PROVE  RangeSum(v, i, j) = 0
<1>1. i + 1 .. j = {}
  OBVIOUS
<1> QED
  BY <1>1, SumEmpty DEF RangeSum

LEMMA RangeSplit ==
  ASSUME NEW v, NEW i \in Int, NEW j \in Int, NEW m \in Int, i <= j, j <= m,
         \A k \in i + 1 .. m : v[k] \in Int
  PROVE  RangeSum(v, i, m) = RangeSum(v, i, j) + RangeSum(v, j, m)
<1> DEFINE I == i + 1 .. m
           A == i + 1 .. j
           B == j + 1 .. m
           f == [k \in I |-> v[k]]
           fA == [k \in A |-> v[k]]
           fB == [k \in B |-> v[k]]
<1>1. IsFiniteSet(A) /\ IsFiniteSet(B)
  BY FS_Interval
<1>2. A \cap B = {} /\ A \cup B = I
  OBVIOUS
<1>3. /\ \A k \in A \cup B : f[k] \in Int
      /\ \A k \in A : f[k] = fA[k]
      /\ \A k \in B : f[k] = fB[k]
  BY <1>2
<1> HIDE DEF I, A, B, f, fA, fB
<1>4. SumFunctionOnSet(f, A \cup B) = SumFunctionOnSet(f, A) + SumFunctionOnSet(f, B)
  BY <1>1, <1>2, <1>3, SumUnion
<1>5. SumFunctionOnSet(f, A) = SumFunctionOnSet(fA, A)
  BY <1>1, <1>3, SumEqual
<1>6. SumFunctionOnSet(f, B) = SumFunctionOnSet(fB, B)
  BY <1>1, <1>3, SumEqual
<1> QED
  BY <1>2, <1>4, <1>5, <1>6 DEF RangeSum, I, A, B, f, fA, fB

ShiftedBy(u, v, i, j, s) == \A k \in i + 1 .. j : u[k] = v[k + s] /\ u[k] \in Int

LEMMA RangeShift ==
  ASSUME NEW u, NEW v, NEW i \in Int, NEW j \in Int, NEW s \in Int,
         ShiftedBy(u, v, i, j, s)
  PROVE  RangeSum(u, i, j) = RangeSum(v, i + s, j + s)
<1> DEFINE I == i + 1 .. j
           J == (i + s) + 1 .. j + s
           g == [k \in I |-> u[k]]
           f == [k \in J |-> v[k]]
           h == [k \in I |-> k + s]
<1>1. IsFiniteSet(I)
  BY FS_Interval
<1>2. \A k \in I : h[k] \in J /\ g[k] \in Int /\ g[k] = f[h[k]]
  BY DEF ShiftedBy
<1>3. h \in Bijection(I, J)
  <2>1. h \in [I -> J]
    BY <1>2
  <2>2. \A k, l \in I : h[k] = h[l] => k = l
    OBVIOUS
  <2>3. \A l \in J : \E k \in I : h[k] = l
    <3>1. SUFFICES ASSUME NEW l \in J
                   PROVE  \E k \in I : h[k] = l
      OBVIOUS
    <3>2. l - s \in I /\ h[l - s] = l
      OBVIOUS
    <3> QED
      BY <3>2
  <2> HIDE DEF I, J, h
  <2> QED
    BY <2>1, <2>2, <2>3 DEF Bijection, Injection, Surjection, IsInjective
<1> HIDE DEF I, J, g, f, h
<1>4. SumFunctionOnSet(g, I) = SumFunctionOnSet(f, J)
  BY <1>1, <1>2, <1>3, SumReindex
<1> QED
  BY <1>4 DEF RangeSum, I, J, g, f

LEMMA RangeSame ==
  ASSUME NEW u, NEW v, NEW i \in Int, NEW j \in Int, \A k \in i + 1 .. j : u[k] = v[k]
  PROVE  RangeSum(u, i, j) = RangeSum(v, i, j)
<1>1. [k \in i + 1 .. j |-> u[k]] = [k \in i + 1 .. j |-> v[k]]
  OBVIOUS
<1> QED
  BY <1>1 DEF RangeSum

LEMMA RangeLast ==
  ASSUME NEW v, NEW i \in Int, NEW j \in Int, i < j, \A k \in i + 1 .. j : v[k] \in Int
  PROVE  RangeSum(v, i, j) = RangeSum(v, i, j - 1) + v[j]
<1> DEFINE I == i + 1 .. j - 1
           f == [k \in i + 1 .. j |-> v[k]]
           g == [k \in I |-> v[k]]
<1>1. IsFiniteSet(I) /\ j \notin I /\ I \cup {j} = i + 1 .. j
  BY FS_Interval
<1>2. (\A k \in I \cup {j} : f[k] \in Int) /\ f[j] = v[j] /\ \A k \in I : f[k] = g[k]
  BY <1>1
<1> HIDE DEF I, f, g
<1>3. SumFunctionOnSet(f, I \cup {j}) = SumFunctionOnSet(f, I) + f[j]
  BY <1>1, <1>2, SumAdd
<1>4. SumFunctionOnSet(f, I) = SumFunctionOnSet(g, I)
  BY <1>1, <1>2, SumEqual
<1> QED
  BY <1>1, <1>2, <1>3, <1>4 DEF RangeSum, f, g, I

-----------------------------------------------------------------------------
(* Buckets, time and the reach of a window. *)

(* Leaves, by the duration of the window. *)
Gone(index, duration, t) == index * Aggregation + duration <= t

IsDuration(duration, capacity) ==
  /\ duration \in Nat
  /\ \E p \in Nat \ {0} : p < capacity /\ duration = p * Aggregation

LEMMA BucketType ==
  ASSUME NEW t \in Int
  PROVE  BucketOf(t) \in Int
BY IndicatorParameters, QuotientBounds DEF BucketOf

LEMMA BucketMonotonic ==
  ASSUME NEW s \in Int, NEW t \in Int, s <= t
  PROVE  BucketOf(s) <= BucketOf(t)
BY IndicatorParameters, QuotientMonotonic DEF BucketOf

(* Gone once, gone for good, and so is all that is older. *)
LEMMA GoneMonotonic ==
  ASSUME NEW a \in Int, NEW b \in Int, a <= b, NEW s \in Int, NEW t \in Int, s <= t,
         NEW d \in Nat, Gone(b, d, s)
  PROVE  Gone(a, d, t)
<1>1. a * Aggregation <= b * Aggregation
  BY IndicatorParameters, ProductMonotonic
<1>2. a * Aggregation \in Int /\ b * Aggregation \in Int
  BY IndicatorParameters
<1> QED
  BY <1>1, <1>2 DEF Gone

(* The current bucket is in every window. *)
LEMMA CurrentStays ==
  ASSUME NEW d, NEW c \in Int, IsDuration(d, c), NEW t \in Int
  PROVE  ~ Gone(BucketOf(t), d, t)
<1> DEFINE b == BucketOf(t)
<1>1. Aggregation \in Nat \ {0}
  BY IndicatorParameters
<1>2. b \in Int /\ t < (b + 1) * Aggregation
  BY <1>1, QuotientBounds DEF BucketOf
<1>3. Aggregation <= d /\ d \in Nat
  <2>1. PICK p \in Nat \ {0} : d = p * Aggregation
    BY DEF IsDuration
  <2>2. 1 * Aggregation <= p * Aggregation
    BY <1>1, ProductMonotonic
  <2> QED
    BY <1>1, <2>1, <2>2 DEF IsDuration
<1> HIDE DEF b
<1>4. (b + 1) * Aggregation = b * Aggregation + Aggregation /\ b * Aggregation \in Int
  BY <1>1, <1>2
<1> QED
  BY <1>1, <1>2, <1>3, <1>4 DEF Gone, b

(* A bucket almost as far back as the ring is long has left every window. *)
LEMMA AgedIsGone ==
  ASSUME NEW d, NEW c \in Int, IsDuration(d, c), NEW t \in Int, NEW b \in Int,
         b + (c - 1) <= BucketOf(t)
  PROVE  Gone(b, d, t)
<1> DEFINE current == BucketOf(t)
<1>1. Aggregation \in Nat \ {0}
  BY IndicatorParameters
<1>2. current \in Int /\ current * Aggregation <= t
  BY <1>1, QuotientBounds DEF BucketOf
<1>3. PICK p \in Nat \ {0} : p < c /\ d = p * Aggregation
  BY DEF IsDuration
<1>4. b + p <= current
  <2> HIDE DEF current
  <2> QED
    BY <1>2, <1>3 DEF current
<1>5. (b + p) * Aggregation <= current * Aggregation
  BY <1>1, <1>2, <1>4, ProductMonotonic
<1>6. (b + p) * Aggregation = b * Aggregation + d
  BY <1>1, <1>3
<1>7. b * Aggregation \in Int /\ current * Aggregation \in Int /\ d \in Int
  BY <1>1, <1>2, <1>3
<1> QED
  BY <1>2, <1>5, <1>6, <1>7 DEF Gone

Index(r, i) == Items(r)[i].index

(* A ring of the newest buckets of T, in order, at a time. *)
Tracks(r, T, t) ==
  /\ IsRing(r)
  /\ \A i \in 1 .. r.length : Index(r, i) \in T
  /\ \A i, j \in 1 .. r.length : i < j => Index(r, i) + (j - i) <= Index(r, j)
  /\ \A b \in T : b \in Int /\ b <= BucketOf(t)
  /\ \A b \in T : \/ \E i \in 1 .. r.length : Index(r, i) = b
                  \/ IsFullRing(r) /\ b < Index(r, 1)

LEMMA TracksFacts ==
  ASSUME NEW r, NEW T, NEW t, Tracks(r, T, t)
  PROVE  /\ IsRing(r) /\ r.length \in Nat /\ r.capacity \in Nat \ {0} /\ r.length <= r.capacity
         /\ Len(Items(r)) = r.length
         /\ \A i \in 1 .. r.length : Index(r, i) \in T /\ Index(r, i) \in Int
                                     /\ Index(r, i) <= BucketOf(t)
         /\ \A i, j \in 1 .. r.length : i <= j => Index(r, i) <= Index(r, j)
         /\ \A i, j \in 1 .. r.length : i < j => Index(r, i) < Index(r, j)
<1>1. IsRing(r) /\ r.length \in Nat /\ r.capacity \in Nat \ {0} /\ r.length <= r.capacity
  BY DEF Tracks, IsRing
<1>2. Len(Items(r)) = r.length
  BY <1>1, RingReads
<1>3. \A i \in 1 .. r.length : Index(r, i) \in T /\ Index(r, i) \in Int /\ Index(r, i) <= BucketOf(t)
  BY DEF Tracks
<1>4. ASSUME NEW i \in 1 .. r.length, NEW j \in 1 .. r.length, i < j
      PROVE  Index(r, i) < Index(r, j)
  <2>1. Index(r, i) + (j - i) <= Index(r, j)
    BY <1>4 DEF Tracks
  <2> QED
    BY <1>1, <1>3, <1>4, <2>1
<1>5. ASSUME NEW i \in 1 .. r.length, NEW j \in 1 .. r.length, i <= j
      PROVE  Index(r, i) <= Index(r, j)
  <2>1. CASE i = j
    BY <1>3, <2>1
  <2>2. CASE i < j
    BY <1>3, <1>4, <2>2
  <2> QED
    BY <1>1, <1>5, <2>1, <2>2
<1> QED
  BY <1>1, <1>2, <1>3, <1>4, <1>5

(* An offset that parts the ring into what has left a window and the rest. *)
Parts(r, o, d, t) ==
  /\ o \in 0 .. r.length
  /\ \A i \in 1 .. r.length : i <= o <=> Gone(Index(r, i), d, t)

(* Where a loop stops that passes what has left. *)
StopsAt(r, f, o, d, t) ==
  /\ o \in f .. r.length
  /\ \A i \in f + 1 .. o : Gone(Index(r, i), d, t)
  /\ o < r.length => ~ Gone(Index(r, o + 1), d, t)

LEMMA LoopStops ==
  ASSUME NEW r, r.length \in Nat, NEW f \in 0 .. r.length, NEW d, NEW t
  PROVE  \E o \in f .. r.length : StopsAt(r, f, o, d, t)
<1> DEFINE n == r.length
           Stops == {o \in f .. n : o < n => ~ Gone(Index(r, o + 1), d, t)}
<1>1. Stops \in SUBSET Nat /\ n \in Stops /\ f \in 0 .. n /\ n \in Nat
  OBVIOUS
<1>2. PICK o \in Stops : \A p \in Stops : o <= p
  <2> HIDE DEF Stops
  <2> QED BY <1>1, LeastElement
<1>3. ASSUME NEW i \in f + 1 .. o
      PROVE  Gone(Index(r, i), d, t)
  <2>1. i - 1 \in f .. n /\ i - 1 < o /\ o \in f .. n /\ (i - 1) + 1 = i
    BY <1>1
  <2>2. i - 1 \notin Stops
    BY <1>2, <2>1
  <2> QED
    BY <1>1, <2>1, <2>2
<1> QED
  BY <1>2, <1>3 DEF StopsAt

LEMMA StopsWhereItParts ==
  ASSUME NEW r, NEW T, NEW s \in Int, NEW t \in Int, s <= t, Tracks(r, T, s),
         NEW d \in Nat, NEW f, Parts(r, f, d, s), NEW o, StopsAt(r, f, o, d, t)
  PROVE  Parts(r, o, d, t) /\ f <= o /\ f \in Int /\ o \in Int
<1> DEFINE n == r.length
<1>1. n \in Nat /\ f \in 0 .. n /\ o \in f .. n /\ \A i \in 1 .. n : Index(r, i) \in Int
  BY TracksFacts DEF Parts, StopsAt
<1>2. ASSUME NEW i \in 1 .. n
      PROVE  i <= o <=> Gone(Index(r, i), d, t)
  <2>1. CASE i <= f
    <3>1. Gone(Index(r, i), d, s) /\ Index(r, i) \in Int /\ Index(r, i) <= Index(r, i)
      BY <1>1, <2>1 DEF Parts
    <3>2. Gone(Index(r, i), d, t)
      BY <3>1, GoneMonotonic
    <3> QED
      BY <1>1, <2>1, <3>2
  <2>2. CASE f < i /\ i <= o
    <3>1. i \in f + 1 .. o
      BY <1>1, <2>2
    <3> QED
      BY <2>2, <3>1 DEF StopsAt
  <2>3. CASE o < i
    <3>1. o + 1 \in 1 .. n /\ o < n /\ o + 1 <= i
      BY <1>1, <2>3
    <3>2. ~ Gone(Index(r, o + 1), d, t)
      BY <3>1 DEF StopsAt
    <3>3. Index(r, o + 1) <= Index(r, i) /\ Index(r, o + 1) \in Int /\ Index(r, i) \in Int
      BY <3>1, TracksFacts
    <3>4. t <= t
      OBVIOUS
    <3>5. ~ Gone(Index(r, i), d, t)
      BY <3>2, <3>3, <3>4, GoneMonotonic
    <3>6. ~ (i <= o)
      BY <1>1, <2>3
    <3> QED
      BY <3>5, <3>6
  <2> QED
    BY <1>1, <2>1, <2>2, <2>3
<1> QED
  BY <1>1, <1>2 DEF Parts

(* Both ways of counting stop where the loop does. *)
LEMMA OffsetAtParts ==
  ASSUME NEW r, NEW T, NEW s \in Int, NEW t \in Int, s <= t, Tracks(r, T, s),
         NEW window, window.duration \in Nat,
         Parts(r, window.frontOffset, window.duration, s)
  PROVE  LET o == OffsetAt(Items(r), window, t)
         IN  /\ Parts(r, o, window.duration, t)
             /\ window.frontOffset <= o /\ window.frontOffset \in Int /\ o \in Int
<1> DEFINE f == window.frontOffset
           d == window.duration
           o == OffsetAt(Items(r), window, t)
<1>1. r.length \in Nat /\ Len(Items(r)) = r.length /\ f \in 0 .. r.length
  BY TracksFacts DEF Parts
<1>2. \E p \in f .. r.length : StopsAt(r, f, p, d, t)
  BY <1>1, LoopStops
<1>3. o = CHOOSE p \in f .. r.length :
            /\ \A i \in f + 1 .. p : Gone(Index(r, i), d, t)
            /\ p < r.length => ~ Gone(Index(r, p + 1), d, t)
  BY <1>1 DEF OffsetAt, Leaves, Gone, Index
<1>4. StopsAt(r, f, o, d, t)
  BY <1>2, <1>3 DEF StopsAt
<1> HIDE DEF o
<1>5. Parts(r, o, d, t) /\ f <= o /\ f \in Int /\ o \in Int
  BY <1>4, StopsWhereItParts
<1> QED
  BY <1>5 DEF o

LEMMA CountAtParts ==
  ASSUME NEW r, NEW T, NEW s \in Int, NEW t \in Int, s <= t, Tracks(r, T, s),
         NEW window, window.duration \in Nat, window.count \in Nat,
         Parts(r, r.length - window.count, window.duration, s)
  PROVE  LET c == CountAt(Items(r), window, t)
         IN  /\ Parts(r, r.length - c, window.duration, t)
             /\ c \in 0 .. window.count
<1> DEFINE n == r.length
           m == window.count
           d == window.duration
           c == CountAt(Items(r), window, t)
           f == n - m
<1>1. n \in Nat /\ Len(Items(r)) = n /\ f \in 0 .. n /\ m \in Nat
  BY TracksFacts DEF Parts
<1>2. PICK p \in f .. n : StopsAt(r, f, p, d, t)
  BY <1>1, LoopStops
<1> DEFINE Good(x) == /\ \A i \in (n - m) + 1 .. n - x : Gone(Index(r, i), d, t)
                      /\ x > 0 => ~ Gone(Index(r, (n - x) + 1), d, t)
<1>3. c = CHOOSE x \in 0 .. m : Good(x)
  BY <1>1 DEF CountAt, Leaves, Gone, Index
<1>4. n - p \in 0 .. m /\ Good(n - p)
  <2>0. p \in Int /\ n - m <= p /\ p <= n /\ n \in Nat /\ m \in Nat
    BY <1>1
  <2>1. n - p \in 0 .. m /\ n - (n - p) = p /\ (n - p > 0 <=> p < n)
    BY ONLY <2>0
  <2> QED
    BY <1>2, <2>1 DEF StopsAt
<1> HIDE DEF Good, c
<1>5. c \in 0 .. m /\ Good(c)
  BY <1>3, <1>4
<1>6. StopsAt(r, f, n - c, d, t)
  <2>1. n - c \in f .. n /\ (c > 0 <=> n - c < n)
    BY <1>1, <1>5
  <2> QED
    BY <1>5, <2>1 DEF StopsAt, Good
<1> DEFINE o == n - c
<1>7. StopsAt(r, f, o, d, t) /\ Parts(r, f, d, s)
  BY <1>6
<1> HIDE DEF o, f
<1>8. Parts(r, o, d, t)
  BY <1>7, StopsWhereItParts
<1> QED
  BY <1>5, <1>8 DEF o, c

LEMMA TracksLater ==
  ASSUME NEW r, NEW T, NEW s \in Int, NEW t \in Int, s <= t, Tracks(r, T, s)
  PROVE  Tracks(r, T, t)
<1>1. BucketOf(s) \in Int /\ BucketOf(t) \in Int /\ BucketOf(s) <= BucketOf(t)
  BY BucketType, BucketMonotonic
<1>2. \A b \in T : b \in Int /\ b <= BucketOf(t)
  BY <1>1 DEF Tracks
<1> QED
  BY <1>2 DEF Tracks

(* The buckets of T that a window reaches are those its offset leaves of   *)
(* the ring: what the ring has evicted is gone from every window.          *)
Reached(T, d, t) == {b \in T : ~ Gone(b, d, t)}

LEMMA ReachedIsInRing ==
  ASSUME NEW r, NEW T, NEW t \in Int, Tracks(r, T, t),
         NEW d, IsDuration(d, r.capacity), NEW o, Parts(r, o, d, t)
  PROVE  Reached(T, d, t) = {Index(r, k) : k \in o + 1 .. r.length}
<1> DEFINE n == r.length
<1>1. /\ n \in Nat /\ o \in 0 .. n /\ r.capacity \in Nat \ {0}
      /\ \A i \in 1 .. n : Index(r, i) \in T /\ Index(r, i) \in Int /\ Index(r, i) <= BucketOf(t)
  BY TracksFacts DEF Parts
<1>2. ASSUME NEW b \in T, IsFullRing(r), b < Index(r, 1)
      PROVE  Gone(b, d, t)
  <2>1. n = r.capacity /\ 1 \in 1 .. n /\ n \in 1 .. n
    BY <1>1, <1>2 DEF IsFullRing
  <2>2. Index(r, 1) + (n - 1) <= Index(r, n)
    <3>1. CASE n = 1
      BY <1>1, <2>1, <3>1
    <3>2. CASE 1 < n
      BY <2>1, <3>2 DEF Tracks
    <3> QED
      BY <1>1, <2>1, <3>1, <3>2
  <2>3. b \in Int /\ BucketOf(t) \in Int
    BY BucketType DEF Tracks
  <2>4. b + (r.capacity - 1) <= BucketOf(t)
    BY <1>1, <1>2, <2>1, <2>2, <2>3
  <2> QED
    BY <1>1, <2>3, <2>4, AgedIsGone
<1>3. ASSUME NEW b \in Reached(T, d, t)
      PROVE  \E k \in o + 1 .. n : b = Index(r, k)
  <2>1. b \in T /\ ~ Gone(b, d, t)
    BY DEF Reached
  <2>2. PICK i \in 1 .. n : Index(r, i) = b
    BY <1>2, <2>1 DEF Tracks
  <2>3. ~ (i <= o)
    BY <2>1, <2>2 DEF Parts
  <2>4. i \in o + 1 .. n
    BY <1>1, <2>3
  <2> QED
    BY <2>2, <2>4
<1>4. ASSUME NEW k \in o + 1 .. n
      PROVE  Index(r, k) \in Reached(T, d, t)
  <2>1. k \in 1 .. n /\ ~ (k <= o)
    BY <1>1
  <2> QED
    BY <1>1, <2>1 DEF Reached, Parts
<1> QED
  BY <1>3, <1>4

LEMMA ReachedIsCounted ==
  ASSUME NEW r, NEW T, NEW t \in Int, Tracks(r, T, t),
         NEW d, IsDuration(d, r.capacity), NEW o, Parts(r, o, d, t)
  PROVE  /\ IsFiniteSet(Reached(T, d, t))
         /\ Cardinality(Reached(T, d, t)) = r.length - o
         /\ \A f, v : (\A k \in 1 .. r.length : v[k] \in Int /\ v[k] = f[Index(r, k)])
              => SumFunctionOnSet(f, Reached(T, d, t)) = RangeSum(v, o, r.length)
<1> DEFINE n == r.length
           I == o + 1 .. n
           J == Reached(T, d, t)
           h == [k \in I |-> Index(r, k)]
<1>1. n \in Nat /\ o \in 0 .. n
  BY TracksFacts DEF Parts
<1>2. J = {Index(r, k) : k \in I}
  BY ReachedIsInRing
<1>3. I \subseteq 1 .. n /\ IsFiniteSet(I) /\ Cardinality(I) = n - o
  <2>1. o + 1 \in Int /\ n \in Int /\ I \subseteq 1 .. n
    BY <1>1
  <2>2. IsFiniteSet(I) /\ Cardinality(I) = IF o + 1 > n THEN 0 ELSE n - (o + 1) + 1
    BY <2>1, FS_Interval
  <2>3. (IF o + 1 > n THEN 0 ELSE n - (o + 1) + 1) = n - o
    BY <1>1
  <2> QED
    BY <2>1, <2>2, <2>3
<1>4. h \in Bijection(I, J)
  <2>1. \A k, l \in I : h[k] = h[l] => k = l
    <3>1. SUFFICES ASSUME NEW k \in I, NEW l \in I, h[k] = h[l]
                   PROVE  k = l
      OBVIOUS
    <3>2. k \in 1 .. n /\ l \in 1 .. n /\ Index(r, k) = Index(r, l)
      BY <1>3, <3>1
    <3>3. /\ k < l => Index(r, k) < Index(r, l)
          /\ l < k => Index(r, l) < Index(r, k)
          /\ Index(r, k) \in Int /\ Index(r, l) \in Int
      BY <3>2, TracksFacts
    <3> QED
      BY <3>2, <3>3
  <2>2. h \in [I -> J] /\ \A j \in J : \E i \in I : h[i] = j
    BY <1>2
  <2> HIDE DEF I, J, h
  <2> QED
    BY <2>1, <2>2 DEF Bijection, Injection, Surjection, IsInjective
<1>5. IsFiniteSet(J) /\ Cardinality(J) = Cardinality(I)
  <2> HIDE DEF I, J, h
  <2> QED
    BY <1>3, <1>4, FS_Bijection DEF ExistsBijection
<1>6. ASSUME NEW f, NEW v, \A k \in 1 .. n : v[k] \in Int /\ v[k] = f[Index(r, k)]
      PROVE  SumFunctionOnSet(f, J) = RangeSum(v, o, n)
  <2> DEFINE g == [k \in I |-> v[k]]
  <2>1. (\A k \in I : g[k] \in Int) /\ (\A k \in I : g[k] = f[h[k]])
    BY <1>3, <1>6
  <2>2. RangeSum(v, o, n) = SumFunctionOnSet(g, I)
    BY DEF RangeSum
  <2>3. IsFiniteSet(I)
    BY <1>3
  <2> HIDE DEF g, I, J, h
  <2>4. SumFunctionOnSet(g, I) = SumFunctionOnSet(f, J)
    BY ONLY <1>4, <2>1, <2>3, SumReindex
  <2> QED
    BY <2>2, <2>4
<1> QED
  BY <1>3, <1>5, <1>6

-----------------------------------------------------------------------------
(* What recording in a bucket at a time does to a ring that tracks, to the *)
(* offsets and to the sums.                                                *)

IsSame(r, same, t) ==
  same \in BOOLEAN /\ (same <=> (r.length > 0 /\ Index(r, r.length) = BucketOf(t)))

RecordedAt(r, next, same, bucket, t) ==
  IsSame(r, same, t) /\ bucket.index = BucketOf(t) /\ Recorded(r, next, same, bucket)

LEMMA RecordedFacts ==
  ASSUME NEW r, NEW T, NEW t \in Int, Tracks(r, T, t),
         NEW next, NEW same, NEW bucket, RecordedAt(r, next, same, bucket, t)
  PROVE  /\ IsRing(next) /\ next.capacity = r.capacity /\ next.length = Kept(r, same) + 1
         /\ Kept(r, same) \in Nat /\ Shift(r, same) \in {0, 1}
         /\ r.length \in Nat
         /\ same => /\ r.length > 0 /\ Kept(r, same) = r.length - 1 /\ Shift(r, same) = 0
                    /\ Index(r, r.length) = BucketOf(t)
         /\ ~ same => r.length = Kept(r, same) + Shift(r, same)
         /\ \A k \in 1 .. Kept(r, same) :
              /\ k + Shift(r, same) \in 1 .. r.length
              /\ Items(next)[k] = Items(r)[k + Shift(r, same)]
              /\ Index(next, k) = Index(r, k + Shift(r, same))
              /\ Index(next, k) \in Int /\ Index(next, k) < BucketOf(t)
         /\ Items(next)[next.length] = bucket
         /\ Index(next, next.length) = BucketOf(t) /\ BucketOf(t) \in Int
<1> DEFINE n == r.length
           s == Shift(r, same)
           m == Kept(r, same)
           b == BucketOf(t)
<1>1. /\ IsRing(next) /\ next.capacity = r.capacity /\ next.length = m + 1
      /\ s \in 0 .. n /\ m \in 0 .. n - s /\ n \in Nat /\ b \in Int /\ same \in BOOLEAN
      /\ Items(next)[next.length] = bucket /\ bucket.index = b
  BY TracksFacts, BucketType DEF RecordedAt, Recorded, IsSame
<1>2. s \in {0, 1} /\ (same => s = 0)
  BY DEF Shift
<1>3. /\ same => m = n - 1 /\ n > 0 /\ Index(r, n) = b
      /\ ~ same => n = m + s
  <2>1. m = n - (IF same THEN 1 ELSE s)
    BY DEF Kept
  <2>2. same => n > 0 /\ Index(r, n) = b
    BY DEF RecordedAt, IsSame
  <2> HIDE DEF m, n, s, b
  <2> QED
    BY <1>1, <1>2, <2>1, <2>2
<1>4. ASSUME NEW k \in 1 .. m
      PROVE  /\ k + s \in 1 .. n
             /\ Items(next)[k] = Items(r)[k + s]
             /\ Index(next, k) = Index(r, k + s)
             /\ Index(next, k) \in Int /\ Index(next, k) < b
  <2>1. k + s \in 1 .. n
    BY <1>1
  <2>2. Items(next)[k] = Items(r)[k + s] /\ Index(next, k) = Index(r, k + s)
    BY DEF RecordedAt, Recorded, Index
  <2>3. n \in 1 .. n /\ Index(r, k + s) \in Int /\ Index(r, n) \in Int /\ Index(r, n) <= b
    BY <1>1, <2>1, TracksFacts
  <2>4. CASE same
    <3>0. s = 0 /\ m = n - 1 /\ n \in Nat
      BY <1>1, <1>2, <1>3, <2>4
    <3>1. k + s < n
      BY <3>0
    <3>2. Index(r, k + s) < Index(r, n)
      BY <2>1, <2>3, <3>1, TracksFacts
    <3> QED
      BY <1>3, <2>1, <2>2, <2>3, <2>4, <3>2
  <2>5. CASE ~ same
    <3>1. Index(r, n) # b
      BY <1>1, <2>1, <2>5 DEF RecordedAt, IsSame
    <3>2. Index(r, k + s) <= Index(r, n)
      <4>1. k + s <= n
        BY <2>1
      <4> QED
        BY <2>1, <2>3, <4>1, TracksFacts
    <3> QED
      BY <1>1, <2>1, <2>2, <2>3, <3>1, <3>2
  <2> QED
    BY <1>1, <2>4, <2>5
<1>5. Index(next, next.length) = b
  BY <1>1 DEF Index
<1> QED
  BY <1>1, <1>2, <1>3, <1>4, <1>5

LEMMA RecordedTracks ==
  ASSUME NEW r, NEW T, NEW t \in Int, Tracks(r, T, t),
         NEW next, NEW same, NEW bucket, RecordedAt(r, next, same, bucket, t)
  PROVE  Tracks(next, T \cup {BucketOf(t)}, t)
<1> DEFINE n == r.length
           s == Shift(r, same)
           m == Kept(r, same)
           b == BucketOf(t)
           U == T \cup {b}
<1>1. /\ IsRing(next) /\ next.capacity = r.capacity /\ next.length = m + 1
      /\ m \in Nat /\ s \in {0, 1} /\ n \in Nat /\ b \in Int
      /\ same => n > 0 /\ m = n - 1 /\ s = 0 /\ Index(r, n) = b
      /\ ~ same => n = m + s
      /\ \A k \in 1 .. m : /\ k + s \in 1 .. n /\ Index(next, k) = Index(r, k + s)
                           /\ Index(next, k) \in Int /\ Index(next, k) < b
      /\ Index(next, m + 1) = b
      /\ same \in BOOLEAN
  <2>1. Index(next, m + 1) = b /\ same \in BOOLEAN
    BY RecordedFacts DEF RecordedAt, IsSame
  <2> QED
    BY <2>1, RecordedFacts
<1> HIDE DEF m, s, b
<1>2. ASSUME NEW i \in 1 .. next.length
      PROVE  Index(next, i) \in U
  <2>1. CASE i = m + 1
    BY <1>1, <2>1
  <2>2. CASE i # m + 1
    <3>1. i \in 1 .. m
      BY <1>1, <2>2
    <3>2. Index(r, i + s) \in T
      BY <1>1, <3>1, TracksFacts
    <3> QED
      BY <1>1, <3>1, <3>2
  <2> QED
    BY <2>1, <2>2
<1>3. ASSUME NEW i \in 1 .. next.length, NEW j \in 1 .. next.length, i < j
      PROVE  Index(next, i) + (j - i) <= Index(next, j)
  <2>1. i \in 1 .. m /\ i + s \in 1 .. n /\ Index(next, i) = Index(r, i + s)
        /\ Index(next, i) \in Int /\ Index(next, i) < b
    <3>1. i \in 1 .. m
      BY <1>1, <1>3
    <3> QED
      BY <1>1, <3>1
  <2>2. CASE j = m + 1
    <3>1. m \in 1 .. m /\ Index(next, m) < b /\ Index(next, m) \in Int /\ m + s \in 1 .. n
          /\ Index(next, m) = Index(r, m + s)
      <4>1. m \in 1 .. m
        BY <1>1, <2>1
      <4> QED
        BY <1>1, <4>1
    <3>2. Index(r, i + s) + (m - i) <= Index(r, m + s)
      <4>1. CASE i = m
        BY <1>1, <2>1, <3>1, <4>1
      <4>2. CASE i < m
        <5>1. i + s < m + s /\ (m + s) - (i + s) = m - i
          BY <1>1, <2>1, <4>2
        <5>2. Index(r, i + s) + ((m + s) - (i + s)) <= Index(r, m + s)
          BY <2>1, <3>1, <5>1 DEF Tracks
        <5> QED
          BY <5>1, <5>2
      <4> QED
        BY <1>1, <2>1, <4>1, <4>2
    <3>3. Index(next, j) = b /\ j - i = (m - i) + 1
      BY <1>1, <2>1, <2>2
    <3> QED
      BY <1>1, <2>1, <3>1, <3>2, <3>3
  <2>3. CASE j # m + 1
    <3>1. j \in 1 .. m
      BY <1>1, <2>3
    <3>2. j + s \in 1 .. n /\ Index(next, j) = Index(r, j + s)
      BY <1>1, <3>1
    <3>3. i + s < j + s /\ (j + s) - (i + s) = j - i
      BY <1>1, <1>3, <2>1, <3>1
    <3>4. Index(r, i + s) + ((j + s) - (i + s)) <= Index(r, j + s)
      BY <2>1, <3>2, <3>3 DEF Tracks
    <3> QED
      BY <2>1, <3>2, <3>3, <3>4
  <2> QED
    BY <2>2, <2>3
<1>4. \A c \in U : c \in Int /\ c <= b
  <2>1. \A c \in T : c \in Int /\ c <= b
    BY DEF Tracks, b
  <2> QED
    BY <1>1, <2>1
<1>5. ASSUME NEW c \in U
      PROVE  \/ \E i \in 1 .. next.length : Index(next, i) = c
             \/ IsFullRing(next) /\ c < Index(next, 1)
  <2>1. c = b => \E i \in 1 .. next.length : Index(next, i) = c
    <3>1. m + 1 \in 1 .. next.length
      BY <1>1
    <3> QED
      BY <1>1, <3>1
  <2>2. CASE c # b
    <3>0. c \in T /\ c \in Int
      BY <1>4, <2>2
    <3>1. CASE \E i \in 1 .. n : Index(r, i) = c
      <4>1. PICK i \in 1 .. n : Index(r, i) = c
        BY <3>1
      <4>2. CASE i - s \in 1 .. m
        <5>1. (i - s) + s = i /\ i - s \in 1 .. next.length
          BY <1>1, <4>1, <4>2
        <5>2. Index(next, i - s) = c
          BY <1>1, <4>1, <4>2, <5>1
        <5> QED
          BY <5>1, <5>2
      <4>3. CASE i - s \notin 1 .. m
        <5>1. ~ same /\ s = 1 /\ i = 1
          <6>1. same => i # n
            BY <1>1, <2>2, <4>1
          <6>2. CASE same
            BY <1>1, <4>3, <6>1, <6>2
          <6>3. CASE ~ same
            BY <1>1, <4>3, <6>3
          <6> QED
            BY <6>2, <6>3
        <5>2. IsFullRing(r) /\ n = m + 1
          BY <1>1, <5>1 DEF Shift, s
        <5>3. IsFullRing(next)
          BY <1>1, <5>2 DEF IsFullRing
        <5>4. c < Index(next, 1)
          <6>1. CASE m = 0
            BY <1>1, <1>4, <2>2, <6>1
          <6>2. CASE m # 0
            <7>1. 1 \in 1 .. m /\ 2 \in 1 .. n /\ 1 \in 1 .. n
              BY <1>1, <5>2, <6>2
            <7>2. Index(next, 1) = Index(r, 1 + 1)
              BY <1>1, <5>1, <7>1
            <7>3. Index(r, 1) < Index(r, 2)
              BY <7>1, TracksFacts
            <7> QED
              BY <4>1, <5>1, <7>2, <7>3
          <6> QED
            BY <6>1, <6>2
        <5> QED
          BY <5>3, <5>4
      <4> QED
        BY <4>2, <4>3
    <3>2. CASE IsFullRing(r) /\ c < Index(r, 1)
      <4>1. n = r.capacity /\ r.capacity \in Nat \ {0}
        BY <3>2, TracksFacts DEF IsFullRing
      <4>2. m + 1 = n
        <5>1. ~ same => s = 1
          BY <3>2 DEF Shift, s
        <5>2. CASE same
          BY <1>1, <5>2
        <5>3. CASE ~ same
          BY <1>1, <5>1, <5>3
        <5> QED
          BY <5>2, <5>3
      <4>3. IsFullRing(next)
        BY <1>1, <4>1, <4>2 DEF IsFullRing
      <4>4. c < Index(next, 1)
        <5>1. CASE m = 0
          BY <1>1, <1>4, <2>2, <5>1
        <5>2. CASE m # 0
          <6>1. 1 \in 1 .. m /\ 1 + s \in 1 .. n /\ 1 \in 1 .. n /\ 1 <= 1 + s
            BY <1>1, <5>2
          <6>2. Index(next, 1) = Index(r, 1 + s)
            BY <1>1, <6>1
          <6>3. Index(r, 1) <= Index(r, 1 + s) /\ Index(r, 1) \in Int /\ Index(r, 1 + s) \in Int
            BY <6>1, TracksFacts
          <6> QED
            BY <3>0, <3>2, <6>2, <6>3
        <5> QED
          BY <5>1, <5>2
      <4> QED
        BY <4>3, <4>4
    <3> QED
      BY <3>0, <3>1, <3>2 DEF Tracks
  <2> QED
    BY <2>1, <2>2
<1> QED
  BY <1>1, <1>2, <1>3, <1>4, <1>5 DEF Tracks, b

(* A bucket that is evicted, or the one that is written to again: the      *)
(* former has left every window and the latter none.                       *)
LEMMA RecordedParts ==
  ASSUME NEW r, NEW T, NEW t \in Int, Tracks(r, T, t),
         NEW next, NEW same, NEW bucket, RecordedAt(r, next, same, bucket, t),
         NEW d, IsDuration(d, r.capacity), NEW o, Parts(r, o, d, t)
  PROVE  /\ o \in Shift(r, same) .. r.length /\ (same => o < r.length)
         /\ Parts(next, o - Shift(r, same), d, t)
<1> DEFINE n == r.length
           s == Shift(r, same)
           m == Kept(r, same)
           b == BucketOf(t)
<1>1. /\ next.length = m + 1 /\ m \in Nat /\ s \in {0, 1} /\ n \in Nat /\ b \in Int
      /\ same => n > 0 /\ m = n - 1 /\ s = 0 /\ Index(r, n) = b
      /\ ~ same => n = m + s
      /\ \A k \in 1 .. m : k + s \in 1 .. n /\ Index(next, k) = Index(r, k + s)
      /\ Index(next, m + 1) = b
      /\ same \in BOOLEAN
      /\ r.capacity \in Nat \ {0}
  <2>1. Index(next, m + 1) = b /\ same \in BOOLEAN /\ r.capacity \in Nat \ {0}
    BY RecordedFacts, TracksFacts DEF RecordedAt, IsSame
  <2> QED
    BY <2>1, RecordedFacts
<1>2. o \in 0 .. n /\ \A i \in 1 .. n : i <= o <=> Gone(Index(r, i), d, t)
  BY DEF Parts
<1>3. ~ Gone(b, d, t)
  BY <1>1, CurrentStays
<1>4. same => o < n
  <2>1. SUFFICES ASSUME same
                 PROVE  o < n
    OBVIOUS
  <2>2. n \in 1 .. n /\ ~ (n <= o)
    BY <1>1, <1>2, <1>3, <2>1
  <2> QED
    BY <1>1, <1>2, <2>2
<1>5. s = 1 => 1 <= o
  <2>1. SUFFICES ASSUME s = 1
                 PROVE  1 <= o
    OBVIOUS
  <2>2. n = r.capacity /\ ~ same
    BY <2>1 DEF Shift, IsFullRing
  <2>3. 1 \in 1 .. n /\ n \in 1 .. n
    BY <1>1, <2>2
  <2>4. Index(r, 1) + (n - 1) <= Index(r, n) /\ Index(r, 1) \in Int /\ Index(r, n) \in Int
        /\ Index(r, n) <= b
    <3>1. Index(r, 1) \in Int /\ Index(r, n) \in Int /\ Index(r, n) <= b
      BY <2>3, TracksFacts
    <3>2. CASE n = 1
      BY <3>1, <3>2
    <3>3. CASE n # 1
      <4>1. 1 < n
        BY <1>1, <2>3, <3>3
      <4> QED
        BY <2>3, <3>1, <4>1 DEF Tracks
    <3> QED
      BY <3>2, <3>3
  <2>5. Gone(Index(r, 1), d, t)
    <3>1. Index(r, 1) + (r.capacity - 1) <= b
      BY <1>1, <2>2, <2>4
    <3> QED
      BY <1>1, <2>4, <3>1, AgedIsGone
  <2> QED
    BY <1>2, <2>3, <2>5
<1> HIDE DEF m, s, b
<1>6. o \in s .. n /\ o - s \in 0 .. next.length
  <2>1. o \in s .. n
    BY <1>1, <1>2, <1>5
  <2>2. CASE same
    BY <1>1, <1>2, <1>4, <2>1, <2>2
  <2>3. CASE ~ same
    BY <1>1, <1>2, <2>1, <2>3
  <2> QED
    BY <2>1, <2>2, <2>3
<1>7. ASSUME NEW i \in 1 .. next.length
      PROVE  i <= o - s <=> Gone(Index(next, i), d, t)
  <2>1. CASE i = m + 1
    <3>1. ~ (i <= o - s)
      <4>1. CASE same
        BY <1>1, <1>2, <1>4, <2>1, <4>1
      <4>2. CASE ~ same
        BY <1>1, <1>2, <2>1, <4>2
      <4> QED
        BY <4>1, <4>2
    <3> QED
      BY <1>1, <1>3, <2>1, <3>1
  <2>2. CASE i # m + 1
    <3>1. i \in 1 .. m
      BY <1>1, <2>2
    <3>2. i + s \in 1 .. n /\ Index(next, i) = Index(r, i + s)
      BY <1>1, <3>1
    <3>3. i <= o - s <=> i + s <= o
      BY <1>1, <1>2, <3>1
    <3> QED
      BY <1>2, <3>2, <3>3
  <2> QED
    BY <2>1, <2>2
<1> QED
  BY <1>4, <1>6, <1>7 DEF Parts, s

(* What the ring holds from an offset on grows by what was recorded. *)
Moved(r, u, v, same) == \A k \in 1 .. Kept(r, same) : u[k] = v[k + Shift(r, same)]

Grown(r, next, u, v, same, delta) ==
  /\ \A k \in 1 .. r.length : v[k] \in Int
  /\ Moved(r, u, v, same)
  /\ delta \in Int
  /\ u[next.length] = (IF same THEN v[r.length] ELSE 0) + delta

OffsetFits(r, same, o) == o \in Shift(r, same) .. r.length /\ (same => o < r.length)

LEMMA RecordedSum ==
  ASSUME NEW r, NEW T, NEW t \in Int, Tracks(r, T, t),
         NEW next, NEW same, NEW bucket, RecordedAt(r, next, same, bucket, t),
         NEW v, NEW u, NEW delta, Grown(r, next, u, v, same, delta),
         NEW o, OffsetFits(r, same, o)
  PROVE  RangeSum(u, o - Shift(r, same), next.length) = RangeSum(v, o, r.length) + delta
<1> DEFINE n == r.length
           s == Shift(r, same)
           m == Kept(r, same)
           e == IF same THEN v[n] ELSE 0
<1>0. /\ \A k \in 1 .. r.length : v[k] \in Int
      /\ \A k \in 1 .. Kept(r, same) : u[k] = v[k + Shift(r, same)]
      /\ delta \in Int
      /\ u[next.length] = e + delta
  BY DEF Grown, Moved
<1>1. /\ next.length = m + 1 /\ m \in Nat /\ s \in {0, 1} /\ n \in Nat
      /\ same => n > 0 /\ m = n - 1 /\ s = 0
      /\ ~ same => n = m + s
      /\ \A k \in 1 .. m : k + s \in 1 .. n
      /\ same \in BOOLEAN
  <2>1. same \in BOOLEAN
    BY DEF RecordedAt, IsSame
  <2> QED
    BY <2>1, RecordedFacts
<1>2. e \in Int
  <2>1. same => n \in 1 .. n
    BY <1>1
  <2> QED
    BY <1>0, <2>1
<1>3. \A k \in 1 .. m : u[k] = v[k + s] /\ u[k] \in Int
  BY <1>0, <1>1
<1>4. u[m + 1] = e + delta /\ u[m + 1] \in Int
  BY <1>0, <1>1, <1>2
<1>5. o \in s .. n /\ (same => o < n)
  BY DEF OffsetFits
<1> HIDE DEF m, s, e
<1>6. o - s \in Int /\ o - s < m + 1 /\ o \in Int /\ 0 <= o - s
  <2>1. CASE same
    BY <1>0, <1>1, <1>5, <2>1
  <2>2. CASE ~ same
    BY <1>0, <1>1, <1>5, <2>2
  <2> QED
    BY <2>1, <2>2
<1>7. RangeSum(u, o - s, m + 1) = RangeSum(u, o - s, m) + u[m + 1]
  <2>1. \A k \in (o - s) + 1 .. m + 1 : u[k] \in Int
    <3>1. SUFFICES ASSUME NEW k \in (o - s) + 1 .. m + 1
                   PROVE  u[k] \in Int
      OBVIOUS
    <3>2. k = m + 1 \/ k \in 1 .. m
      BY <1>1, <1>6
    <3> QED
      BY <1>3, <1>4, <3>2
  <2> DEFINE i == o - s
             j == m + 1
  <2>2. i \in Int /\ j \in Int /\ i < j /\ j - 1 = m /\ \A k \in i + 1 .. j : u[k] \in Int
    BY <1>1, <1>6, <2>1
  <2> HIDE DEF i, j
  <2>3. RangeSum(u, i, j) = RangeSum(u, i, j - 1) + u[j]
    BY <2>2, RangeLast
  <2> QED
    BY <2>2, <2>3 DEF i, j
<1>8. RangeSum(u, o - s, m) = RangeSum(v, o, m + s)
  <2> DEFINE i == o - s
  <2>1. i \in Int /\ m \in Int /\ s \in Int /\ i + s = o
    BY <1>1, <1>6
  <2>2. ShiftedBy(u, v, i, m, s)
    BY <1>1, <1>3, <1>6 DEF ShiftedBy
  <2> HIDE DEF i
  <2>3. RangeSum(u, i, m) = RangeSum(v, i + s, m + s)
    BY ONLY <2>1, <2>2, RangeShift
  <2> QED
    BY <2>1, <2>3 DEF i
<1>9. RangeSum(v, o, n) = RangeSum(v, o, m + s) + e
  <2>1. CASE same
    <3>1. m + s = n - 1 /\ o < n /\ n \in Int /\ e = v[n]
      BY <1>0, <1>1, <1>5, <2>1 DEF e
    <3>2. \A k \in o + 1 .. n : v[k] \in Int
      BY <1>0, <1>1, <1>5
    <3>3. RangeSum(v, o, n) = RangeSum(v, o, n - 1) + v[n]
      BY <1>6, <3>1, <3>2, RangeLast
    <3> QED
      BY <3>1, <3>3
  <2>2. CASE ~ same
    <3>1. n = m + s /\ e = 0
      BY <1>1, <2>2 DEF e
    <3>2. RangeSum(v, o, n) \in Int
      <4>1. \A k \in o + 1 .. n : v[k] \in Int
        BY <1>0, <1>1, <1>5
      <4> QED
        BY <1>1, <1>6, <4>1, RangeType
    <3> QED
      BY <3>1, <3>2
  <2> QED
    BY <2>1, <2>2
<1>10. RangeSum(v, o, m + s) \in Int
  <2>1. \A k \in o + 1 .. m + s : v[k] \in Int
    <3>1. SUFFICES ASSUME NEW k \in o + 1 .. m + s
                   PROVE  v[k] \in Int
      OBVIOUS
    <3>2. k \in 1 .. n
      <4>1. CASE same
        BY <1>0, <1>1, <1>5, <4>1
      <4>2. CASE ~ same
        BY <1>0, <1>1, <1>5, <4>2
      <4> QED
        BY <4>1, <4>2
    <3> QED
      BY <1>0, <3>2
  <2> QED
    BY <1>1, <1>6, <2>1, RangeType
<1> QED
  BY <1>0, <1>1, <1>2, <1>4, <1>7, <1>8, <1>9, <1>10 DEF s

-----------------------------------------------------------------------------
(* What the timed indicators have in common at a time: a ring that tracks  *)
(* the buckets traded, and windows that are ready by the time that has     *)
(* passed since the first value.                                           *)

IndicatorFields ==
  {"data", "policy", "windows", "zero", "first", "last", "baseline", "lastSum", "lastCount"}

WindowFields == {"duration", "ready", "value", "frontOffset", "count"}

IsWarm(policy, duration, first, t) ==
  first # Never /\ (policy = "FirstValue" \/ t - first >= duration)

IsWindow(window, capacity) ==
  /\ window = [field \in WindowFields |-> window[field]]
  /\ IsDuration(window.duration, capacity) /\ window.duration <= MaxInt
  /\ window.ready \in BOOLEAN

IsShaped(o) ==
  /\ o = [field \in IndicatorFields |-> o[field]]
  /\ o.windows = [w \in DOMAIN o.windows |-> o.windows[w]]

IsIndicator(o, T, t, first) ==
  /\ IsShaped(o)
  /\ o.last = t /\ o.first = first
  /\ Tracks(o.data, T, t)
  /\ \A w \in DOMAIN o.windows :
       /\ IsWindow(o.windows[w], o.data.capacity)
       /\ o.windows[w].ready <=> IsWarm(o.policy, o.windows[w].duration, first, t)

(* Windows changed in nothing that concerns their being ready. *)
SameWindow(before, after) ==
  /\ after = [field \in WindowFields |-> after[field]]
  /\ after.duration = before.duration /\ after.ready = before.ready

SameWindows(before, after) ==
  /\ after = [w \in DOMAIN before |-> after[w]]
  /\ \A w \in DOMAIN before : SameWindow(before[w], after[w])

(* The same record but for the windows. *)
WithWindows(o, windows) == [o EXCEPT !.windows = windows]

LEMMA DurationIsPositive ==
  ASSUME NEW window, NEW c, IsWindow(window, c)
  PROVE  window.duration \in Nat \ {0}
<1>1. PICK p \in Nat \ {0} : window.duration = p * Aggregation
  BY DEF IsWindow, IsDuration
<1>2. 1 * Aggregation <= p * Aggregation /\ Aggregation \in Nat \ {0}
  BY IndicatorParameters, ProductMonotonic
<1>3. window.duration \in Nat
  BY DEF IsWindow, IsDuration
<1> QED
  BY <1>1, <1>2, <1>3

LEMMA MinOfTwo ==
  ASSUME NEW a \in Int, NEW b \in Int
  PROVE  Min({a, b}) = IF a <= b THEN a ELSE b
<1> DEFINE m == IF a <= b THEN a ELSE b
<1>1. m \in {a, b} /\ \A y \in {a, b} : m <= y
  OBVIOUS
<1>2. Min({a, b}) \in {a, b} /\ \A y \in {a, b} : Min({a, b}) <= y
  BY <1>1 DEF Min
<1> QED
  BY <1>2

(* saturating_sub cannot keep a window from being ready. *)
LEMMA ReadyIsWarm ==
  ASSUME NEW o, NEW window, NEW c, IsWindow(window, c), NEW t \in Int, o.first \in Int,
         window.ready => IsWarm(o.policy, window.duration, o.first, t)
  PROVE  ReadyAt(o, window, t) <=> IsWarm(o.policy, window.duration, o.first, t)
<1>1. window.duration \in Nat /\ window.duration <= MaxInt /\ MaxInt \in Nat
  BY IndicatorParameters DEF IsWindow, IsDuration
<1>2. Min({t - o.first, MaxInt}) = IF t - o.first <= MaxInt THEN t - o.first ELSE MaxInt
  BY <1>1, MinOfTwo
<1>3. Min({t - o.first, MaxInt}) >= window.duration <=> t - o.first >= window.duration
  BY <1>1, <1>2
<1> QED
  BY <1>3 DEF ReadyAt, IsWarm

LEMMA UpdateReadinessFacts ==
  ASSUME NEW o, IsShaped(o), NEW t,
         \A w \in DOMAIN o.windows :
           o.windows[w] = [field \in WindowFields |-> o.windows[w][field]]
  PROVE  LET next == UpdateReadiness(o, t)
         IN  /\ IsShaped(next)
             /\ \A field \in IndicatorFields \ {"windows"} : next[field] = o[field]
             /\ DOMAIN next.windows = DOMAIN o.windows
             /\ \A w \in DOMAIN o.windows :
                  /\ next.windows[w] = [field \in WindowFields |-> next.windows[w][field]]
                  /\ \A field \in WindowFields \ {"ready"} :
                       next.windows[w][field] = o.windows[w][field]
                  /\ next.windows[w].ready = ReadyAt(o, o.windows[w], t)
<1> DEFINE next == UpdateReadiness(o, t)
           ws == [w \in DOMAIN o.windows |->
                    [o.windows[w] EXCEPT !.ready = ReadyAt(o, o.windows[w], t)]]
<1>1. next = [o EXCEPT !.windows = ws]
  BY DEF UpdateReadiness, EachWindow
<1>2. /\ next = [field \in IndicatorFields |-> next[field]]
      /\ next.windows = ws
      /\ \A field \in IndicatorFields \ {"windows"} : next[field] = o[field]
  <2>1. o = [field \in IndicatorFields |-> o[field]] /\ "windows" \in IndicatorFields
    BY DEF IsShaped, IndicatorFields
  <2> HIDE DEF next, ws
  <2> QED
    BY <1>1, <2>1
<1>3. ASSUME NEW w \in DOMAIN o.windows
      PROVE  /\ ws[w] = [field \in WindowFields |-> ws[w][field]]
             /\ \A field \in WindowFields \ {"ready"} : ws[w][field] = o.windows[w][field]
             /\ ws[w].ready = ReadyAt(o, o.windows[w], t)
  <2> DEFINE x == o.windows[w]
             y == ReadyAt(o, x, t)
             z == ws[w]
  <2>1. x = [field \in WindowFields |-> x[field]] /\ "ready" \in WindowFields
    BY DEF WindowFields
  <2>2. z = [x EXCEPT !.ready = y]
    OBVIOUS
  <2> HIDE DEF x, y, z
  <2>3. /\ z = [field \in WindowFields |-> z[field]]
        /\ \A field \in WindowFields \ {"ready"} : z[field] = x[field]
        /\ z.ready = y
    BY <2>1, <2>2
  <2> QED
    BY <2>3 DEF x, y, z
<1>4. DOMAIN ws = DOMAIN o.windows
  OBVIOUS
<1> HIDE DEF ws, next
<1> QED
  <2>1. IsShaped(next)
    <3>1. ws = [w \in DOMAIN ws |-> ws[w]]
      BY DEF ws
    <3> QED
      BY <1>2, <3>1 DEF IsShaped
  <2> QED
    BY <1>2, <1>3, <1>4, <2>1 DEF next

LEMMA WarmLater ==
  ASSUME NEW policy, NEW duration, NEW first \in Int, NEW s \in Int, NEW t \in Int, s <= t,
         duration \in Int, IsWarm(policy, duration, first, s)
  PROVE  IsWarm(policy, duration, first, t)
BY DEF IsWarm

(* The first value starts the warmup. *)
Begun(first, t) == IF first = Never THEN t ELSE first

StartedAs(o, next, T, s, first) ==
  /\ IsIndicator(next, T, s, first)
  /\ \A field \in IndicatorFields \ {"windows", "first"} : next[field] = o[field]
  /\ DOMAIN next.windows = DOMAIN o.windows
  /\ \A w \in DOMAIN o.windows : \A field \in WindowFields \ {"ready"} :
       next.windows[w][field] = o.windows[w][field]

LEMMA StartingKeeps ==
  ASSUME NEW o, NEW T, NEW s \in Int, NEW t \in Int, s <= t, t # Never,
         NEW first \in Int, IsIndicator(o, T, s, first)
  PROVE  StartedAs(o, Starting(o, t), T, s, Begun(first, t))
<1> DEFINE begun == Begun(first, t)
           next == Starting(o, t)
<1>1. CASE first # Never
  <2>1. next = o /\ begun = first
    BY <1>1 DEF Starting, IsIndicator, Begun
  <2> QED
    BY <2>1 DEF StartedAs
<1>2. CASE first = Never
  <2> DEFINE at == [o EXCEPT !.first = t]
  <2>1. next = UpdateReadiness(at, t) /\ begun = t
    BY <1>2 DEF Starting, IsIndicator, Begun
  <2>2. /\ IsShaped(at) /\ at.first = t /\ at.windows = o.windows
        /\ \A field \in IndicatorFields \ {"first"} : at[field] = o[field]
    <3>1. o = [field \in IndicatorFields |-> o[field]] /\ "first" \in IndicatorFields
          /\ "windows" \in IndicatorFields
      BY DEF IsIndicator, IsShaped, IndicatorFields
    <3>2. /\ at = [field \in IndicatorFields |-> at[field]]
          /\ \A field \in IndicatorFields \ {"first"} : at[field] = o[field]
          /\ at["first"] = t
      BY <3>1
    <3> HIDE DEF at
    <3>3. at.windows = o.windows
      BY <3>1, <3>2
    <3> QED
      BY <3>2, <3>3 DEF IsShaped, IsIndicator
  <2> HIDE DEF at, next, begun
  <2>3. at.data = o.data /\ at.policy = o.policy /\ at.last = o.last
    BY <2>2 DEF IndicatorFields
  <2>4. \A w \in DOMAIN o.windows :
          /\ IsWindow(o.windows[w], o.data.capacity)
          /\ o.windows[w] = [field \in WindowFields |-> o.windows[w][field]]
          /\ o.windows[w].ready = FALSE
    BY <1>2 DEF IsIndicator, IsWindow, IsWarm
  <2>5. /\ IsShaped(next)
        /\ \A field \in IndicatorFields \ {"windows"} : next[field] = at[field]
        /\ DOMAIN next.windows = DOMAIN o.windows
        /\ \A w \in DOMAIN o.windows :
             /\ next.windows[w] = [field \in WindowFields |-> next.windows[w][field]]
             /\ \A field \in WindowFields \ {"ready"} :
                  next.windows[w][field] = o.windows[w][field]
             /\ next.windows[w].ready = ReadyAt(at, o.windows[w], t)
    BY <2>1, <2>2, <2>4, UpdateReadinessFacts
  <2>6. next.data = o.data /\ next.policy = o.policy /\ next.last = s /\ next.first = t
    <3>1. next["data"] = at["data"] /\ next["policy"] = at["policy"] /\ next["last"] = at["last"]
          /\ next["first"] = at["first"]
      BY <2>5 DEF IndicatorFields
    <3> QED
      BY <2>2, <2>3, <3>1 DEF IsIndicator
  <2>7. ASSUME NEW w \in DOMAIN o.windows
        PROVE  /\ IsWindow(next.windows[w], next.data.capacity)
               /\ next.windows[w].ready <=> IsWarm(next.policy, next.windows[w].duration, t, s)
    <3> DEFINE x == o.windows[w]
               y == next.windows[w]
    <3>1. y = [field \in WindowFields |-> y[field]] /\ y.duration = x.duration
          /\ y.ready = ReadyAt(at, x, t)
      BY <2>5 DEF WindowFields
    <3>2. IsWindow(x, o.data.capacity) /\ x.ready = FALSE
      BY <2>4
    <3> HIDE DEF x, y
    <3>3. y.ready <=> IsWarm(at.policy, x.duration, t, t)
      BY <2>2, <3>1, <3>2, ReadyIsWarm
    <3>4. x.duration \in Nat \ {0}
      BY <3>2, DurationIsPositive
    <3>5. IsWarm(at.policy, x.duration, t, t) <=> IsWarm(next.policy, y.duration, t, s)
      BY <2>3, <2>6, <3>1, <3>4 DEF IsWarm
    <3>6. IsWindow(y, next.data.capacity)
      BY <2>6, <3>1, <3>2 DEF IsWindow, ReadyAt
    <3> QED
      BY <3>3, <3>5, <3>6 DEF y
  <2>8. IsIndicator(next, T, s, t)
    BY <2>5, <2>6, <2>7 DEF IsIndicator
  <2>9. \A field \in IndicatorFields \ {"windows", "first"} : next[field] = o[field]
    BY <2>2, <2>5
  <2> QED
    BY <2>1, <2>5, <2>8, <2>9 DEF StartedAs, begun, next
<1> QED
  BY <1>1, <1>2

(* The time of an event, when the windows have passed what has left them.  *)
Observed(o, passed, t) == UpdateReadiness([WithWindows(o, passed) EXCEPT !.last = t], t)

ObservedAs(o, passed, next, T, t, first) ==
  /\ IsIndicator(next, T, t, first)
  /\ \A field \in IndicatorFields \ {"windows", "last"} : next[field] = o[field]
  /\ DOMAIN next.windows = DOMAIN o.windows
  /\ \A w \in DOMAIN o.windows : \A field \in WindowFields \ {"ready"} :
       next.windows[w][field] = passed[w][field]

LEMMA ObservingKeeps ==
  ASSUME NEW o, NEW T, NEW s \in Int, NEW t \in Int, s <= t,
         NEW first \in Int, IsIndicator(o, T, s, first),
         NEW passed, SameWindows(o.windows, passed)
  PROVE  ObservedAs(o, passed, Observed(o, passed, t), T, t, first)
<1> DEFINE at == [WithWindows(o, passed) EXCEPT !.last = t]
           next == UpdateReadiness(at, t)
<1>1. /\ at = [field \in IndicatorFields |-> at[field]]
      /\ \A field \in IndicatorFields \ {"windows", "last"} : at[field] = o[field]
      /\ at["windows"] = passed /\ at["last"] = t
  <2>1. o = [field \in IndicatorFields |-> o[field]] /\ "last" \in IndicatorFields
        /\ "windows" \in IndicatorFields
    BY DEF IsIndicator, IsShaped, IndicatorFields
  <2> QED
    BY <2>1 DEF WithWindows
<1> HIDE DEF at, next
<1>2. IsShaped(at) /\ at.windows = passed /\ DOMAIN passed = DOMAIN o.windows
  BY <1>1 DEF IsShaped, SameWindows
<1>3. at.data = o.data /\ at.policy = o.policy /\ at.last = t /\ at.first = first
  <2>1. at["data"] = o["data"] /\ at["policy"] = o["policy"] /\ at["first"] = o["first"]
    BY <1>1 DEF IndicatorFields
  <2> QED
    BY <1>1, <2>1 DEF IsIndicator
<1>4. ASSUME NEW w \in DOMAIN o.windows
      PROVE  /\ passed[w] = [field \in WindowFields |-> passed[w][field]]
             /\ IsWindow(passed[w], o.data.capacity)
             /\ passed[w].ready => IsWarm(at.policy, passed[w].duration, at.first, t)
  <2>1. /\ passed[w] = [field \in WindowFields |-> passed[w][field]]
        /\ passed[w].duration = o.windows[w].duration
        /\ passed[w].ready = o.windows[w].ready
    BY DEF SameWindows, SameWindow
  <2>2. /\ IsWindow(o.windows[w], o.data.capacity)
        /\ o.windows[w].ready <=> IsWarm(o.policy, o.windows[w].duration, first, s)
    BY DEF IsIndicator
  <2>3. IsWindow(passed[w], o.data.capacity)
    BY <2>1, <2>2 DEF IsWindow
  <2>4. passed[w].duration \in Int
    BY <2>3, DurationIsPositive
  <2> QED
    BY <1>3, <2>1, <2>2, <2>3, <2>4, WarmLater
<1>5. /\ IsShaped(next)
      /\ \A field \in IndicatorFields \ {"windows"} : next[field] = at[field]
      /\ DOMAIN next.windows = DOMAIN o.windows
      /\ \A w \in DOMAIN o.windows :
           /\ next.windows[w] = [field \in WindowFields |-> next.windows[w][field]]
           /\ \A field \in WindowFields \ {"ready"} : next.windows[w][field] = passed[w][field]
           /\ next.windows[w].ready = ReadyAt(at, passed[w], t)
  BY <1>2, <1>4, UpdateReadinessFacts DEF next
<1>6. next.data = o.data /\ next.policy = o.policy /\ next.last = t /\ next.first = first
  <2>1. next["data"] = at["data"] /\ next["policy"] = at["policy"] /\ next["last"] = at["last"]
        /\ next["first"] = at["first"]
    BY <1>5 DEF IndicatorFields
  <2> QED
    BY <1>3, <2>1
<1>7. ASSUME NEW w \in DOMAIN o.windows
      PROVE  /\ IsWindow(next.windows[w], next.data.capacity)
             /\ next.windows[w].ready <=> IsWarm(next.policy, next.windows[w].duration, first, t)
  <2> DEFINE x == passed[w]
             y == next.windows[w]
  <2>1. y = [field \in WindowFields |-> y[field]] /\ y.duration = x.duration
        /\ y.ready = ReadyAt(at, x, t)
    BY <1>5 DEF WindowFields
  <2>2. IsWindow(x, o.data.capacity) /\ (x.ready => IsWarm(at.policy, x.duration, at.first, t))
    BY <1>4
  <2> HIDE DEF x, y
  <2>3. y.ready <=> IsWarm(at.policy, x.duration, at.first, t)
    BY <1>3, <2>1, <2>2, ReadyIsWarm
  <2>4. IsWindow(y, next.data.capacity)
    BY <1>6, <2>1, <2>2 DEF IsWindow, ReadyAt
  <2> QED
    BY <1>3, <1>6, <2>1, <2>3, <2>4 DEF y
<1>8. IsIndicator(next, T, t, first)
  <2>1. Tracks(o.data, T, t)
    BY TracksLater DEF IsIndicator
  <2> QED
    BY <1>5, <1>6, <1>7, <2>1 DEF IsIndicator
<1>9. \A field \in IndicatorFields \ {"windows", "last"} : next[field] = o[field]
  BY <1>1, <1>5
<1>10. next = Observed(o, passed, t)
  BY DEF next, at, Observed
<1> QED
  BY <1>5, <1>8, <1>9, <1>10 DEF ObservedAs

(* A value recorded at that time. *)
LEMMA RecordingKeeps ==
  ASSUME NEW o, NEW T, NEW t \in Int, NEW first \in Int, IsIndicator(o, T, t, first),
         NEW next, IsShaped(next), NEW same, NEW bucket,
         RecordedAt(o.data, next.data, same, bucket, t),
         next.policy = o.policy, next.first = o.first, next.last = o.last,
         SameWindows(o.windows, next.windows)
  PROVE  IsIndicator(next, T \cup {BucketOf(t)}, t, first)
<1>1. Tracks(next.data, T \cup {BucketOf(t)}, t) /\ next.data.capacity = o.data.capacity
  BY RecordedTracks, RecordedFacts DEF IsIndicator
<1>2. ASSUME NEW w \in DOMAIN next.windows
      PROVE  /\ IsWindow(next.windows[w], next.data.capacity)
             /\ next.windows[w].ready <=> IsWarm(next.policy, next.windows[w].duration, first, t)
  <2>1. w \in DOMAIN o.windows
    BY DEF SameWindows
  <2>2. SameWindow(o.windows[w], next.windows[w])
    BY <2>1 DEF SameWindows
  <2>3. /\ IsWindow(o.windows[w], o.data.capacity)
        /\ o.windows[w].ready <=> IsWarm(o.policy, o.windows[w].duration, first, t)
    BY <2>1 DEF IsIndicator
  <2> QED
    BY <1>1, <2>2, <2>3 DEF SameWindow, IsWindow
<1> QED
  BY <1>1, <1>2 DEF IsIndicator

-----------------------------------------------------------------------------
(* Rolling sums: each window's is what the ring holds from its offset on.  *)

ValuesOf(r, sum) == [k \in 1 .. r.length |-> Items(r)[k].values[sum]]

IsPair(pair) == pair = [sum \in 1 .. 2 |-> pair[sum]] /\ \A sum \in 1 .. 2 : pair[sum] \in Int

SumHolds(r, window, t) ==
  /\ Parts(r, window.frontOffset, window.duration, t)
  /\ window.value = [sum \in 1 .. 2 |-> window.value[sum]]
  /\ \A sum \in 1 .. 2 :
       window.value[sum] = RangeSum(ValuesOf(r, sum), window.frontOffset, r.length)

SumsHold(o, t) ==
  /\ \A k \in 1 .. o.data.length : IsPair(Items(o.data)[k].values)
  /\ \A w \in DOMAIN o.windows : SumHolds(o.data, o.windows[w], t)

LEMMA HeldIsRange ==
  ASSUME NEW r, NEW sum, NEW i \in Nat, NEW j \in Int, r.length \in Nat, j <= r.length
  PROVE  HeldBy(Items(r), sum, i, j) = RangeSum(ValuesOf(r, sum), i, j)
<1>1. [k \in i + 1 .. j |-> Items(r)[k].values[sum]] = [k \in i + 1 .. j |-> ValuesOf(r, sum)[k]]
  <2>1. \A k \in i + 1 .. j : k \in 1 .. r.length
    OBVIOUS
  <2>2. \A k \in i + 1 .. j : Items(r)[k].values[sum] = ValuesOf(r, sum)[k]
    BY <2>1 DEF ValuesOf
  <2> QED
    BY <2>2
<1> QED
  BY <1>1 DEF HeldBy, RangeSum

(* A window passes what has left it and gives up what it held of it. *)
LEMMA SumsExpire ==
  ASSUME NEW o, NEW T, NEW s \in Int, NEW t \in Int, s <= t, NEW first,
         IsIndicator(o, T, s, first), SumsHold(o, s), NEW w \in DOMAIN o.windows
  PROVE  LET x == ExpireSums(Items(o.data), o.windows[w], t)
         IN  SameWindow(o.windows[w], x) /\ SumHolds(o.data, x, t)
<1> DEFINE r == o.data
           n == r.length
           y == o.windows[w]
           f == y.frontOffset
           p == OffsetAt(Items(r), y, t)
           x == ExpireSums(Items(r), y, t)
           v(sum) == ValuesOf(r, sum)
<1>1. /\ Tracks(r, T, s) /\ IsWindow(y, r.capacity) /\ y.duration \in Nat
      /\ y = [field \in WindowFields |-> y[field]]
      /\ SumHolds(r, y, s)
  BY DEF IsIndicator, SumsHold, IsWindow, IsDuration
<1>2. n \in Nat /\ Len(Items(r)) = n /\ f \in 0 .. n
  BY <1>1, TracksFacts DEF SumHolds, Parts
<1>3. Parts(r, p, y.duration, t) /\ f <= p /\ f \in Int /\ p \in Int /\ p <= n
  <2>1. Parts(r, f, y.duration, s)
    BY <1>1 DEF SumHolds
  <2>2. Parts(r, p, y.duration, t) /\ f <= p /\ f \in Int /\ p \in Int
    BY <1>1, <2>1, OffsetAtParts
  <2> QED
    BY <1>2, <2>2 DEF Parts
<1> DEFINE new == [sum \in DOMAIN y.value |->
                     IF p = n THEN 0 ELSE y.value[sum] - HeldBy(Items(r), sum, f, p)]
<1>4. x = [y EXCEPT !.value = new, !.frontOffset = p]
  BY <1>2 DEF ExpireSums
<1>5. DOMAIN y.value = 1 .. 2 /\ new = [sum \in 1 .. 2 |-> new[sum]]
  BY <1>1 DEF SumHolds
<1>6. ASSUME NEW sum \in 1 .. 2
      PROVE  new[sum] = RangeSum(v(sum), p, n)
  <2>1. \A k \in f + 1 .. n : v(sum)[k] \in Int
    <3>1. \A k \in 1 .. n : v(sum)[k] \in Int
      BY DEF SumsHold, IsPair, ValuesOf
    <3> QED
      BY <1>2, <3>1
  <2>2. RangeSum(v(sum), f, n) = RangeSum(v(sum), f, p) + RangeSum(v(sum), p, n)
    <3> HIDE DEF v, p, f, n
    <3> QED
      BY <1>2, <1>3, <2>1, RangeSplit
  <2>3. RangeSum(v(sum), f, p) \in Int /\ RangeSum(v(sum), p, n) \in Int
    <3>1. \A k \in f + 1 .. p : v(sum)[k] \in Int
      BY <1>2, <1>3, <2>1
    <3>2. \A k \in p + 1 .. n : v(sum)[k] \in Int
      BY <1>2, <1>3, <2>1
    <3> HIDE DEF v, p, f, n
    <3> QED
      BY <1>2, <1>3, <3>1, <3>2, RangeType
  <2>4. y.value[sum] = RangeSum(v(sum), f, n)
    BY <1>1 DEF SumHolds
  <2>5. HeldBy(Items(r), sum, f, p) = RangeSum(v(sum), f, p)
    <3> HIDE DEF p
    <3> QED
      BY <1>2, <1>3, HeldIsRange
  <2>6. p = n => RangeSum(v(sum), p, n) = 0
    <3> HIDE DEF v, p, f, n
    <3> QED
      BY <1>2, <1>3, RangeEmpty
  <2>7. new[sum] = IF p = n THEN 0 ELSE y.value[sum] - HeldBy(Items(r), sum, f, p)
    BY <1>5
  <2> HIDE DEF new, v, p, f, n
  <2> QED
    BY <2>2, <2>3, <2>4, <2>5, <2>6, <2>7
<1> HIDE DEF new, p, x
<1>7. /\ x = [field \in WindowFields |-> x[field]]
      /\ x.duration = y.duration /\ x.ready = y.ready /\ x.value = new /\ x.frontOffset = p
  <2> HIDE DEF y
  <2> QED
    BY <1>1, <1>4 DEF WindowFields
<1>8. SameWindow(y, x)
  BY <1>7 DEF SameWindow
<1>9. SumHolds(r, x, t)
  BY <1>3, <1>5, <1>6, <1>7 DEF SumHolds
<1> QED
  BY <1>8, <1>9 DEF x

LEMMA ObserveSumsKeeps ==
  ASSUME NEW o, NEW T, NEW s \in Int, NEW t \in Int, s <= t, NEW first \in Int,
         IsIndicator(o, T, s, first), SumsHold(o, s)
  PROVE  LET next == ObserveSums(o, t)
         IN  /\ IsIndicator(next, T, t, first) /\ SumsHold(next, t)
             /\ next.data = o.data /\ next.policy = o.policy
             /\ DOMAIN next.windows = DOMAIN o.windows
<1> DEFINE next == ObserveSums(o, t)
<1>1. CASE o.last = t
  <2>1. next = o /\ s = t
    BY <1>1 DEF ObserveSums, Observing, IsIndicator
  <2> QED
    BY <2>1
<1>2. CASE o.last # t
  <2> DEFINE passed == [w \in DOMAIN o.windows |-> ExpireSums(Items(o.data), o.windows[w], t)]
  <2>1. next = Observed(o, passed, t)
    BY <1>2 DEF ObserveSums, Observing, Observed, EachWindow, WithWindows
  <2>2. \A w \in DOMAIN o.windows :
          SameWindow(o.windows[w], passed[w]) /\ SumHolds(o.data, passed[w], t)
    BY SumsExpire
  <2>3. SameWindows(o.windows, passed)
    BY <2>2 DEF SameWindows
  <2> HIDE DEF passed, next
  <2>4. /\ IsIndicator(next, T, t, first)
        /\ \A field \in IndicatorFields \ {"windows", "last"} : next[field] = o[field]
        /\ DOMAIN next.windows = DOMAIN o.windows
        /\ \A w \in DOMAIN o.windows : \A field \in WindowFields \ {"ready"} :
             next.windows[w][field] = passed[w][field]
    <3>1. ObservedAs(o, passed, next, T, t, first)
      BY <2>1, <2>3, ObservingKeeps
    <3> QED
      BY <3>1 DEF ObservedAs
  <2>5. next.data = o.data /\ next.policy = o.policy
    <3>1. next["data"] = o["data"] /\ next["policy"] = o["policy"]
      BY <2>4 DEF IndicatorFields
    <3> QED
      BY <3>1
  <2>6. ASSUME NEW w \in DOMAIN next.windows
        PROVE  SumHolds(next.data, next.windows[w], t)
    <3>1. w \in DOMAIN o.windows
      BY <2>4
    <3>2. /\ next.windows[w].frontOffset = passed[w].frontOffset
          /\ next.windows[w].duration = passed[w].duration
          /\ next.windows[w].value = passed[w].value
      BY <2>4, <3>1 DEF WindowFields
    <3> QED
      BY <2>2, <2>5, <3>1, <3>2 DEF SumHolds
  <2>7. SumsHold(next, t)
    BY <2>5, <2>6 DEF SumsHold
  <2> QED
    BY <2>4, <2>5, <2>7 DEF next
<1> QED
  BY <1>1, <1>2

LEMMA MaxOfTwo ==
  ASSUME NEW a \in Int, NEW b \in Int
  PROVE  Max({a, b}) = IF a >= b THEN a ELSE b
<1> DEFINE m == IF a >= b THEN a ELSE b
<1>1. m \in {a, b} /\ \A y \in {a, b} : m >= y
  OBVIOUS
<1>2. Max({a, b}) \in {a, b} /\ \A y \in {a, b} : Max({a, b}) >= y
  BY <1>1 DEF Max
<1> QED
  BY <1>2

(* What an update does to the offset of a window. *)
OffsetShifted(o, next, same, window, t) ==
  /\ OffsetAfterPush(o, window, same) = window.frontOffset - Shift(o.data, same)
  /\ window.frontOffset \in Shift(o.data, same) .. o.data.length
  /\ same => window.frontOffset < o.data.length
  /\ Parts(next, window.frontOffset - Shift(o.data, same), window.duration, t)

LEMMA OffsetIsShifted ==
  ASSUME NEW o, NEW T, NEW t \in Int, NEW first, IsIndicator(o, T, t, first),
         NEW next, NEW same, NEW bucket, RecordedAt(o.data, next, same, bucket, t),
         NEW w \in DOMAIN o.windows,
         Parts(o.data, o.windows[w].frontOffset, o.windows[w].duration, t)
  PROVE  OffsetShifted(o, next, same, o.windows[w], t)
<1> DEFINE f == o.windows[w].frontOffset
           s == Shift(o.data, same)
<1>1. /\ f \in s .. o.data.length /\ (same => f < o.data.length)
      /\ Parts(next, f - s, o.windows[w].duration, t)
  <2>1. Tracks(o.data, T, t) /\ IsDuration(o.windows[w].duration, o.data.capacity)
    BY DEF IsIndicator, IsWindow
  <2> QED
    BY <2>1, RecordedParts
<1>2. o.data.length \in Nat /\ s \in {0, 1}
  BY TracksFacts DEF IsIndicator, Shift
<1>3. OffsetAfterPush(o, o.windows[w], same) = f - s
  <2>1. CASE s = 1
    <3>1. OffsetAfterPush(o, o.windows[w], same) = Max({f - 1, 0})
      BY <2>1 DEF OffsetAfterPush, Full, Shift
    <3>2. f - 1 \in Int /\ f - 1 >= 0
      BY <1>1, <1>2, <2>1
    <3>3. Max({f - 1, 0}) = f - 1
      <4> DEFINE a == f - 1
      <4>1. a \in Int /\ a >= 0
        BY <3>2
      <4> HIDE DEF a
      <4>2. Max({a, 0}) = a
        BY <4>1, MaxOfTwo
      <4> QED
        BY <4>2 DEF a
    <3> QED
      BY <2>1, <3>1, <3>3
  <2>2. CASE s = 0
    <3>1. OffsetAfterPush(o, o.windows[w], same) = f
      BY <2>2 DEF OffsetAfterPush, Full, Shift
    <3> QED
      BY <1>1, <1>2, <2>2, <3>1
  <2> QED
    BY <1>2, <2>1, <2>2
<1> QED
  BY <1>1, <1>3 DEF OffsetShifted

(* The newest bucket, and whether it is that of the time. *)
LEMMA SameBucketIsSame ==
  ASSUME NEW o, NEW T, NEW t, Tracks(o.data, T, t)
  PROVE  /\ IsSame(o.data, SameBucket(o, t), t)
         /\ SameBucket(o, t) => ~ IsEmptyRing(o.data)
         /\ o.data.length > 0 => Newest(o) = Items(o.data)[o.data.length]
<1>1. IsRing(o.data) /\ o.data.length \in Nat
  BY TracksFacts
<1>2. o.data.length > 0 => Newest(o) = Items(o.data)[o.data.length]
  <2>1. SUFFICES ASSUME o.data.length > 0
                 PROVE  Newest(o) = Items(o.data)[o.data.length]
    OBVIOUS
  <2>2. o.data.length \in 1 .. o.data.length
    BY <1>1, <2>1
  <2> QED
    BY <1>1, <2>1, <2>2, RingReads DEF Newest
<1> QED
  BY <1>1, <1>2 DEF SameBucket, IsSame, IsEmptyRing, Index

(* An indicator with other windows and a bucket recorded. *)
RecordedWith(o, windows, same, bucket) ==
  [WithWindows(o, windows) EXCEPT !.data = Recording(o, same, bucket)]

LEMMA RecordedWithFacts ==
  ASSUME NEW o, NEW T, NEW t \in Int, NEW first \in Int, IsIndicator(o, T, t, first),
         NEW windows, SameWindows(o.windows, windows),
         NEW bucket, bucket.index = BucketOf(t)
  PROVE  LET same == SameBucket(o, t)
             next == RecordedWith(o, windows, same, bucket)
         IN  /\ IsIndicator(next, T \cup {BucketOf(t)}, t, first)
             /\ RecordedAt(o.data, next.data, same, bucket, t)
             /\ next.windows = windows /\ next.policy = o.policy
             /\ next.lastSum = o.lastSum /\ next.lastCount = o.lastCount
<1> DEFINE same == SameBucket(o, t)
           next == RecordedWith(o, windows, same, bucket)
<1>1. Tracks(o.data, T, t) /\ IsRing(o.data) /\ o = [field \in IndicatorFields |-> o[field]]
  BY TracksFacts DEF IsIndicator, IsShaped
<1>2. IsSame(o.data, same, t) /\ (same => ~ IsEmptyRing(o.data)) /\ same \in BOOLEAN
  <2>1. IsSame(o.data, same, t) /\ (same => ~ IsEmptyRing(o.data))
    BY <1>1, SameBucketIsSame
  <2> QED
    BY <2>1 DEF IsSame
<1>3. /\ next = [field \in IndicatorFields |-> next[field]]
      /\ next.data = Recording(o, same, bucket) /\ next.windows = windows
      /\ next.policy = o.policy /\ next.first = o.first /\ next.last = o.last
      /\ next.lastSum = o.lastSum /\ next.lastCount = o.lastCount
  <2> HIDE DEF same
  <2> QED
    BY <1>1 DEF RecordedWith, WithWindows, IndicatorFields
<1> HIDE DEF same, next
<1>4. RecordedAt(o.data, next.data, same, bucket, t)
  <2>1. Recorded(o.data, Recording(o, same, bucket), same, bucket)
    BY <1>1, <1>2, RecordingAppends
  <2> QED
    BY <1>2, <1>3, <2>1 DEF RecordedAt
<1>5. IsShaped(next)
  BY <1>3 DEF IsShaped, SameWindows
<1>6. IsIndicator(next, T \cup {BucketOf(t)}, t, first)
  <2>1. SameWindows(o.windows, next.windows)
    BY <1>3
  <2> QED
    BY <1>3, <1>4, <1>5, <2>1, RecordingKeeps
<1> QED
  BY <1>3, <1>4, <1>6 DEF next, same

(* A value recorded in the sums. *)
UpdatedSums(o, next, T, values, t, first) ==
  /\ IsIndicator(next, T \cup {BucketOf(t)}, t, first) /\ SumsHold(next, t)
  /\ next.policy = o.policy /\ DOMAIN next.windows = DOMAIN o.windows
  /\ \E same, bucket :
       /\ RecordedAt(o.data, next.data, same, bucket, t)
       /\ \A sum \in 1 .. 2 : bucket.values[sum] =
            (IF same THEN ValuesOf(o.data, sum)[o.data.length] ELSE 0) + values[sum]

LEMMA UpdateSumsKeeps ==
  ASSUME NEW before, NEW T, NEW s \in Int, NEW t \in Int, s <= t, t # Never,
         NEW first \in Int, IsIndicator(before, T, s, first), SumsHold(before, s),
         NEW values, IsPair(values)
  PROVE  UpdatedSums(before, UpdateSums(before, values, t), T, values, t, Begun(first, t))
<1> DEFINE begun == Starting(before, t)
           at == Begun(first, t)
           o == ObserveSums(begun, t)
           r == o.data
           same == SameBucket(o, t)
           old == Newest(o)
           new == IF same THEN Plus(old.values, values) ELSE values
           bucket == [index |-> BucketOf(t), values |-> new]
           passed(window) == [window EXCEPT !.value = Plus(@, values),
                                            !.frontOffset = OffsetAfterPush(o, window, same)]
           windows == [w \in DOMAIN o.windows |-> passed(o.windows[w])]
           next == UpdateSums(before, values, t)
<1>1. at \in Int
  BY DEF Begun
<1>2. IsIndicator(begun, T, s, at) /\ SumsHold(begun, s)
      /\ begun.data = before.data /\ begun.policy = before.policy
      /\ DOMAIN begun.windows = DOMAIN before.windows
  <2>1. StartedAs(before, begun, T, s, at)
    BY StartingKeeps
  <2> HIDE DEF begun, at
  <2>2. /\ IsIndicator(begun, T, s, at)
        /\ begun["data"] = before["data"] /\ begun["policy"] = before["policy"]
        /\ DOMAIN begun.windows = DOMAIN before.windows
    BY <2>1 DEF StartedAs, IndicatorFields
  <2>3. \A w \in DOMAIN before.windows :
          /\ begun.windows[w].duration = before.windows[w].duration
          /\ begun.windows[w].value = before.windows[w].value
          /\ begun.windows[w].frontOffset = before.windows[w].frontOffset
    BY <2>1 DEF StartedAs, WindowFields
  <2>4. \A w \in DOMAIN begun.windows : SumHolds(begun.data, begun.windows[w], s)
    BY <2>2, <2>3 DEF SumsHold, SumHolds
  <2> QED
    BY <2>2, <2>4 DEF SumsHold
<1> HIDE DEF begun, at
<1>3. /\ IsIndicator(o, T, t, at) /\ SumsHold(o, t)
      /\ r = before.data /\ o.policy = before.policy
      /\ DOMAIN o.windows = DOMAIN before.windows
  BY <1>1, <1>2, ObserveSumsKeeps
<1>4. next = RecordedWith(o, windows, same, bucket)
  BY DEF UpdateSums, EachWindow, RecordedWith, WithWindows, begun
<1>5. bucket.index = BucketOf(t) /\ bucket.values = new
  OBVIOUS
<1> HIDE DEF o, bucket, windows, same, next, new, old
<1>6. Tracks(r, T, t) /\ IsRing(r) /\ r.length \in Nat
  BY <1>3, TracksFacts DEF IsIndicator
<1>7. same \in BOOLEAN /\ IsSame(r, same, t)
  BY <1>6, SameBucketIsSame DEF same, IsSame
<1>8. ASSUME same
      PROVE  r.length > 0 /\ old.values = Items(r)[r.length].values /\ IsPair(old.values)
             /\ r.length \in 1 .. r.length
  <2>1. r.length > 0
    BY <1>7, <1>8 DEF IsSame
  <2>2. old = Items(r)[r.length] /\ r.length \in 1 .. r.length
    BY <1>6, <2>1, SameBucketIsSame DEF old
  <2> QED
    BY <1>3, <2>1, <2>2 DEF SumsHold
<1>9. \A sum \in 1 .. 2 :
        /\ new[sum] = (IF same THEN ValuesOf(r, sum)[r.length] ELSE 0) + values[sum]
        /\ new[sum] \in Int /\ values[sum] \in Int
        /\ (same => ValuesOf(r, sum)[r.length] \in Int)
  <2>1. \A sum \in 1 .. 2 : values[sum] \in Int
    BY DEF IsPair
  <2>2. CASE same
    <3>1. new = [sum \in 1 .. 2 |-> old.values[sum] + values[sum]]
      BY <1>8, <2>2 DEF new, Plus, IsPair
    <3>2. \A sum \in 1 .. 2 : ValuesOf(r, sum)[r.length] = old.values[sum]
                               /\ old.values[sum] \in Int
      BY <1>8, <2>2 DEF ValuesOf, IsPair
    <3> QED
      BY <2>1, <2>2, <3>1, <3>2
  <2>3. CASE ~ same
    <3>1. new = values
      BY <2>3 DEF new
    <3> QED
      BY <2>1, <2>3, <3>1
  <2> QED
    BY <1>7, <2>2, <2>3
<1>10. IsPair(new)
  <2>1. new = [sum \in 1 .. 2 |-> new[sum]]
    BY <1>7, <1>8 DEF new, Plus, IsPair
  <2> QED
    BY <1>9, <2>1 DEF IsPair
<1>11. ASSUME NEW w \in DOMAIN o.windows
       PROVE  /\ SameWindow(o.windows[w], windows[w])
              /\ windows[w].frontOffset = OffsetAfterPush(o, o.windows[w], same)
              /\ windows[w].value = [sum \in 1 .. 2 |-> windows[w].value[sum]]
              /\ \A sum \in 1 .. 2 : windows[w].value[sum] = o.windows[w].value[sum] + values[sum]
  <2> DEFINE x == o.windows[w]
             y == windows[w]
             offset == OffsetAfterPush(o, x, same)
             value == Plus(x.value, values)
  <2>1. x = [field \in WindowFields |-> x[field]]
    BY <1>3 DEF IsIndicator, IsWindow
  <2>2. y = [x EXCEPT !.value = value, !.frontOffset = offset]
    BY DEF windows
  <2>3. value = [sum \in 1 .. 2 |-> x.value[sum] + values[sum]]
    <3>1. x.value = [sum \in 1 .. 2 |-> x.value[sum]]
      BY <1>3 DEF SumsHold, SumHolds
    <3> HIDE DEF x
    <3> QED
      BY <3>1 DEF Plus
  <2> HIDE DEF x, y, value, offset
  <2>4. /\ y = [field \in WindowFields |-> y[field]]
        /\ y.duration = x.duration /\ y.ready = x.ready
        /\ y.value = value /\ y.frontOffset = offset
    BY <2>1, <2>2 DEF WindowFields
  <2> QED
    BY <2>3, <2>4 DEF SameWindow, x, y, offset
<1>12. /\ IsIndicator(next, T \cup {BucketOf(t)}, t, at)
       /\ RecordedAt(r, next.data, same, bucket, t)
       /\ next.windows = windows /\ next.policy = o.policy
  <2>1. SameWindows(o.windows, windows)
    <3>1. windows = [w \in DOMAIN o.windows |-> windows[w]]
      BY DEF windows
    <3> QED
      BY <1>11, <3>1 DEF SameWindows
  <2> QED
    BY <1>1, <1>3, <1>4, <1>5, <2>1, RecordedWithFacts DEF same
<1> DEFINE q == next.data
<1>13. /\ q.length = Kept(r, same) + 1 /\ Kept(r, same) \in Nat /\ Shift(r, same) \in {0, 1}
       /\ \A k \in 1 .. Kept(r, same) : k + Shift(r, same) \in 1 .. r.length
                                       /\ Items(q)[k] = Items(r)[k + Shift(r, same)]
       /\ Items(q)[q.length] = bucket
  BY <1>6, <1>12, RecordedFacts
<1> HIDE DEF q
<1>14. ASSUME NEW k \in 1 .. q.length
       PROVE  IsPair(Items(q)[k].values)
  <2>1. CASE k = q.length
    BY <1>5, <1>10, <1>13, <2>1
  <2>2. CASE k # q.length
    <3>1. k \in 1 .. Kept(r, same)
      BY <1>13, <2>2
    <3> QED
      BY <1>3, <1>13, <3>1 DEF SumsHold
  <2> QED
    BY <2>1, <2>2
<1>15. ASSUME NEW w \in DOMAIN o.windows
       PROVE  SumHolds(q, windows[w], t)
  <2> DEFINE f == o.windows[w].frontOffset
             e == Shift(r, same)
  <2>1. SumHolds(r, o.windows[w], t)
    BY <1>3 DEF SumsHold
  <2>2. /\ OffsetAfterPush(o, o.windows[w], same) = f - e
        /\ f \in e .. r.length /\ (same => f < r.length)
        /\ Parts(q, f - e, o.windows[w].duration, t)
    <3>1. Parts(o.data, f, o.windows[w].duration, t)
      BY <2>1 DEF SumHolds
    <3>2. OffsetShifted(o, q, same, o.windows[w], t)
      BY <1>3, <1>12, <3>1, OffsetIsShifted DEF q
    <3> QED
      BY <3>2 DEF OffsetShifted
  <2>3. ASSUME NEW sum \in 1 .. 2
        PROVE  windows[w].value[sum] = RangeSum(ValuesOf(q, sum), f - e, q.length)
    <3> DEFINE v == ValuesOf(r, sum)
               u == ValuesOf(q, sum)
               delta == values[sum]
    <3>1. \A k \in 1 .. r.length : v[k] \in Int
      BY <1>3 DEF SumsHold, IsPair, ValuesOf
    <3>2. Moved(r, u, v, same)
      <4>1. \A k \in 1 .. Kept(r, same) : k \in 1 .. q.length
        BY <1>13
      <4> QED
        BY <1>13, <4>1 DEF ValuesOf, Moved
    <3>3. delta \in Int /\ u[q.length] = (IF same THEN v[r.length] ELSE 0) + delta
      <4>1. q.length \in 1 .. q.length
        BY <1>13
      <4>2. u[q.length] = new[sum]
        BY <1>5, <1>13, <4>1 DEF ValuesOf
      <4> QED
        BY <1>9, <4>2
    <3> HIDE DEF u, v, delta, f, e
    <3>4. OffsetFits(r, same, f) /\ Grown(r, q, u, v, same, delta)
      BY <2>2, <3>1, <3>2, <3>3 DEF e, OffsetFits, Grown
    <3>5. RangeSum(u, f - Shift(r, same), q.length) = RangeSum(v, f, r.length) + delta
      <4>1. RecordedAt(r, q, same, bucket, t)
        BY <1>12 DEF q
      <4> QED
        BY <1>6, <3>4, <4>1, RecordedSum
    <3>6. o.windows[w].value[sum] = RangeSum(v, f, r.length)
      BY <2>1 DEF SumHolds, v, f
    <3> QED
      BY <1>11, <3>5, <3>6 DEF u, delta, e
  <2> QED
    BY <1>11, <2>2, <2>3 DEF SumHolds, SameWindow
<1>16. SumsHold(next, t)
  BY <1>12, <1>14, <1>15, <1>11 DEF SumsHold, q, windows
<1>17. DOMAIN windows = DOMAIN o.windows
  BY DEF windows
<1> QED
  <2>1. \A sum \in 1 .. 2 : bucket.values[sum] =
          (IF same THEN ValuesOf(r, sum)[r.length] ELSE 0) + values[sum]
    BY <1>5, <1>9
  <2> QED
    BY <1>3, <1>12, <1>16, <1>17, <2>1 DEF UpdatedSums, next, at

-----------------------------------------------------------------------------
(* What a bucket holds is a function of the bucket, for all the buckets    *)
(* traded; the ring holds it of the newest of them.                        *)

AreOf(r, v, f) == \A k \in 1 .. r.length : v[k] = f[Index(r, k)]

ChangedAt(f, g, T, b) == \A c \in T : c # b => g[c] = f[c]

(* The newest bucket of the ring is written to again where it is traded in. *)
LEMMA SameIsTraded ==
  ASSUME NEW r, NEW T, NEW t \in Int, Tracks(r, T, t), NEW same, IsSame(r, same, t)
  PROVE  same <=> BucketOf(t) \in T
<1> DEFINE n == r.length
           b == BucketOf(t)
<1>1. /\ n \in Nat /\ r.capacity \in Nat \ {0} /\ b \in Int
      /\ \A i \in 1 .. n : Index(r, i) \in T /\ Index(r, i) \in Int /\ Index(r, i) <= b
  BY TracksFacts, BucketType
<1>2. (n > 0 /\ Index(r, n) = b) => b \in T
  <2>1. n > 0 => n \in 1 .. n
    BY <1>1
  <2> QED
    BY <1>1, <2>1
<1>3. ASSUME b \in T
      PROVE  n > 0 /\ Index(r, n) = b
  <2>1. CASE \E i \in 1 .. n : Index(r, i) = b
    <3>1. PICK i \in 1 .. n : Index(r, i) = b
      BY <2>1
    <3>2. n \in 1 .. n /\ i <= n
      BY <1>1, <3>1
    <3>3. Index(r, i) <= Index(r, n)
      BY <3>1, <3>2, TracksFacts
    <3>4. Index(r, n) <= b /\ Index(r, n) \in Int
      BY <1>1, <3>2
    <3> QED
      BY <1>1, <3>1, <3>2, <3>3, <3>4
  <2>2. CASE IsFullRing(r) /\ b < Index(r, 1)
    <3>1. 1 \in 1 .. n
      BY <1>1, <2>2 DEF IsFullRing
    <3>2. Index(r, 1) <= b /\ Index(r, 1) \in Int
      BY <1>1, <3>1
    <3> QED
      BY <1>1, <2>2, <3>2
  <2> QED
    BY <1>3, <2>1, <2>2 DEF Tracks
<1> QED
  BY <1>2, <1>3 DEF IsSame

LEMMA RecordedOf ==
  ASSUME NEW r, NEW T, NEW t \in Int, Tracks(r, T, t),
         NEW next, NEW same, NEW bucket, RecordedAt(r, next, same, bucket, t),
         NEW v, NEW f, AreOf(r, v, f), NEW u, Moved(r, u, v, same),
         NEW g, ChangedAt(f, g, T, BucketOf(t)), u[next.length] = g[BucketOf(t)]
  PROVE  AreOf(next, u, g)
<1> DEFINE s == Shift(r, same)
           m == Kept(r, same)
           b == BucketOf(t)
<1>1. /\ next.length = m + 1 /\ m \in Nat /\ b \in Int /\ Index(next, next.length) = b
      /\ \A k \in 1 .. m : /\ k + s \in 1 .. r.length /\ Index(next, k) = Index(r, k + s)
                           /\ Index(next, k) \in Int /\ Index(next, k) < b
  BY RecordedFacts
<1>2. ASSUME NEW k \in 1 .. m
      PROVE  u[k] = g[Index(next, k)]
  <2>1. u[k] = v[k + s]
    BY DEF Moved
  <2>2. v[k + s] = f[Index(r, k + s)] /\ Index(r, k + s) \in T
    BY <1>1, TracksFacts DEF AreOf
  <2>3. Index(r, k + s) # b /\ Index(next, k) = Index(r, k + s)
    BY <1>1
  <2> QED
    BY <2>1, <2>2, <2>3 DEF ChangedAt
<1> HIDE DEF m, s, b
<1>3. ASSUME NEW k \in 1 .. next.length
      PROVE  u[k] = g[Index(next, k)]
  <2>1. k = next.length \/ k \in 1 .. m
    BY <1>1
  <2> QED
    BY <1>1, <1>2, <2>1 DEF b
<1> QED
  BY <1>3 DEF AreOf

(* The value the newest bucket has, if it is written to again. *)
LEMMA NewestIsOf ==
  ASSUME NEW r, NEW T, NEW t \in Int, Tracks(r, T, t), BucketOf(t) \in T,
         NEW v, NEW f, AreOf(r, v, f)
  PROVE  v[r.length] = f[BucketOf(t)]
<1> DEFINE same == r.length > 0 /\ Index(r, r.length) = BucketOf(t)
<1>1. IsSame(r, same, t)
  BY DEF IsSame
<1> HIDE DEF same
<1>2. same <=> BucketOf(t) \in T
  BY <1>1, SameIsTraded
<1>3. r.length > 0 /\ Index(r, r.length) = BucketOf(t) /\ r.length \in Nat
  BY <1>2, TracksFacts DEF same
<1>4. r.length \in 1 .. r.length
  BY <1>3
<1> QED
  BY <1>3, <1>4 DEF AreOf

(* What a window is of: the buckets it reaches. *)
LEMMA RangeIsReached ==
  ASSUME NEW r, NEW T, NEW t \in Int, Tracks(r, T, t),
         NEW d, IsDuration(d, r.capacity), NEW o, Parts(r, o, d, t),
         NEW v, NEW f, AreOf(r, v, f), \A c \in T : f[c] \in Int
  PROVE  /\ IsFiniteSet(Reached(T, d, t)) /\ Cardinality(Reached(T, d, t)) = r.length - o
         /\ RangeSum(v, o, r.length) = SumFunctionOnSet(f, Reached(T, d, t))
<1>1. \A k \in 1 .. r.length : v[k] \in Int /\ v[k] = f[Index(r, k)]
  BY TracksFacts DEF AreOf
<1> QED
  BY <1>1, ReachedIsCounted

-----------------------------------------------------------------------------
(* On-balance volume: each window's balance is that of the ring from its   *)
(* offset on.                                                              *)

BalancesOf(r) == [k \in 1 .. r.length |-> SignedVolume(Items(r)[k])]

IsBalance(bucket) == bucket.volume \in Int /\ bucket.sign \in Int /\ bucket.close \in Int

BalanceHolds(r, window, t) ==
  /\ Parts(r, window.frontOffset, window.duration, t)
  /\ window.value = RangeSum(BalancesOf(r), window.frontOffset, r.length)

BalancesHold(o, t) ==
  /\ \A k \in 1 .. o.data.length : IsBalance(Items(o.data)[k])
  /\ \A w \in DOMAIN o.windows : BalanceHolds(o.data, o.windows[w], t)

LEMMA BalanceIsRange ==
  ASSUME NEW r, NEW i \in Nat, NEW j \in Int, r.length \in Nat, j <= r.length
  PROVE  BalanceOf(Items(r), i, j) = RangeSum(BalancesOf(r), i, j)
<1>1. [k \in i + 1 .. j |-> SignedVolume(Items(r)[k])] = [k \in i + 1 .. j |-> BalancesOf(r)[k]]
  <2>1. \A k \in i + 1 .. j : k \in 1 .. r.length
    OBVIOUS
  <2>2. \A k \in i + 1 .. j : SignedVolume(Items(r)[k]) = BalancesOf(r)[k]
    BY <2>1 DEF BalancesOf
  <2> QED
    BY <2>2
<1> QED
  BY <1>1 DEF BalanceOf, RangeSum

LEMMA BalancesType ==
  ASSUME NEW o, NEW t, BalancesHold(o, t), NEW k \in 1 .. o.data.length
  PROVE  BalancesOf(o.data)[k] \in Int
<1>1. IsBalance(Items(o.data)[k])
  BY DEF BalancesHold
<1> QED
  BY <1>1 DEF IsBalance, BalancesOf, SignedVolume

LEMMA BalanceExpires ==
  ASSUME NEW o, NEW T, NEW s \in Int, NEW t \in Int, s <= t, NEW first,
         IsIndicator(o, T, s, first), BalancesHold(o, s), NEW w \in DOMAIN o.windows
  PROVE  LET x == ExpireVolume(Items(o.data), o.windows[w], t)
         IN  SameWindow(o.windows[w], x) /\ BalanceHolds(o.data, x, t)
<1> DEFINE r == o.data
           n == r.length
           y == o.windows[w]
           f == y.frontOffset
           p == OffsetAt(Items(r), y, t)
           x == ExpireVolume(Items(r), y, t)
           v == BalancesOf(r)
           new == y.value - BalanceOf(Items(r), f, p)
<1>1. /\ Tracks(r, T, s) /\ IsWindow(y, r.capacity) /\ y.duration \in Nat
      /\ y = [field \in WindowFields |-> y[field]]
      /\ BalanceHolds(r, y, s)
  BY DEF IsIndicator, BalancesHold, IsWindow, IsDuration
<1>2. n \in Nat /\ f \in 0 .. n
  BY <1>1, TracksFacts DEF BalanceHolds, Parts
<1>3. Parts(r, p, y.duration, t) /\ f <= p /\ f \in Int /\ p \in Int /\ p <= n
  <2>1. Parts(r, f, y.duration, s)
    BY <1>1 DEF BalanceHolds
  <2>2. Parts(r, p, y.duration, t) /\ f <= p /\ f \in Int /\ p \in Int
    BY <1>1, <2>1, OffsetAtParts
  <2> QED
    BY <1>2, <2>2 DEF Parts
<1>4. x = [y EXCEPT !.value = new, !.frontOffset = p]
  BY DEF ExpireVolume
<1>5. new = RangeSum(v, p, n)
  <2>1. \A k \in 1 .. n : v[k] \in Int
    BY BalancesType
  <2>2. BalanceOf(Items(r), f, p) = RangeSum(v, f, p)
    <3> HIDE DEF p
    <3> QED
      BY <1>2, <1>3, BalanceIsRange
  <2>3. y.value = RangeSum(v, f, n)
    BY <1>1 DEF BalanceHolds
  <2> HIDE DEF v, p, f, n
  <2>4. (\A k \in f + 1 .. n : v[k] \in Int) /\ (\A k \in f + 1 .. p : v[k] \in Int)
        /\ \A k \in p + 1 .. n : v[k] \in Int
    BY <1>2, <1>3, <2>1
  <2>5. RangeSum(v, f, n) = RangeSum(v, f, p) + RangeSum(v, p, n)
    BY <1>2, <1>3, <2>4, RangeSplit
  <2>6. RangeSum(v, f, p) \in Int /\ RangeSum(v, p, n) \in Int
    BY <1>2, <1>3, <2>4, RangeType
  <2> QED
    BY <2>2, <2>3, <2>5, <2>6
<1> HIDE DEF new, p, x
<1>6. /\ x = [field \in WindowFields |-> x[field]]
      /\ x.duration = y.duration /\ x.ready = y.ready /\ x.value = new /\ x.frontOffset = p
  <2> HIDE DEF y
  <2> QED
    BY <1>1, <1>4 DEF WindowFields
<1>7. SameWindow(y, x) /\ BalanceHolds(r, x, t)
  BY <1>3, <1>5, <1>6 DEF SameWindow, BalanceHolds
<1> QED
  BY <1>7 DEF x

LEMMA ObserveVolumeKeeps ==
  ASSUME NEW o, NEW T, NEW s \in Int, NEW t \in Int, s <= t, NEW first \in Int,
         IsIndicator(o, T, s, first), BalancesHold(o, s)
  PROVE  LET next == ObserveVolume(o, t)
         IN  /\ IsIndicator(next, T, t, first) /\ BalancesHold(next, t)
             /\ next.data = o.data /\ next.policy = o.policy
             /\ DOMAIN next.windows = DOMAIN o.windows
<1> DEFINE next == ObserveVolume(o, t)
<1>1. CASE o.last = t
  <2>1. next = o /\ s = t
    BY <1>1 DEF ObserveVolume, Observing, IsIndicator
  <2> QED
    BY <2>1
<1>2. CASE o.last # t
  <2> DEFINE passed == [w \in DOMAIN o.windows |-> ExpireVolume(Items(o.data), o.windows[w], t)]
  <2>1. next = Observed(o, passed, t)
    BY <1>2 DEF ObserveVolume, Observing, Observed, EachWindow, WithWindows
  <2>2. \A w \in DOMAIN o.windows :
          SameWindow(o.windows[w], passed[w]) /\ BalanceHolds(o.data, passed[w], t)
    BY BalanceExpires
  <2>3. SameWindows(o.windows, passed)
    BY <2>2 DEF SameWindows
  <2> HIDE DEF passed, next
  <2>4. /\ IsIndicator(next, T, t, first)
        /\ \A field \in IndicatorFields \ {"windows", "last"} : next[field] = o[field]
        /\ DOMAIN next.windows = DOMAIN o.windows
        /\ \A w \in DOMAIN o.windows : \A field \in WindowFields \ {"ready"} :
             next.windows[w][field] = passed[w][field]
    <3>1. ObservedAs(o, passed, next, T, t, first)
      BY <2>1, <2>3, ObservingKeeps
    <3> QED
      BY <3>1 DEF ObservedAs
  <2>5. next.data = o.data /\ next.policy = o.policy
    <3>1. next["data"] = o["data"] /\ next["policy"] = o["policy"]
      BY <2>4 DEF IndicatorFields
    <3> QED
      BY <3>1
  <2>6. ASSUME NEW w \in DOMAIN next.windows
        PROVE  BalanceHolds(next.data, next.windows[w], t)
    <3>1. w \in DOMAIN o.windows
      BY <2>4
    <3>2. /\ next.windows[w].frontOffset = passed[w].frontOffset
          /\ next.windows[w].duration = passed[w].duration
          /\ next.windows[w].value = passed[w].value
      BY <2>4, <3>1 DEF WindowFields
    <3> QED
      BY <2>2, <2>5, <3>1, <3>2 DEF BalanceHolds
  <2>7. BalancesHold(next, t)
    BY <2>5, <2>6 DEF BalancesHold
  <2> QED
    BY <2>4, <2>5, <2>7 DEF next
<1> QED
  BY <1>1, <1>2

LEMMA SignType ==
  ASSUME NEW data, NEW n \in Nat, Len(data) = n, NEW same \in BOOLEAN, same => n > 0,
         \A k \in 1 .. n : data[k].close \in Int, NEW price \in Int
  PROVE  Sign(PreviousClose(data, same), price) \in {-1, 0, 1}
<1> DEFINE previous == IF same THEN n - 1 ELSE n
<1>1. previous \in 0 .. n
  OBVIOUS
<1>2. PreviousClose(data, same) = IF previous = 0 THEN <<>> ELSE <<data[previous].close>>
  BY DEF PreviousClose
<1> HIDE DEF previous
<1>3. CASE previous = 0
  BY <1>2, <1>3 DEF Sign
<1>4. CASE previous # 0
  <2> DEFINE c == data[previous].close
  <2>1. c \in Int /\ PreviousClose(data, same) = <<c>>
    <3>1. previous \in 1 .. n
      BY <1>1, <1>4
    <3> QED
      BY <1>2, <1>4, <3>1
  <2> HIDE DEF c
  <2>2. <<c>> # <<>> /\ <<c>>[1] = c /\ (<<c>> = <<price>> <=> c = price)
    OBVIOUS
  <2>3. c = price \/ c < price \/ c > price
    BY <2>1
  <2> QED
    BY <2>1, <2>2, <2>3 DEF Sign
<1> QED
  BY <1>3, <1>4

(* A trade in on-balance volume. *)
UpdatedVolume(o, next, T, price, volume, t, first) ==
  /\ IsIndicator(next, T \cup {BucketOf(t)}, t, first) /\ BalancesHold(next, t)
  /\ next.policy = o.policy /\ DOMAIN next.windows = DOMAIN o.windows
  /\ \E same, bucket :
       /\ RecordedAt(o.data, next.data, same, bucket, t)
       /\ bucket.close = price
       /\ bucket.volume = (IF same THEN Items(o.data)[o.data.length].volume ELSE 0) + volume
       /\ bucket.sign = Sign(PreviousClose(Items(o.data), same), price)

LEMMA UpdateVolumeKeeps ==
  ASSUME NEW before, NEW T, NEW s \in Int, NEW t \in Int, s <= t, t # Never,
         NEW first \in Int, IsIndicator(before, T, s, first), BalancesHold(before, s),
         NEW price \in Int, NEW volume \in Int
  PROVE  UpdatedVolume(before, UpdateVolume(before, price, volume, t), T, price, volume, t,
                       Begun(first, t))
<1> DEFINE begun == Starting(before, t)
           at == Begun(first, t)
           o == ObserveVolume(begun, t)
           r == o.data
           same == SameBucket(o, t)
           old == Newest(o)
           sum == IF same THEN old.volume + volume ELSE volume
           sign == Sign(PreviousClose(Items(o.data), same), price)
           bucket == [index |-> BucketOf(t), close |-> price, volume |-> sum, sign |-> sign]
           delta == IF same THEN SignedVolume(bucket) - SignedVolume(old)
                            ELSE SignedVolume(bucket)
           passed(window) == [window EXCEPT !.value = @ + delta,
                                            !.frontOffset = OffsetAfterPush(o, window, same)]
           windows == [w \in DOMAIN o.windows |-> passed(o.windows[w])]
           next == UpdateVolume(before, price, volume, t)
<1>1. at \in Int
  BY DEF Begun
<1>2. IsIndicator(begun, T, s, at) /\ BalancesHold(begun, s)
      /\ begun.data = before.data /\ begun.policy = before.policy
      /\ DOMAIN begun.windows = DOMAIN before.windows
  <2>1. StartedAs(before, begun, T, s, at)
    BY StartingKeeps
  <2> HIDE DEF begun, at
  <2>2. /\ IsIndicator(begun, T, s, at)
        /\ begun["data"] = before["data"] /\ begun["policy"] = before["policy"]
        /\ DOMAIN begun.windows = DOMAIN before.windows
    BY <2>1 DEF StartedAs, IndicatorFields
  <2>3. \A w \in DOMAIN before.windows :
          /\ begun.windows[w].duration = before.windows[w].duration
          /\ begun.windows[w].value = before.windows[w].value
          /\ begun.windows[w].frontOffset = before.windows[w].frontOffset
    BY <2>1 DEF StartedAs, WindowFields
  <2>4. \A w \in DOMAIN begun.windows : BalanceHolds(begun.data, begun.windows[w], s)
    BY <2>2, <2>3 DEF BalancesHold, BalanceHolds
  <2> QED
    BY <2>2, <2>4 DEF BalancesHold
<1> HIDE DEF begun, at
<1>3. /\ IsIndicator(o, T, t, at) /\ BalancesHold(o, t)
      /\ r = before.data /\ o.policy = before.policy
      /\ DOMAIN o.windows = DOMAIN before.windows
  BY <1>1, <1>2, ObserveVolumeKeeps
<1>4. next = RecordedWith(o, windows, same, bucket)
  BY DEF UpdateVolume, EachWindow, RecordedWith, WithWindows, begun
<1>5. bucket.index = BucketOf(t) /\ bucket.close = price /\ bucket.volume = sum
      /\ bucket.sign = sign
  OBVIOUS
<1> HIDE DEF o, bucket, windows, same, next, sum, sign, old, delta
<1>6. Tracks(r, T, t) /\ IsRing(r) /\ r.length \in Nat /\ Len(Items(r)) = r.length
  BY <1>3, TracksFacts DEF IsIndicator
<1>7. same \in BOOLEAN /\ IsSame(r, same, t)
  BY <1>6, SameBucketIsSame DEF same, IsSame
<1>8. ASSUME same
      PROVE  r.length > 0 /\ old = Items(r)[r.length] /\ IsBalance(old)
             /\ r.length \in 1 .. r.length
  <2>1. r.length > 0
    BY <1>7, <1>8 DEF IsSame
  <2>2. old = Items(r)[r.length] /\ r.length \in 1 .. r.length
    BY <1>6, <2>1, SameBucketIsSame DEF old
  <2> QED
    BY <1>3, <2>1, <2>2 DEF BalancesHold
<1>9. sum \in Int /\ sum = (IF same THEN Items(r)[r.length].volume ELSE 0) + volume
  <2>1. CASE same
    BY <1>8, <2>1 DEF sum, IsBalance
  <2>2. CASE ~ same
    BY <2>2 DEF sum
  <2> QED
    BY <1>7, <2>1, <2>2
<1>10. sign \in Int
  <2>1. \A k \in 1 .. r.length : Items(r)[k].close \in Int
    BY <1>3 DEF BalancesHold, IsBalance
  <2>2. same => r.length > 0
    BY <1>8
  <2> DEFINE data == Items(r)
             n == r.length
  <2>3. Len(data) = n /\ n \in Nat /\ (same => n > 0) /\ \A k \in 1 .. n : data[k].close \in Int
    BY <1>6, <2>1, <2>2
  <2>4. sign = Sign(PreviousClose(data, same), price)
    BY DEF sign
  <2> HIDE DEF data, n
  <2>5. Sign(PreviousClose(data, same), price) \in {-1, 0, 1}
    BY ONLY <1>7, <2>3, price \in Int, SignType
  <2> QED
    BY <2>4, <2>5
<1>11. IsBalance(bucket) /\ SignedVolume(bucket) \in Int
  BY <1>5, <1>9, <1>10 DEF IsBalance, SignedVolume
<1>12. /\ delta \in Int
       /\ SignedVolume(bucket) = (IF same THEN BalancesOf(r)[r.length] ELSE 0) + delta
  <2>1. CASE same
    <3>1. BalancesOf(r)[r.length] = SignedVolume(old) /\ SignedVolume(old) \in Int
      BY <1>8, <2>1 DEF BalancesOf, IsBalance, SignedVolume
    <3>2. delta = SignedVolume(bucket) - SignedVolume(old)
      BY <2>1 DEF delta
    <3> QED
      BY <1>11, <2>1, <3>1, <3>2
  <2>2. CASE ~ same
    <3>1. delta = SignedVolume(bucket)
      BY <2>2 DEF delta
    <3> QED
      BY <1>11, <2>2, <3>1
  <2> QED
    BY <1>7, <2>1, <2>2
<1>13. ASSUME NEW w \in DOMAIN o.windows
       PROVE  /\ SameWindow(o.windows[w], windows[w])
              /\ windows[w].frontOffset = OffsetAfterPush(o, o.windows[w], same)
              /\ windows[w].value = o.windows[w].value + delta
  <2> DEFINE x == o.windows[w]
             y == windows[w]
             offset == OffsetAfterPush(o, x, same)
             value == x.value + delta
  <2>1. x = [field \in WindowFields |-> x[field]]
    BY <1>3 DEF IsIndicator, IsWindow
  <2>2. y = [x EXCEPT !.value = value, !.frontOffset = offset]
    BY DEF windows
  <2> HIDE DEF x, y, value, offset
  <2>3. /\ y = [field \in WindowFields |-> y[field]]
        /\ y.duration = x.duration /\ y.ready = x.ready
        /\ y.value = value /\ y.frontOffset = offset
    BY <2>1, <2>2 DEF WindowFields
  <2> QED
    BY <2>3 DEF SameWindow, x, y, offset, value
<1>14. /\ IsIndicator(next, T \cup {BucketOf(t)}, t, at)
       /\ RecordedAt(r, next.data, same, bucket, t)
       /\ next.windows = windows /\ next.policy = o.policy
  <2>1. SameWindows(o.windows, windows)
    <3>1. windows = [w \in DOMAIN o.windows |-> windows[w]]
      BY DEF windows
    <3> QED
      BY <1>13, <3>1 DEF SameWindows
  <2> QED
    BY <1>1, <1>3, <1>4, <1>5, <2>1, RecordedWithFacts DEF same
<1> DEFINE q == next.data
<1>15. /\ q.length = Kept(r, same) + 1 /\ Kept(r, same) \in Nat /\ Shift(r, same) \in {0, 1}
       /\ \A k \in 1 .. Kept(r, same) : k + Shift(r, same) \in 1 .. r.length
                                       /\ Items(q)[k] = Items(r)[k + Shift(r, same)]
       /\ Items(q)[q.length] = bucket
  BY <1>6, <1>14, RecordedFacts
<1> HIDE DEF q
<1>16. ASSUME NEW k \in 1 .. q.length
       PROVE  IsBalance(Items(q)[k])
  <2>1. CASE k = q.length
    BY <1>11, <1>15, <2>1
  <2>2. CASE k # q.length
    <3>1. k \in 1 .. Kept(r, same)
      BY <1>15, <2>2
    <3> QED
      BY <1>3, <1>15, <3>1 DEF BalancesHold
  <2> QED
    BY <2>1, <2>2
<1>17. ASSUME NEW w \in DOMAIN o.windows
       PROVE  BalanceHolds(q, windows[w], t)
  <2> DEFINE f == o.windows[w].frontOffset
             e == Shift(r, same)
             v == BalancesOf(r)
             u == BalancesOf(q)
  <2>1. BalanceHolds(r, o.windows[w], t)
    BY <1>3 DEF BalancesHold
  <2>2. /\ OffsetAfterPush(o, o.windows[w], same) = f - e
        /\ f \in e .. r.length /\ (same => f < r.length)
        /\ Parts(q, f - e, o.windows[w].duration, t)
    <3>1. Parts(o.data, f, o.windows[w].duration, t)
      BY <2>1 DEF BalanceHolds
    <3>2. OffsetShifted(o, q, same, o.windows[w], t)
      BY <1>3, <1>14, <3>1, OffsetIsShifted DEF q
    <3> QED
      BY <3>2 DEF OffsetShifted
  <2>3. \A k \in 1 .. r.length : v[k] \in Int
    BY <1>3, BalancesType
  <2>4. Moved(r, u, v, same)
    <3>1. \A k \in 1 .. Kept(r, same) : k \in 1 .. q.length
      BY <1>15
    <3> QED
      BY <1>15, <3>1 DEF BalancesOf, Moved
  <2>5. delta \in Int /\ u[q.length] = (IF same THEN v[r.length] ELSE 0) + delta
    <3>1. q.length \in 1 .. q.length
      BY <1>15
    <3>2. u[q.length] = SignedVolume(bucket)
      BY <1>15, <3>1 DEF BalancesOf
    <3> QED
      BY <1>12, <3>2
  <2>6. v[r.length] = BalancesOf(r)[r.length] /\ BalancesOf(q) = u
    OBVIOUS
  <2>7. o.windows[w].value = RangeSum(v, f, r.length)
    BY <2>1 DEF BalanceHolds
  <2> HIDE DEF u, v, f, e
  <2>8. OffsetFits(r, same, f) /\ Grown(r, q, u, v, same, delta)
    BY <2>2, <2>3, <2>4, <2>5 DEF e, OffsetFits, Grown
  <2>9. RangeSum(u, f - Shift(r, same), q.length) = RangeSum(v, f, r.length) + delta
    <3>1. RecordedAt(r, q, same, bucket, t)
      BY <1>14 DEF q
    <3> QED
      BY <1>6, <3>1, <2>8, RecordedSum
  <2>10. windows[w].frontOffset = f - e /\ windows[w].duration = o.windows[w].duration
         /\ windows[w].value = RangeSum(u, f - e, q.length)
    BY <1>13, <2>2, <2>7, <2>9 DEF SameWindow, e
  <2> QED
    BY <2>2, <2>6, <2>10 DEF BalanceHolds
<1>18. BalancesHold(next, t)
  BY <1>14, <1>16, <1>17 DEF BalancesHold, q, windows
<1>19. DOMAIN windows = DOMAIN o.windows
  BY DEF windows
<1>20. bucket.close = price /\ bucket.sign = Sign(PreviousClose(Items(r), same), price)
       /\ bucket.volume = (IF same THEN Items(r)[r.length].volume ELSE 0) + volume
  BY <1>5, <1>9 DEF sign
<1> QED
  BY <1>3, <1>14, <1>18, <1>19, <1>20 DEF UpdatedVolume, next, at

-----------------------------------------------------------------------------
(* Moving average: each window's is the sum of the means of the newest     *)
(* buckets it counts.                                                      *)

MeansOf(r) == [k \in 1 .. r.length |-> Items(r)[k].mean]

MeanHolds(r, window, t) ==
  /\ window.count \in 0 .. r.length
  /\ Parts(r, r.length - window.count, window.duration, t)
  /\ window.value = RangeSum(MeansOf(r), r.length - window.count, r.length)

MeansHold(o, t) ==
  /\ \A k \in 1 .. o.data.length : Items(o.data)[k].mean \in Int
  /\ o.data.length > 0 => o.lastSum \in Int /\ o.lastCount \in Nat \ {0}
  /\ \A w \in DOMAIN o.windows : MeanHolds(o.data, o.windows[w], t)

LEMMA MeansAreRange ==
  ASSUME NEW r, NEW i \in Nat, NEW j \in Int, r.length \in Nat, j <= r.length
  PROVE  SumOfMeans(Items(r), i, j) = RangeSum(MeansOf(r), i, j)
<1>1. [k \in i + 1 .. j |-> Items(r)[k].mean] = [k \in i + 1 .. j |-> MeansOf(r)[k]]
  <2>1. \A k \in i + 1 .. j : k \in 1 .. r.length
    OBVIOUS
  <2>2. \A k \in i + 1 .. j : Items(r)[k].mean = MeansOf(r)[k]
    BY <2>1 DEF MeansOf
  <2> QED
    BY <2>2
<1> QED
  BY <1>1 DEF SumOfMeans, RangeSum

LEMMA MeanExpires ==
  ASSUME NEW o, NEW T, NEW s \in Int, NEW t \in Int, s <= t, NEW first,
         IsIndicator(o, T, s, first), MeansHold(o, s), NEW w \in DOMAIN o.windows
  PROVE  LET x == ExpireMeans(Items(o.data), o.windows[w], t)
         IN  SameWindow(o.windows[w], x) /\ MeanHolds(o.data, x, t)
<1> DEFINE r == o.data
           n == r.length
           y == o.windows[w]
           m == y.count
           f == n - m
           c == CountAt(Items(r), y, t)
           p == n - c
           x == ExpireMeans(Items(r), y, t)
           v == MeansOf(r)
           new == y.value - SumOfMeans(Items(r), n - m, n - c)
<1>1. /\ Tracks(r, T, s) /\ IsWindow(y, r.capacity) /\ y.duration \in Nat
      /\ y = [field \in WindowFields |-> y[field]]
      /\ MeanHolds(r, y, s)
  BY DEF IsIndicator, MeansHold, IsWindow, IsDuration
<1>2. n \in Nat /\ Len(Items(r)) = n /\ m \in 0 .. n /\ f \in 0 .. n
  BY <1>1, TracksFacts DEF MeanHolds, Parts
<1>3. Parts(r, p, y.duration, t) /\ c \in 0 .. m /\ p \in Int /\ f <= p /\ p <= n
  <2>1. Parts(r, n - m, y.duration, s) /\ m \in Nat
    BY <1>1, <1>2 DEF MeanHolds
  <2>2. Parts(r, n - c, y.duration, t) /\ c \in 0 .. m
    BY <1>1, <2>1, CountAtParts
  <2> HIDE DEF c, m
  <2> QED
    BY <1>2, <2>2
<1>4. x = [y EXCEPT !.value = new, !.count = c]
  BY <1>2 DEF ExpireMeans
<1>5. new = RangeSum(v, p, n)
  <2>1. \A k \in 1 .. n : v[k] \in Int
    BY DEF MeansOf, MeansHold
  <2>2. SumOfMeans(Items(r), f, p) = RangeSum(v, f, p)
    <3>1. f \in Nat
      BY <1>2
    <3> HIDE DEF p, f
    <3> QED
      BY <1>2, <1>3, <3>1, MeansAreRange
  <2>3. y.value = RangeSum(v, f, n)
    BY <1>1 DEF MeanHolds
  <2>4. new = y.value - SumOfMeans(Items(r), f, p)
    OBVIOUS
  <2> HIDE DEF v, p, f, n, new
  <2>5. (\A k \in f + 1 .. n : v[k] \in Int) /\ (\A k \in f + 1 .. p : v[k] \in Int)
        /\ \A k \in p + 1 .. n : v[k] \in Int
    BY <1>2, <1>3, <2>1
  <2>6. RangeSum(v, f, n) = RangeSum(v, f, p) + RangeSum(v, p, n)
    BY <1>2, <1>3, <2>5, RangeSplit
  <2>7. RangeSum(v, f, p) \in Int /\ RangeSum(v, p, n) \in Int
    BY <1>2, <1>3, <2>5, RangeType
  <2> QED
    BY <2>2, <2>3, <2>4, <2>6, <2>7
<1> HIDE DEF new, c, x
<1>6. /\ x = [field \in WindowFields |-> x[field]]
      /\ x.duration = y.duration /\ x.ready = y.ready /\ x.value = new /\ x.count = c
  <2> HIDE DEF y
  <2> QED
    BY <1>1, <1>4 DEF WindowFields
<1>7. c \in 0 .. n
  BY <1>2, <1>3
<1>8. SameWindow(y, x) /\ MeanHolds(r, x, t)
  BY <1>3, <1>5, <1>6, <1>7 DEF SameWindow, MeanHolds
<1> QED
  BY <1>8 DEF x

LEMMA ObserveAverageKeeps ==
  ASSUME NEW o, NEW T, NEW s \in Int, NEW t \in Int, s <= t, NEW first \in Int,
         IsIndicator(o, T, s, first), MeansHold(o, s)
  PROVE  LET next == ObserveAverage(o, t)
         IN  /\ IsIndicator(next, T, t, first) /\ MeansHold(next, t)
             /\ next.data = o.data /\ next.policy = o.policy
             /\ next.lastSum = o.lastSum /\ next.lastCount = o.lastCount
             /\ DOMAIN next.windows = DOMAIN o.windows
<1> DEFINE next == ObserveAverage(o, t)
<1>1. CASE o.last = t
  <2>1. next = o /\ s = t
    BY <1>1 DEF ObserveAverage, Observing, IsIndicator
  <2> QED
    BY <2>1
<1>2. CASE o.last # t
  <2> DEFINE passed == [w \in DOMAIN o.windows |-> ExpireMeans(Items(o.data), o.windows[w], t)]
  <2>1. next = Observed(o, passed, t)
    BY <1>2 DEF ObserveAverage, Observing, Observed, EachWindow, WithWindows
  <2>2. \A w \in DOMAIN o.windows :
          SameWindow(o.windows[w], passed[w]) /\ MeanHolds(o.data, passed[w], t)
    BY MeanExpires
  <2>3. SameWindows(o.windows, passed)
    BY <2>2 DEF SameWindows
  <2> HIDE DEF passed, next
  <2>4. /\ IsIndicator(next, T, t, first)
        /\ \A field \in IndicatorFields \ {"windows", "last"} : next[field] = o[field]
        /\ DOMAIN next.windows = DOMAIN o.windows
        /\ \A w \in DOMAIN o.windows : \A field \in WindowFields \ {"ready"} :
             next.windows[w][field] = passed[w][field]
    <3>1. ObservedAs(o, passed, next, T, t, first)
      BY <2>1, <2>3, ObservingKeeps
    <3> QED
      BY <3>1 DEF ObservedAs
  <2>5. next.data = o.data /\ next.policy = o.policy
        /\ next.lastSum = o.lastSum /\ next.lastCount = o.lastCount
    <3>1. next["data"] = o["data"] /\ next["policy"] = o["policy"]
          /\ next["lastSum"] = o["lastSum"] /\ next["lastCount"] = o["lastCount"]
      BY <2>4 DEF IndicatorFields
    <3> QED
      BY <3>1
  <2>6. ASSUME NEW w \in DOMAIN next.windows
        PROVE  MeanHolds(next.data, next.windows[w], t)
    <3>1. w \in DOMAIN o.windows
      BY <2>4
    <3>2. /\ next.windows[w].count = passed[w].count
          /\ next.windows[w].duration = passed[w].duration
          /\ next.windows[w].value = passed[w].value
      BY <2>4, <3>1 DEF WindowFields
    <3> QED
      BY <2>2, <2>5, <3>1, <3>2 DEF MeanHolds
  <2>7. MeansHold(next, t)
    BY <2>5, <2>6 DEF MeansHold
  <2> QED
    BY <2>4, <2>5, <2>7 DEF next
<1> QED
  BY <1>1, <1>2

(* A value in the averages.  The bucket written to again is in the window, *)
(* and the one that is evicted has left it.                                *)
LEMMA MeanIsInt ==
  ASSUME NEW sum \in Int, NEW count \in Nat \ {0}
  PROVE  Mean(sum, count) \in Int
<1> DEFINE scaled == Scale * sum
<1>1. scaled \in Int
  BY IndicatorParameters
<1> HIDE DEF scaled
<1>2. scaled \div count \in Int
  BY <1>1, QuotientBounds
<1> QED
  BY <1>2 DEF Mean, scaled

UpdatedAverage(o, next, T, value, t, first) ==
  /\ IsIndicator(next, T \cup {BucketOf(t)}, t, first) /\ MeansHold(next, t)
  /\ next.policy = o.policy /\ DOMAIN next.windows = DOMAIN o.windows
  /\ \E same, bucket :
       /\ RecordedAt(o.data, next.data, same, bucket, t)
       /\ next.lastSum = (IF same THEN o.lastSum ELSE 0) + value
       /\ next.lastCount = (IF same THEN o.lastCount ELSE 0) + 1
       /\ bucket.mean = Mean(next.lastSum, next.lastCount)

LEMMA UpdateAverageKeeps ==
  ASSUME NEW before, NEW T, NEW s \in Int, NEW t \in Int, s <= t, t # Never,
         NEW first \in Int, IsIndicator(before, T, s, first), MeansHold(before, s),
         NEW value \in Int
  PROVE  UpdatedAverage(before, UpdateAverage(before, value, t), T, value, t, Begun(first, t))
<1> DEFINE begun == Starting(before, t)
           at == Begun(first, t)
           o == ObserveAverage(begun, t)
           r == o.data
           same == SameBucket(o, t)
           old == Newest(o)
           sum == IF same THEN o.lastSum + value ELSE value
           count == IF same THEN o.lastCount + 1 ELSE 1
           bucket == [index |-> BucketOf(t), mean |-> Mean(sum, count)]
           delta == IF same THEN bucket.mean - old.mean ELSE bucket.mean
           passed(window) == IF same THEN MeanReplaced(window, old, bucket, t)
                                     ELSE MeanAdded(o, window, bucket)
           windows == [w \in DOMAIN o.windows |-> passed(o.windows[w])]
           recorded == RecordedWith(o, windows, same, bucket)
           next == UpdateAverage(before, value, t)
<1>1. at \in Int
  BY DEF Begun
<1>2. IsIndicator(begun, T, s, at) /\ MeansHold(begun, s)
      /\ begun.data = before.data /\ begun.policy = before.policy
      /\ begun.lastSum = before.lastSum /\ begun.lastCount = before.lastCount
      /\ DOMAIN begun.windows = DOMAIN before.windows
  <2>1. StartedAs(before, begun, T, s, at)
    BY StartingKeeps
  <2> HIDE DEF begun, at
  <2>2. /\ IsIndicator(begun, T, s, at)
        /\ begun["data"] = before["data"] /\ begun["policy"] = before["policy"]
        /\ begun["lastSum"] = before["lastSum"] /\ begun["lastCount"] = before["lastCount"]
        /\ DOMAIN begun.windows = DOMAIN before.windows
    BY <2>1 DEF StartedAs, IndicatorFields
  <2>3. \A w \in DOMAIN before.windows :
          /\ begun.windows[w].duration = before.windows[w].duration
          /\ begun.windows[w].value = before.windows[w].value
          /\ begun.windows[w].count = before.windows[w].count
    BY <2>1 DEF StartedAs, WindowFields
  <2>4. \A w \in DOMAIN begun.windows : MeanHolds(begun.data, begun.windows[w], s)
    BY <2>2, <2>3 DEF MeansHold, MeanHolds
  <2> QED
    BY <2>2, <2>4 DEF MeansHold
<1> HIDE DEF begun, at
<1>3. /\ IsIndicator(o, T, t, at) /\ MeansHold(o, t)
      /\ r = before.data /\ o.policy = before.policy
      /\ o.lastSum = before.lastSum /\ o.lastCount = before.lastCount
      /\ DOMAIN o.windows = DOMAIN before.windows
  BY <1>1, <1>2, ObserveAverageKeeps
<1>4. next = [recorded EXCEPT !.lastSum = sum, !.lastCount = count]
  BY DEF UpdateAverage, EachWindow, RecordedWith, WithWindows, begun
<1>5. bucket.index = BucketOf(t) /\ bucket.mean = Mean(sum, count)
  OBVIOUS
<1> HIDE DEF o, bucket, windows, same, next, sum, count, old, delta, recorded
<1>6. Tracks(r, T, t) /\ IsRing(r) /\ r.length \in Nat /\ Len(Items(r)) = r.length
  BY <1>3, TracksFacts DEF IsIndicator
<1>7. same \in BOOLEAN /\ IsSame(r, same, t)
  BY <1>6, SameBucketIsSame DEF same, IsSame
<1>8. ASSUME same
      PROVE  /\ r.length > 0 /\ old = Items(r)[r.length] /\ old.mean \in Int
             /\ r.length \in 1 .. r.length
             /\ o.lastSum \in Int /\ o.lastCount \in Nat \ {0}
  <2>1. r.length > 0
    BY <1>7, <1>8 DEF IsSame
  <2>2. old = Items(r)[r.length] /\ r.length \in 1 .. r.length
    BY <1>6, <2>1, SameBucketIsSame DEF old
  <2> QED
    BY <1>3, <2>1, <2>2 DEF MeansHold
<1>9. /\ sum \in Int /\ sum = (IF same THEN o.lastSum ELSE 0) + value
      /\ count \in Nat \ {0} /\ count = (IF same THEN o.lastCount ELSE 0) + 1
  <2>1. CASE same
    BY <1>8, <2>1 DEF sum, count
  <2>2. CASE ~ same
    BY <2>2 DEF sum, count
  <2> QED
    BY <1>7, <2>1, <2>2
<1>10. bucket.mean \in Int
  BY <1>5, <1>9, MeanIsInt
<1>11. /\ delta \in Int
       /\ bucket.mean = (IF same THEN MeansOf(r)[r.length] ELSE 0) + delta
  <2>1. CASE same
    <3>1. MeansOf(r)[r.length] = old.mean /\ old.mean \in Int
      BY <1>8, <2>1 DEF MeansOf
    <3>2. delta = bucket.mean - old.mean
      BY <2>1 DEF delta
    <3> QED
      BY <1>10, <2>1, <3>1, <3>2
  <2>2. CASE ~ same
    <3>1. delta = bucket.mean
      BY <2>2 DEF delta
    <3> QED
      BY <1>10, <2>2, <3>1
  <2> QED
    BY <1>7, <2>1, <2>2
<1>12. recorded = [field \in IndicatorFields |-> recorded[field]]
  <2>1. o = [field \in IndicatorFields |-> o[field]]
    BY <1>3 DEF IsIndicator, IsShaped
  <2> QED
    BY <2>1 DEF recorded, RecordedWith, WithWindows, IndicatorFields
<1>13. /\ next = [field \in IndicatorFields |-> next[field]]
       /\ next.data = recorded.data /\ next.windows = recorded.windows
       /\ next.policy = recorded.policy /\ next.first = recorded.first
       /\ next.last = recorded.last /\ next.lastSum = sum /\ next.lastCount = count
  BY <1>4, <1>12 DEF IndicatorFields
<1>14. recorded.data = Recording(o, same, bucket)
  <2>1. o = [field \in IndicatorFields |-> o[field]]
    BY <1>3 DEF IsIndicator, IsShaped
  <2> QED
    BY <2>1 DEF recorded, RecordedWith, WithWindows, IndicatorFields
<1> DEFINE q == next.data
<1>15. RecordedAt(r, q, same, bucket, t)
  <2>1. same => ~ IsEmptyRing(r)
    BY <1>8 DEF IsEmptyRing
  <2>2. Recorded(r, Recording(o, same, bucket), same, bucket)
    BY <1>6, <1>7, <2>1, RecordingAppends
  <2>3. q = Recording(o, same, bucket)
    BY <1>13, <1>14
  <2> QED
    BY <1>5, <1>7, <2>2, <2>3 DEF RecordedAt
<1>16. /\ q.length = Kept(r, same) + 1 /\ Kept(r, same) \in Nat /\ Shift(r, same) \in {0, 1}
       /\ same => Kept(r, same) = r.length - 1 /\ Shift(r, same) = 0
       /\ ~ same => r.length = Kept(r, same) + Shift(r, same)
       /\ \A k \in 1 .. Kept(r, same) : k + Shift(r, same) \in 1 .. r.length
                                       /\ Items(q)[k] = Items(r)[k + Shift(r, same)]
       /\ Items(q)[q.length] = bucket
  BY <1>6, <1>15, RecordedFacts
<1>17. ASSUME NEW w \in DOMAIN o.windows
       PROVE  /\ OffsetFits(r, same, r.length - o.windows[w].count)
              /\ Parts(q, r.length - o.windows[w].count - Shift(r, same), o.windows[w].duration, t)
              /\ o.windows[w].count \in 0 .. r.length
              /\ o.windows[w].value
                   = RangeSum(MeansOf(r), r.length - o.windows[w].count, r.length)
  <2> DEFINE f == r.length - o.windows[w].count
             d == o.windows[w].duration
  <2>1. /\ o.windows[w].count \in 0 .. r.length /\ Parts(r, f, d, t)
        /\ o.windows[w].value = RangeSum(MeansOf(r), f, r.length)
    BY <1>3 DEF MeansHold, MeanHolds
  <2>2. IsDuration(d, r.capacity)
    BY <1>3 DEF IsIndicator, IsWindow
  <2> HIDE DEF f, d
  <2>3. /\ f \in Shift(r, same) .. r.length /\ (same => f < r.length)
        /\ Parts(q, f - Shift(r, same), d, t)
    BY <1>6, <1>15, <2>1, <2>2, RecordedParts
  <2> QED
    BY <2>1, <2>3 DEF f, d, OffsetFits
<1>18. ASSUME NEW w \in DOMAIN o.windows
       PROVE  /\ SameWindow(o.windows[w], windows[w])
              /\ windows[w].value = o.windows[w].value + delta
              /\ windows[w].count = o.windows[w].count + (IF same THEN 0 ELSE 1)
  <2> DEFINE x == o.windows[w]
             y == windows[w]
  <2>1. x = [field \in WindowFields |-> x[field]] /\ x.count \in 0 .. r.length
    BY <1>3, <1>17 DEF IsIndicator, IsWindow
  <2>2. x.value \in Int
    <3> DEFINE f == r.length - x.count
               v == MeansOf(r)
    <3>1. \A k \in 1 .. r.length : v[k] \in Int
      BY <1>3 DEF MeansHold, MeansOf
    <3>2. f \in Int /\ r.length \in Int /\ \A k \in f + 1 .. r.length : v[k] \in Int
      BY <1>6, <2>1, <3>1
    <3>3. x.value = RangeSum(v, f, r.length)
      BY <1>17
    <3> HIDE DEF f, v, x
    <3> QED
      BY <3>2, <3>3, RangeType
  <2>3. OffsetFits(r, same, r.length - x.count)
    BY <1>17
  <2>4. y = passed(x)
    BY DEF windows
  <2>5. CASE same
    <3>1. x.count > 0
      <4>1. r.length - x.count < r.length
        BY <2>3, <2>5 DEF OffsetFits
      <4> QED
        BY <1>6, <2>1, <4>1
    <3>2. y = [x EXCEPT !.value = (x.value - old.mean) + bucket.mean]
      BY <2>4, <2>5, <3>1 DEF MeanReplaced
    <3>3. (x.value - old.mean) + bucket.mean = x.value + delta
      BY <1>8, <1>10, <2>2, <2>5 DEF delta
    <3> HIDE DEF x, y
    <3>4. /\ y = [field \in WindowFields |-> y[field]]
          /\ y.duration = x.duration /\ y.ready = x.ready
          /\ y.value = x.value + delta /\ y.count = x.count
      BY <2>1, <3>2, <3>3 DEF WindowFields
    <3>5. y.count = x.count + 0
      BY <2>1, <3>4
    <3> QED
      BY <2>5, <3>4, <3>5 DEF SameWindow, x, y
  <2>6. CASE ~ same
    <3>1. ~ (Full(o) /\ x.count = r.length)
      <4>1. Full(o) => Shift(r, same) = 1
        BY <2>6 DEF Full, Shift
      <4>2. Shift(r, same) <= r.length - x.count /\ Shift(r, same) \in {0, 1}
        BY <1>16, <2>3 DEF OffsetFits
      <4> QED
        BY <1>6, <2>1, <4>1, <4>2
    <3>2. y = [x EXCEPT !.value = (x.value - 0) + bucket.mean, !.count = x.count + 1]
      BY <2>4, <2>6, <3>1 DEF MeanAdded
    <3>3. (x.value - 0) + bucket.mean = x.value + delta
      BY <1>10, <2>2, <2>6 DEF delta
    <3> HIDE DEF x, y
    <3>4. /\ y = [field \in WindowFields |-> y[field]]
          /\ y.duration = x.duration /\ y.ready = x.ready
          /\ y.value = x.value + delta /\ y.count = x.count + 1
      BY <2>1, <3>2, <3>3 DEF WindowFields
    <3> QED
      BY <2>6, <3>4 DEF SameWindow, x, y
  <2> QED
    BY <1>7, <2>5, <2>6
<1>19. /\ IsIndicator(recorded, T \cup {BucketOf(t)}, t, at)
       /\ recorded.windows = windows /\ recorded.policy = o.policy
  <2>1. SameWindows(o.windows, windows)
    <3>1. windows = [w \in DOMAIN o.windows |-> windows[w]]
      BY DEF windows
    <3> QED
      BY <1>18, <3>1 DEF SameWindows
  <2> QED
    BY <1>1, <1>3, <1>5, <2>1, RecordedWithFacts DEF same, recorded
<1>20. IsIndicator(next, T \cup {BucketOf(t)}, t, at)
  BY <1>13, <1>19 DEF IsIndicator, IsShaped
<1> HIDE DEF q
<1>21. ASSUME NEW k \in 1 .. q.length
       PROVE  Items(q)[k].mean \in Int
  <2>1. CASE k = q.length
    BY <1>10, <1>16, <2>1
  <2>2. CASE k # q.length
    <3>1. k \in 1 .. Kept(r, same)
      BY <1>16, <2>2
    <3> QED
      BY <1>3, <1>16, <3>1 DEF MeansHold
  <2> QED
    BY <2>1, <2>2
<1>22. ASSUME NEW w \in DOMAIN o.windows
       PROVE  MeanHolds(q, windows[w], t)
  <2> DEFINE f == r.length - o.windows[w].count
             e == Shift(r, same)
             v == MeansOf(r)
             u == MeansOf(q)
  <2>1. windows[w].count \in 0 .. q.length /\ q.length - windows[w].count = f - e
        /\ o.windows[w].count \in 0 .. r.length
    <3> DEFINE a == o.windows[w].count
               b == windows[w].count
    <3>1. a \in 0 .. r.length /\ b = a + (IF same THEN 0 ELSE 1)
      BY <1>17, <1>18
    <3>2. e <= r.length - a
      BY <1>17 DEF OffsetFits
    <3> HIDE DEF a, b, e
    <3>3. e \in {0, 1}
      BY <1>16 DEF e
    <3>4. CASE same
      <4>1. b = a + 0 /\ a \in 0 .. r.length
        BY <3>1, <3>4
      <4>2. /\ Kept(r, same) = r.length - 1 /\ e = 0
            /\ q.length = Kept(r, same) + 1 /\ r.length \in Nat
        BY <1>6, <1>16, <3>4 DEF e
      <4>3. q.length = r.length /\ b = a
        BY ONLY <4>1, <4>2
      <4> QED
        BY <1>6, <4>1, <4>2, <4>3 DEF a, b
    <3>5. CASE ~ same
      <4>1. b = a + 1 /\ a \in 0 .. r.length
        BY <3>1, <3>5
      <4>2. /\ r.length = Kept(r, same) + e /\ Kept(r, same) \in Nat
            /\ q.length = Kept(r, same) + 1 /\ r.length \in Nat
        BY <1>6, <1>16, <3>5 DEF e
      <4>3. q.length = (r.length - e) + 1
        BY ONLY <3>3, <4>2
      <4>4. b \in 0 .. q.length /\ q.length - b = (r.length - a) - e
        BY ONLY <3>2, <3>3, <4>1, <4>2, <4>3
      <4> QED
        BY <4>1, <4>4 DEF a, b
    <3> QED
      BY <1>7, <3>4, <3>5
  <2>2. \A k \in 1 .. r.length : v[k] \in Int
    BY <1>3 DEF MeansHold, MeansOf
  <2>3. Moved(r, u, v, same)
    <3>1. \A k \in 1 .. Kept(r, same) : k \in 1 .. q.length
      BY <1>16
    <3> QED
      BY <1>16, <3>1 DEF MeansOf, Moved
  <2>4. u[q.length] = (IF same THEN v[r.length] ELSE 0) + delta
    <3>1. q.length \in 1 .. q.length
      BY <1>16
    <3>2. u[q.length] = bucket.mean
      BY <1>16, <3>1 DEF MeansOf
    <3> QED
      BY <1>11, <3>2
  <2>5. Grown(r, q, u, v, same, delta)
    BY <1>11, <2>2, <2>3, <2>4 DEF Grown
  <2>6. MeansOf(q) = u
    OBVIOUS
  <2>7. /\ o.windows[w].value = RangeSum(v, f, r.length) /\ OffsetFits(r, same, f)
        /\ Parts(q, f - e, o.windows[w].duration, t)
    BY <1>17
  <2> HIDE DEF u, v, f, e
  <2>8. RangeSum(u, f - Shift(r, same), q.length) = RangeSum(v, f, r.length) + delta
    BY <1>6, <1>15, <2>5, <2>7, RecordedSum DEF q
  <2>9. windows[w].value = RangeSum(u, f - e, q.length)
        /\ windows[w].duration = o.windows[w].duration
    BY <1>18, <2>7, <2>8 DEF SameWindow, e
  <2> QED
    BY <2>1, <2>6, <2>7, <2>9 DEF MeanHolds
<1>23. MeansHold(next, t)
  BY <1>9, <1>13, <1>19, <1>21, <1>22 DEF MeansHold, q, windows
<1>24. DOMAIN windows = DOMAIN o.windows
  BY DEF windows
<1>25. /\ next.lastSum = (IF same THEN before.lastSum ELSE 0) + value
       /\ next.lastCount = (IF same THEN before.lastCount ELSE 0) + 1
       /\ bucket.mean = Mean(next.lastSum, next.lastCount)
  BY <1>3, <1>5, <1>9, <1>13
<1> QED
  BY <1>3, <1>13, <1>15, <1>19, <1>20, <1>23, <1>24, <1>25 DEF UpdatedAverage, next, at, q

-----------------------------------------------------------------------------
(* The log, and what a trade adds to what was traded in its bucket.        *)

Entries == [at : Int, price : Nat, volume : Nat,
            side : {"AggressorBuy", "AggressorSell", "None"}]

LogType == log \in Seq(Entries)

LEMMA InFacts ==
  ASSUME LogType
  PROVE  /\ DOMAIN log = 1 .. Len(log) /\ Len(log) \in Nat
         /\ \A i \in 1 .. Len(log) : log[i] \in Entries /\ log[i].at \in Int
                                      /\ log[i].price \in Nat /\ log[i].volume \in Nat
         /\ \A b : In(b) \subseteq 1 .. Len(log) /\ IsFiniteSet(In(b))
         /\ \A b : b \in Traded <=> In(b) # {}
         /\ \A b \in Traded : b \in Int
<1>1. /\ DOMAIN log = 1 .. Len(log) /\ Len(log) \in Nat
      /\ \A i \in 1 .. Len(log) : log[i] \in Entries
  BY DEF LogType
<1>2. \A i \in 1 .. Len(log) : log[i].at \in Int /\ log[i].price \in Nat /\ log[i].volume \in Nat
  BY <1>1 DEF Entries
<1>3. ASSUME NEW b
      PROVE  In(b) \subseteq 1 .. Len(log) /\ IsFiniteSet(In(b))
  <2>1. In(b) \subseteq 1 .. Len(log)
    BY <1>1 DEF In
  <2>2. IsFiniteSet(1 .. Len(log))
    BY <1>1, FS_Interval
  <2> QED
    BY <2>1, <2>2, FS_Subset
<1>4. \A b : b \in Traded <=> In(b) # {}
  BY DEF Traded, In
<1>5. \A b \in Traded : b \in Int
  BY <1>1, <1>2, BucketType DEF Traded
<1> QED
  BY <1>1, <1>2, <1>3, <1>4, <1>5

(* A trade is logged. *)
Logged(e) == e \in Entries /\ log' = Append(log, e)

LEMMA LogGrows ==
  ASSUME LogType, NEW e, Logged(e)
  PROVE  /\ LogType' /\ Len(log)' = Len(log) + 1 /\ Len(log) + 1 \notin DOMAIN log
         /\ \A i \in 1 .. Len(log) : log'[i] = log[i]
         /\ log'[Len(log) + 1] = e
         /\ Traded' = Traded \cup {BucketOf(e.at)}
         /\ \A c : c # BucketOf(e.at) => In(c)' = In(c)
         /\ In(BucketOf(e.at))' = In(BucketOf(e.at)) \cup {Len(log) + 1}
<1> DEFINE n == Len(log)
           b == BucketOf(e.at)
<1>1. LogType' /\ Len(log') = n + 1 /\ n \in Nat
  BY DEF LogType, Logged
<1>2. (\A i \in 1 .. n : log'[i] = log[i]) /\ log'[n + 1] = e
  BY DEF LogType, Logged
<1>3. DOMAIN log = 1 .. n /\ DOMAIN log' = 1 .. n + 1
  BY <1>1 DEF LogType
<1>4. 1 .. n + 1 = 1 .. n \cup {n + 1} /\ n + 1 \notin 1 .. n
  BY <1>1
<1>5. ASSUME NEW c
      PROVE  In(c)' = In(c) \cup (IF c = b THEN {n + 1} ELSE {})
  <2>1. In(c)' = {i \in 1 .. n \cup {n + 1} : BucketOf(log'[i].at) = c}
    BY <1>3, <1>4 DEF In
  <2>2. In(c) = {i \in 1 .. n : BucketOf(log[i].at) = c}
    BY <1>3 DEF In
  <2> QED
    BY <1>2, <1>4, <2>1, <2>2
<1>6. Traded' = Traded \cup {b}
  <2>1. Traded' = {BucketOf(log'[i].at) : i \in 1 .. n \cup {n + 1}}
    BY <1>3, <1>4 DEF Traded
  <2>2. Traded = {BucketOf(log[i].at) : i \in 1 .. n}
    BY <1>3 DEF Traded
  <2> QED
    BY <1>2, <2>1, <2>2
<1>7. \A c : c # b => In(c)' = In(c)
  BY <1>5
<1>8. In(b)' = In(b) \cup {n + 1}
  BY <1>5
<1> QED
  BY <1>1, <1>2, <1>3, <1>4, <1>6, <1>7, <1>8

(* Sums over the trades of a bucket. *)
GoesOn(f, g, S) == IsFiniteSet(S) /\ \A x \in S : f[x] \in Int /\ g[x] = f[x]

LEMMA SumOverMore ==
  ASSUME NEW S, NEW i, i \notin S, NEW f, NEW g, GoesOn(f, g, S), g[i] \in Int
  PROVE  SumFunctionOnSet(g, S \cup {i}) = SumFunctionOnSet(f, S) + g[i]
<1>1. SumFunctionOnSet(g, S \cup {i}) = SumFunctionOnSet(g, S) + g[i]
  <2>1. \A x \in S \cup {i} : g[x] \in Int
    BY DEF GoesOn
  <2> QED
    BY <2>1, SumAdd DEF GoesOn
<1>2. SumFunctionOnSet(g, S) = SumFunctionOnSet(f, S)
  BY SumEqual DEF GoesOn
<1> QED
  BY <1>1, <1>2

SumOver(f, S) == SumFunctionOnSet([x \in S |-> f[x]], S)

(* A trade adds what it is worth in its bucket, and elsewhere nothing. *)
Adds(f, g, x) ==
  /\ \A c : SumOver(f, In(c)) \in Int
  /\ \A c : c # x => SumOver(g, In(c)') = SumOver(f, In(c))
  /\ SumOver(g, In(x)') = SumOver(f, In(x)) + g[Len(log) + 1]

LEMMA BucketSums ==
  ASSUME LogType, NEW e, Logged(e), NEW f, \A i \in 1 .. Len(log) : f[i] \in Int,
         NEW g, \A i \in 1 .. Len(log) : g[i] = f[i], g[Len(log) + 1] \in Int
  PROVE  Adds(f, g, BucketOf(e.at))
<1> DEFINE n == Len(log)
           b == BucketOf(e.at)
           F(c) == [x \in In(c) |-> f[x]]
<1>1. \A c : In(c) \subseteq 1 .. n /\ IsFiniteSet(In(c))
  BY InFacts
<1>2. \A c : SumOver(f, In(c)) \in Int
  <2>1. \A c : \A x \in In(c) : F(c)[x] \in Int
    BY <1>1
  <2>2. \A c : SumOver(f, In(c)) = SumFunctionOnSet(F(c), In(c))
    BY DEF SumOver
  <2> HIDE DEF F
  <2> QED
    BY <1>1, <2>1, <2>2, SumType
<1>3. ASSUME NEW c, c # b
      PROVE  SumOver(g, In(c)') = SumOver(f, In(c))
  <2>1. In(c)' = In(c)
    BY <1>3, LogGrows
  <2>2. [x \in In(c) |-> g[x]] = [x \in In(c) |-> f[x]]
    BY <1>1
  <2> QED
    BY <2>1, <2>2 DEF SumOver
<1>4. SumOver(g, In(b)') = SumOver(f, In(b)) + g[n + 1]
  <2> DEFINE S == In(b)
             i == n + 1
             v == [x \in S |-> f[x]]
             u == [x \in S \cup {i} |-> g[x]]
  <2>1. In(b)' = S \cup {i} /\ i \notin S
    BY InFacts, LogGrows
  <2>2. (\A x \in S : v[x] \in Int /\ u[x] = v[x]) /\ u[i] \in Int /\ u[i] = g[n + 1]
        /\ IsFiniteSet(S) /\ i \notin S
    BY <1>1, <2>1
  <2>3. SumOver(g, S \cup {i}) = SumFunctionOnSet(u, S \cup {i})
        /\ SumOver(f, S) = SumFunctionOnSet(v, S)
    BY DEF SumOver
  <2> HIDE DEF S, i, v, u
  <2>4. SumFunctionOnSet(u, S \cup {i}) = SumFunctionOnSet(v, S) + u[i]
    <3>1. GoesOn(v, u, S)
      BY <2>2 DEF GoesOn
    <3>2. i \notin S /\ u[i] \in Int
      BY <2>2
    <3> QED
      BY ONLY <3>1, <3>2, SumOverMore
  <2> QED
    BY <2>1, <2>2, <2>3, <2>4 DEF S
<1> QED
  BY <1>2, <1>3, <1>4 DEF Adds

LEMMA VolumeGrows ==
  ASSUME LogType, NEW e, Logged(e)
  PROVE  /\ \A c : Volume(c) \in Int /\ (c # BucketOf(e.at) => Volume(c)' = Volume(c))
         /\ Volume(BucketOf(e.at))' = Volume(BucketOf(e.at)) + e.volume
<1> DEFINE f == [i \in DOMAIN log |-> log[i].volume]
           g == [i \in DOMAIN log' |-> log'[i].volume]
           b == BucketOf(e.at)
<1>1. /\ \A i \in 1 .. Len(log) : f[i] \in Int /\ g[i] = f[i]
      /\ g[Len(log) + 1] = e.volume /\ e.volume \in Int
  <2>1. DOMAIN log = 1 .. Len(log) /\ DOMAIN log' = 1 .. Len(log) + 1 /\ Len(log) \in Nat
        /\ \A i \in 1 .. Len(log) : log[i].volume \in Int /\ log'[i] = log[i]
    BY InFacts, LogGrows DEF LogType
  <2>2. e.volume \in Int /\ log'[Len(log) + 1] = e
    BY LogGrows DEF Logged, Entries
  <2> QED
    BY <2>1, <2>2
<1>2. \A c : Volume(c) = SumOver(f, In(c))
  <2>1. \A c : [i \in In(c) |-> log[i].volume] = [i \in In(c) |-> f[i]]
    BY InFacts
  <2> QED
    BY <2>1 DEF Volume, SumIn, SumOver
<1>3. \A c : Volume(c)' = SumOver(g, In(c)')
  <2>1. \A c : [i \in In(c)' |-> log'[i].volume] = [i \in In(c)' |-> g[i]]
    BY DEF In
  <2> QED
    BY <2>1 DEF Volume, SumIn, SumOver
<1> HIDE DEF f, g, b
<1>4. Adds(f, g, b)
  BY <1>1, BucketSums DEF b
<1> QED
  BY <1>1, <1>2, <1>3, <1>4 DEF Adds, b

LEMMA NotionalGrows ==
  ASSUME LogType, NEW e, Logged(e)
  PROVE  /\ \A c : Notional(c) \in Int /\ (c # BucketOf(e.at) => Notional(c)' = Notional(c))
         /\ Notional(BucketOf(e.at))' = Notional(BucketOf(e.at)) + e.price * e.volume
<1> DEFINE f == [i \in DOMAIN log |-> log[i].price * log[i].volume]
           g == [i \in DOMAIN log' |-> log'[i].price * log'[i].volume]
           b == BucketOf(e.at)
           worth == e.price * e.volume
<1>1. /\ \A i \in 1 .. Len(log) : f[i] \in Int /\ g[i] = f[i]
      /\ g[Len(log) + 1] = worth /\ worth \in Int
  <2>1. DOMAIN log = 1 .. Len(log) /\ DOMAIN log' = 1 .. Len(log) + 1 /\ Len(log) \in Nat
        /\ \A i \in 1 .. Len(log) : log[i].price * log[i].volume \in Int /\ log'[i] = log[i]
    BY InFacts, LogGrows DEF LogType
  <2>2. e.price * e.volume \in Int /\ log'[Len(log) + 1] = e
    BY LogGrows DEF Logged, Entries
  <2> QED
    BY <2>1, <2>2
<1>2. \A c : Notional(c) = SumOver(f, In(c))
  <2>1. \A c : [i \in In(c) |-> log[i].price * log[i].volume] = [i \in In(c) |-> f[i]]
    BY InFacts
  <2> QED
    BY <2>1 DEF Notional, SumIn, SumOver
<1>3. \A c : Notional(c)' = SumOver(g, In(c)')
  <2>1. \A c : [i \in In(c)' |-> log'[i].price * log'[i].volume] = [i \in In(c)' |-> g[i]]
    BY DEF In
  <2> QED
    BY <2>1 DEF Notional, SumIn, SumOver
<1> HIDE DEF f, g, b, worth
<1>4. Adds(f, g, b)
  BY <1>1, BucketSums DEF b
<1>5. \A c : Notional(c) \in Int /\ (c # b => Notional(c)' = Notional(c))
  BY <1>2, <1>3, <1>4 DEF Adds
<1>6. Notional(b)' = Notional(b) + worth
  BY <1>1, <1>2, <1>3, <1>4 DEF Adds
<1> QED
  BY <1>5, <1>6 DEF b, worth

(* The prices of a bucket, of which its mean is made. *)
Prices(b) == SumIn(Price, In(b))

LEMMA PricesGrow ==
  ASSUME LogType, NEW e, Logged(e)
  PROVE  /\ \A c : Prices(c) \in Int /\ (c # BucketOf(e.at) => Prices(c)' = Prices(c))
         /\ Prices(BucketOf(e.at))' = Prices(BucketOf(e.at)) + e.price
<1> DEFINE f == [i \in DOMAIN log |-> log[i].price]
           g == [i \in DOMAIN log' |-> log'[i].price]
           b == BucketOf(e.at)
<1>1. /\ \A i \in 1 .. Len(log) : f[i] \in Int /\ g[i] = f[i]
      /\ g[Len(log) + 1] = e.price /\ e.price \in Int
  <2>1. DOMAIN log = 1 .. Len(log) /\ DOMAIN log' = 1 .. Len(log) + 1 /\ Len(log) \in Nat
        /\ \A i \in 1 .. Len(log) : log[i].price \in Int /\ log'[i] = log[i]
    BY InFacts, LogGrows DEF LogType
  <2>2. e.price \in Int /\ log'[Len(log) + 1] = e
    BY LogGrows DEF Logged, Entries
  <2> QED
    BY <2>1, <2>2
<1>2. \A c : Prices(c) = SumOver(f, In(c))
  <2>1. \A c : [i \in In(c) |-> Price(i)] = [i \in In(c) |-> f[i]]
    BY InFacts DEF Price
  <2> QED
    BY <2>1 DEF Prices, SumIn, SumOver
<1>3. \A c : Prices(c)' = SumOver(g, In(c)')
  <2>1. \A c : [i \in In(c)' |-> Price(i)'] = [i \in In(c)' |-> g[i]]
    BY DEF In, Price
  <2> QED
    BY <2>1 DEF Prices, SumIn, SumOver
<1> HIDE DEF f, g, b
<1>4. Adds(f, g, b)
  BY <1>1, BucketSums DEF b
<1> QED
  BY <1>1, <1>2, <1>3, <1>4 DEF Adds, b

LEMMA CountGrows ==
  ASSUME LogType, NEW e, Logged(e)
  PROVE  /\ \A c : Count(c) \in Nat /\ (c # BucketOf(e.at) => Count(c)' = Count(c))
         /\ \A c \in Traded : Count(c) \in Nat \ {0}
         /\ Count(BucketOf(e.at))' = Count(BucketOf(e.at)) + 1
         /\ \A c : c \notin Traded => Count(c) = 0
<1> DEFINE b == BucketOf(e.at)
<1>1. \A c : IsFiniteSet(In(c)) /\ (c \in Traded <=> In(c) # {})
  BY InFacts
<1>2. \A c : Count(c) \in Nat
  BY <1>1, FS_CardinalityType DEF Count
<1>3. \A c : c # b => Count(c)' = Count(c)
  BY LogGrows DEF Count
<1>4. \A c : Count(c) = 0 <=> c \notin Traded
  BY <1>1, FS_EmptySet DEF Count
<1>5. Count(b)' = Count(b) + 1
  <2>1. In(b)' = In(b) \cup {Len(log) + 1} /\ Len(log) + 1 \notin In(b)
    BY InFacts, LogGrows
  <2>2. Cardinality(In(b) \cup {Len(log) + 1}) = Cardinality(In(b)) + 1
    BY <1>1, <2>1, FS_AddElement
  <2> QED
    BY <2>1, <2>2 DEF Count
<1> QED
  BY <1>2, <1>3, <1>4, <1>5

(* The close of a bucket is the price of the last trade in it, and its      *)
(* direction is by the close of the bucket traded before it.                *)
LEMMA MaxIs ==
  ASSUME NEW S, S \subseteq Int, NEW m \in S, \A y \in S : y <= m
  PROVE  Max(S) = m
<1>1. m \in S /\ \A y \in S : m >= y
  OBVIOUS
<1>2. Max(S) \in S /\ \A y \in S : Max(S) >= y
  BY <1>1 DEF Max
<1>3. Max(S) >= m /\ m >= Max(S) /\ Max(S) \in Int /\ m \in Int
  BY <1>1, <1>2
<1> QED
  BY <1>3

LEMMA MaxOfFinite ==
  ASSUME NEW S, S \subseteq Int, S # {}, IsFiniteSet(S)
  PROVE  Max(S) \in S /\ \A y \in S : y <= Max(S)
<1>1. PICK m \in S : \A y \in S : y <= m
  BY GreatestElement
<1>2. Max(S) = m
  BY <1>1, MaxIs
<1> QED
  BY <1>1, <1>2

LEMMA CloseGrows ==
  ASSUME LogType, NEW e, Logged(e)
  PROVE  /\ \A c \in Traded : Close(c) \in Int /\ (c # BucketOf(e.at) => Close(c)' = Close(c))
         /\ Close(BucketOf(e.at))' = e.price
<1> DEFINE n == Len(log)
           b == BucketOf(e.at)
<1>1. ASSUME NEW c \in Traded
      PROVE  Close(c) \in Int /\ (c # b => Close(c)' = Close(c))
  <2>1. In(c) \subseteq 1 .. n /\ IsFiniteSet(In(c)) /\ In(c) # {} /\ n \in Nat
    BY InFacts
  <2>2. Max(In(c)) \in In(c)
    <3>1. In(c) \subseteq Int
      BY <2>1
    <3> QED
      BY <2>1, <3>1, MaxOfFinite
  <2>3. Close(c) = log[Max(In(c))].price /\ log[Max(In(c))].price \in Int
    BY <2>1, <2>2, InFacts DEF Close, Price
  <2>4. c # b => Close(c)' = log'[Max(In(c))].price
    BY LogGrows DEF Close, Price
  <2>5. log'[Max(In(c))] = log[Max(In(c))]
    BY <2>1, <2>2, LogGrows
  <2> QED
    BY <2>3, <2>4, <2>5
<1>2. Close(b)' = e.price
  <2>1. In(b)' = In(b) \cup {n + 1} /\ In(b) \subseteq 1 .. n /\ n \in Nat /\ log'[n + 1] = e
    BY InFacts, LogGrows
  <2> DEFINE S == In(b)'
             m == n + 1
  <2>2. S \subseteq Int /\ m \in S /\ \A y \in S : y <= m
    BY <2>1
  <2> HIDE DEF S, m
  <2>3. Max(S) = m
    BY <2>2, MaxIs
  <2>4. Close(b)' = log'[Max(S)].price
    BY DEF Close, Price, S
  <2> QED
    BY <2>1, <2>3, <2>4 DEF m
<1> QED
  BY <1>1, <1>2

Earlier(b) == {c \in Traded : c < b}

(* The close that the direction of a bucket is taken from, if any. *)
CloseBefore(b) == IF Earlier(b) = {} THEN <<>> ELSE <<Close(Max(Earlier(b)))>>

LEMMA TradedIsFinite ==
  ASSUME LogType
  PROVE  IsFiniteSet(Traded) /\ Traded \subseteq Int
<1>1. Traded = {BucketOf(log[i].at) : i \in 1 .. Len(log)} /\ Len(log) \in Nat
  BY InFacts DEF Traded
<1>2. IsFiniteSet(1 .. Len(log))
  BY <1>1, FS_Interval
<1> DEFINE f == [i \in 1 .. Len(log) |-> BucketOf(log[i].at)]
<1>3. f \in Surjection(1 .. Len(log), Traded)
  <2>1. f \in [1 .. Len(log) -> Traded] /\ \A c \in Traded : \E i \in 1 .. Len(log) : f[i] = c
    BY <1>1
  <2> HIDE DEF f
  <2> QED
    BY <2>1 DEF Surjection
<1> HIDE DEF f
<1> QED
  BY <1>2, <1>3, FS_Surjection, InFacts

LEMMA EarlierFacts ==
  ASSUME LogType, NEW b, Earlier(b) # {}
  PROVE  /\ Max(Earlier(b)) \in Earlier(b) /\ Max(Earlier(b)) \in Traded
         /\ Max(Earlier(b)) < b
         /\ \A y \in Earlier(b) : y <= Max(Earlier(b))
<1>1. Earlier(b) \subseteq Traded /\ Earlier(b) \subseteq Int /\ IsFiniteSet(Earlier(b))
  BY TradedIsFinite, FS_Subset DEF Earlier
<1>2. Max(Earlier(b)) \in Earlier(b) /\ \A y \in Earlier(b) : y <= Max(Earlier(b))
  BY <1>1, MaxOfFinite
<1> QED
  BY <1>2 DEF Earlier

LEMMA DirectionIsSign ==
  ASSUME LogType, NEW b, Close(b) \in Int
  PROVE  Direction(b) = Sign(CloseBefore(b), Close(b)) /\ Direction(b) \in Int
<1>1. CASE Earlier(b) = {}
  BY <1>1 DEF Direction, Earlier, Sign, CloseBefore
<1>2. CASE Earlier(b) # {}
  <2> DEFINE p == Close(Max(Earlier(b)))
             q == Close(b)
  <2>1. p \in Int /\ q \in Int
    <3>1. Max(Earlier(b)) \in Traded
      BY <1>2, EarlierFacts
    <3> DEFINE c == Max(Earlier(b))
    <3>2. In(c) # {} /\ In(c) \subseteq 1 .. Len(log) /\ In(c) \subseteq Int /\ IsFiniteSet(In(c))
      BY <3>1, InFacts
    <3>3. Max(In(c)) \in In(c)
      <4> HIDE DEF c
      <4> QED
        BY <3>2, MaxOfFinite
    <3> QED
      BY <3>2, <3>3, InFacts DEF Close, Price
  <2>2. Direction(b) = IF q > p THEN 1 ELSE IF q < p THEN -1 ELSE 0
    BY <1>2 DEF Direction, Earlier
  <2>3. CloseBefore(b) = <<p>>
    BY <1>2 DEF CloseBefore
  <2> HIDE DEF p, q
  <2>4. <<p>> # <<>> /\ <<p>>[1] = p /\ (<<p>> = <<q>> <=> p = q)
    OBVIOUS
  <2>5. Sign(<<p>>, q) = IF q > p THEN 1 ELSE IF q < p THEN -1 ELSE 0
    <3>1. CASE p = q
      BY <2>1, <2>4, <3>1 DEF Sign
    <3>2. CASE p < q
      BY <2>1, <2>4, <3>2 DEF Sign
    <3>3. CASE p > q
      BY <2>1, <2>4, <3>3 DEF Sign
    <3> QED
      BY <2>1, <3>1, <3>2, <3>3
  <2> QED
    BY <2>2, <2>3, <2>5 DEF q
<1> QED
  BY <1>1, <1>2

CloseOf(l, b) == l[Max({i \in DOMAIN l : BucketOf(l[i].at) = b})].price

Compared(E, close, before) ==
  IF E = {} THEN 0 ELSE IF close > before THEN 1 ELSE IF close < before THEN -1 ELSE 0

(* A trade in the newest bucket changes the direction of that one alone. *)
LEMMA DirectionGrows ==
  ASSUME LogType, NEW e, Logged(e), \A c \in Traded : c <= BucketOf(e.at)
  PROVE  /\ \A c \in Traded : c # BucketOf(e.at) => Direction(c)' = Direction(c)
         /\ Direction(BucketOf(e.at))' = Sign(CloseBefore(BucketOf(e.at)), e.price)
<1> DEFINE b == BucketOf(e.at)
<1>1. /\ Traded' = Traded \cup {b} /\ b \in Int /\ e.price \in Int
      /\ Traded \subseteq Int
  <2>1. e.at \in Int /\ e.price \in Int
    BY DEF Logged, Entries
  <2> QED
    BY <2>1, LogGrows, InFacts, BucketType
<1>2. \A c \in Traded : c # b => CloseOf(log', c) = CloseOf(log, c)
  <2>1. \A c \in Traded : c # b => Close(c)' = Close(c)
    BY CloseGrows
  <2>2. \A c : Close(c) = CloseOf(log, c)
    BY DEF Close, Price, In, CloseOf
  <2>3. \A c : Close(c)' = CloseOf(log', c)
    BY DEF Close, Price, In, CloseOf
  <2> QED
    BY <2>1, <2>2, <2>3
<1>3. \A c : Direction(c) = Compared(Earlier(c), Close(c), CloseOf(log, Max(Earlier(c))))
  BY DEF Direction, Compared, Earlier, Close, CloseOf, Price, In
<1>4. \A c : Direction(c)' = Compared(Earlier(c)', Close(c)', CloseOf(log', Max(Earlier(c)')))
  BY DEF Direction, Compared, Earlier, Close, CloseOf, Price, In
<1>5. ASSUME NEW c \in Traded \cup {b}
      PROVE  Earlier(c)' = Earlier(c)
  <2>1. c <= b /\ c \in Int
    BY <1>1
  <2>2. Earlier(c)' = {x \in Traded \cup {b} : x < c}
    BY <1>1 DEF Earlier
  <2>3. ~ (b < c)
    BY <1>1, <2>1
  <2> QED
    BY <2>2, <2>3 DEF Earlier
<1>6. ASSUME NEW c \in Traded \cup {b}, Earlier(c) # {}
      PROVE  CloseOf(log', Max(Earlier(c))) = CloseOf(log, Max(Earlier(c)))
  <2>1. Max(Earlier(c)) \in Traded /\ Max(Earlier(c)) < c
    BY <1>6, EarlierFacts
  <2>2. Max(Earlier(c)) # b
    BY <1>1, <2>1
  <2> QED
    BY <1>2, <2>1, <2>2
<1>7. ASSUME NEW c \in Traded, c # b
      PROVE  Direction(c)' = Direction(c)
  <2>1. Close(c)' = Close(c) /\ Earlier(c)' = Earlier(c)
    BY <1>5, <1>7, CloseGrows
  <2>2. Direction(c)' = Compared(Earlier(c), Close(c), CloseOf(log', Max(Earlier(c))))
    BY <1>4, <2>1
  <2>3. CASE Earlier(c) = {}
    BY <1>3, <2>2, <2>3 DEF Compared
  <2>4. CASE Earlier(c) # {}
    BY <1>3, <1>6, <2>2, <2>4
  <2> QED
    BY <2>3, <2>4
<1>8. Direction(b)' = Sign(CloseBefore(b), e.price)
  <2>1. Close(b)' = e.price /\ Earlier(b)' = Earlier(b)
    BY <1>5, CloseGrows
  <2>2. Direction(b)' = Compared(Earlier(b), e.price, CloseOf(log', Max(Earlier(b))))
    BY <1>4, <2>1
  <2>3. CASE Earlier(b) = {}
    BY <2>2, <2>3 DEF Compared, CloseBefore, Sign
  <2>4. CASE Earlier(b) # {}
    <3> DEFINE p == CloseOf(log, Max(Earlier(b)))
               q == e.price
    <3>1. Direction(b)' = IF q > p THEN 1 ELSE IF q < p THEN -1 ELSE 0
      BY <1>6, <2>2, <2>4 DEF Compared
    <3>2. CloseBefore(b) = <<p>>
      BY <2>4 DEF CloseBefore, Close, CloseOf, Price, In
    <3>3. p \in Int /\ q \in Int
      <4>1. Max(Earlier(b)) \in Traded
        BY <2>4, EarlierFacts
      <4>2. Close(Max(Earlier(b))) \in Int
        BY <4>1, CloseGrows
      <4> QED
        BY <1>1, <4>2 DEF Close, CloseOf, Price, In
    <3> HIDE DEF p, q
    <3>4. <<p>> # <<>> /\ <<p>>[1] = p /\ (<<p>> = <<q>> <=> p = q)
      OBVIOUS
    <3>5. Sign(<<p>>, q) = IF q > p THEN 1 ELSE IF q < p THEN -1 ELSE 0
      <4>1. CASE p = q
        BY <3>3, <3>4, <4>1 DEF Sign
      <4>2. CASE p < q
        BY <3>3, <3>4, <4>2 DEF Sign
      <4>3. CASE p > q
        BY <3>3, <3>4, <4>3 DEF Sign
      <4> QED
        BY <3>3, <4>1, <4>2, <4>3
    <3> QED
      BY <3>1, <3>2, <3>5 DEF q
  <2> QED
    BY <2>3, <2>4
<1> QED
  BY <1>7, <1>8

(* The bucket before that of the time, whatever the ring has evicted: it is *)
(* in the ring, which has room for two.                                     *)
LEMMA PreviousIsNewest ==
  ASSUME NEW r, NEW T, NEW t \in Int, Tracks(r, T, t), r.capacity >= 2,
         NEW same, IsSame(r, same, t)
  PROVE  LET p == IF same THEN r.length - 1 ELSE r.length
         IN  /\ p = 0 => {c \in T : c < BucketOf(t)} = {}
             /\ p # 0 => /\ p \in 1 .. r.length /\ Index(r, p) \in T /\ Index(r, p) < BucketOf(t)
                         /\ \A c \in T : c < BucketOf(t) => c <= Index(r, p)
<1> DEFINE n == r.length
           b == BucketOf(t)
           p == IF same THEN n - 1 ELSE n
<1>1. /\ n \in Nat /\ r.capacity \in Nat /\ b \in Int /\ same \in BOOLEAN
      /\ \A i \in 1 .. n : Index(r, i) \in T /\ Index(r, i) \in Int /\ Index(r, i) <= b
      /\ same => n > 0 /\ Index(r, n) = b
      /\ ~ same => (n > 0 => Index(r, n) # b)
  BY TracksFacts, BucketType DEF IsSame
<1>2. p \in 0 .. n /\ (n >= 2 => p >= 1)
  <2>1. CASE same
    <3>1. p = n - 1 /\ n > 0
      BY <1>1, <2>1
    <3> HIDE DEF p
    <3> QED
      BY <1>1, <3>1
  <2>2. CASE ~ same
    <3>1. p = n
      BY <2>2
    <3> HIDE DEF p
    <3> QED
      BY <1>1, <3>1
  <2> QED
    BY <1>1, <2>1, <2>2
<1>3. ASSUME NEW i \in 1 .. n, Index(r, i) < b
      PROVE  i <= p
  <2>1. CASE same
    <3>1. i # n /\ p = n - 1
      BY <1>1, <1>3, <2>1
    <3> HIDE DEF p
    <3> QED
      BY <1>1, <3>1
  <2>2. CASE ~ same
    <3>1. p = n
      BY <2>2
    <3> HIDE DEF p
    <3> QED
      BY <1>1, <3>1
  <2> QED
    BY <1>1, <2>1, <2>2
<1>4. ASSUME p # 0
      PROVE  p \in 1 .. n /\ Index(r, p) < b
  <2>1. p \in 1 .. n
    <3> HIDE DEF p
    <3> QED
      BY <1>1, <1>2, <1>4
  <2>2. CASE same
    <3>1. p < n /\ n \in 1 .. n
      <4>1. p = n - 1 /\ n > 0
        BY <1>1, <2>2
      <4> HIDE DEF p
      <4> QED
        BY <1>1, <4>1
    <3> HIDE DEF p
    <3>2. Index(r, p) < Index(r, n)
      BY <2>1, <3>1, TracksFacts
    <3> QED
      BY <1>1, <2>1, <2>2, <3>2
  <2>3. CASE ~ same
    <3>1. p = n /\ n > 0
      BY <1>1, <1>4, <2>3
    <3>2. Index(r, n) # b /\ Index(r, n) <= b /\ Index(r, n) \in Int
      BY <1>1, <2>1, <2>3, <3>1
    <3> QED
      BY <1>1, <2>1, <3>1, <3>2
  <2> QED
    BY <1>1, <2>2, <2>3
<1> HIDE DEF p
<1>5. ASSUME NEW c \in T, c < b
      PROVE  p # 0 /\ c <= Index(r, p)
  <2>1. CASE \E i \in 1 .. n : Index(r, i) = c
    <3>1. PICK i \in 1 .. n : Index(r, i) = c
      BY <2>1
    <3>2. i <= p /\ p # 0
      BY <1>1, <1>2, <1>3, <1>5, <3>1
    <3>3. Index(r, i) <= Index(r, p)
      BY <1>4, <3>1, <3>2, TracksFacts
    <3> QED
      BY <3>1, <3>2, <3>3
  <2>2. CASE IsFullRing(r) /\ c < Index(r, 1)
    <3>1. n >= 2
      BY <2>2 DEF IsFullRing
    <3>2. p >= 1 /\ p # 0 /\ 1 \in 1 .. n /\ p \in 1 .. n
      BY <1>1, <1>2, <3>1
    <3>3. Index(r, 1) <= Index(r, p) /\ Index(r, 1) \in Int /\ Index(r, p) \in Int
      BY <1>1, <3>2, TracksFacts
    <3>4. c \in Int
      BY DEF Tracks
    <3> QED
      BY <2>2, <3>2, <3>3, <3>4
  <2> QED
    BY <2>1, <2>2 DEF Tracks
<1> QED
  BY <1>1, <1>4, <1>5 DEF p

-----------------------------------------------------------------------------
(* Indicators whose buckets are of functions of the buckets traded, through *)
(* the operations of the indicators: first the sums.                        *)

SumsOf(o, T, t, first, f) ==
  /\ IsIndicator(o, T, t, first) /\ SumsHold(o, t)
  /\ \A sum \in 1 .. 2 : AreOf(o.data, ValuesOf(o.data, sum), f[sum])

(* A value adds to the functions what it is worth in its bucket. *)
Counted(f, g, T, b, values) ==
  \A sum \in 1 .. 2 : /\ ChangedAt(f[sum], g[sum], T, b)
                      /\ g[sum][b] = (IF b \in T THEN f[sum][b] ELSE 0) + values[sum]

LEMMA ObserveSumsOf ==
  ASSUME NEW o, NEW T, NEW s \in Int, NEW t \in Int, s <= t, NEW first \in Int,
         NEW f, SumsOf(o, T, s, first, f)
  PROVE  LET next == ObserveSums(o, t)
         IN  /\ SumsOf(next, T, t, first, f)
             /\ next.policy = o.policy /\ DOMAIN next.windows = DOMAIN o.windows
<1> DEFINE next == ObserveSums(o, t)
<1>1. IsIndicator(o, T, s, first) /\ SumsHold(o, s)
  BY DEF SumsOf
<1>2. /\ IsIndicator(next, T, t, first) /\ SumsHold(next, t) /\ next.data = o.data
      /\ next.policy = o.policy /\ DOMAIN next.windows = DOMAIN o.windows
  BY <1>1, ObserveSumsKeeps
<1> HIDE DEF next
<1> QED
  BY <1>2 DEF SumsOf, next

LEMMA UpdateSumsOf ==
  ASSUME NEW o, NEW T, NEW s \in Int, NEW t \in Int, s <= t, t # Never, NEW first \in Int,
         NEW f, SumsOf(o, T, s, first, f), NEW values, IsPair(values),
         NEW g, Counted(f, g, T, BucketOf(t), values)
  PROVE  LET next == UpdateSums(o, values, t)
         IN  /\ SumsOf(next, T \cup {BucketOf(t)}, t, Begun(first, t), g)
             /\ next.policy = o.policy /\ DOMAIN next.windows = DOMAIN o.windows
<1> DEFINE next == UpdateSums(o, values, t)
           b == BucketOf(t)
           at == Begun(first, t)
<1>1. IsIndicator(o, T, s, first) /\ SumsHold(o, s)
  BY DEF SumsOf
<1>2. UpdatedSums(o, next, T, values, t, at)
  BY <1>1, UpdateSumsKeeps
<1> HIDE DEF next, at
<1>3. Tracks(o.data, T, t)
  BY <1>1, TracksLater DEF IsIndicator
<1>4. PICK same, bucket :
        /\ RecordedAt(o.data, next.data, same, bucket, t)
        /\ \A sum \in 1 .. 2 : bucket.values[sum] =
             (IF same THEN ValuesOf(o.data, sum)[o.data.length] ELSE 0) + values[sum]
  BY <1>2 DEF UpdatedSums
<1>5. IsSame(o.data, same, t) /\ (same <=> b \in T) /\ same \in BOOLEAN
  <2>1. IsSame(o.data, same, t)
    BY <1>4 DEF RecordedAt
  <2> QED
    BY <1>3, <2>1, SameIsTraded DEF IsSame
<1>6. ASSUME NEW sum \in 1 .. 2
      PROVE  AreOf(next.data, ValuesOf(next.data, sum), g[sum])
  <2> DEFINE r == o.data
             q == next.data
             v == ValuesOf(r, sum)
             u == ValuesOf(q, sum)
             e == f[sum]
             h == g[sum]
  <2>1. AreOf(r, v, e) /\ ChangedAt(e, h, T, b)
        /\ h[b] = (IF b \in T THEN e[b] ELSE 0) + values[sum]
    BY DEF SumsOf, Counted
  <2>2. /\ Recorded(r, q, same, bucket) /\ q.length \in 1 .. q.length
        /\ Kept(r, same) \in Nat /\ q.length = Kept(r, same) + 1
        /\ \A k \in 1 .. Kept(r, same) : k \in 1 .. q.length /\ k + Shift(r, same) \in 1 .. r.length
    <3>1. RecordedAt(r, q, same, bucket, t)
      BY <1>4
    <3> HIDE DEF r, q
    <3>2. /\ q.length = Kept(r, same) + 1 /\ Kept(r, same) \in Nat
          /\ \A k \in 1 .. Kept(r, same) : k + Shift(r, same) \in 1 .. r.length
      BY <1>3, <3>1, RecordedFacts DEF r
    <3> QED
      BY <3>1, <3>2 DEF RecordedAt
  <2>3. Moved(r, u, v, same)
    <3>1. \A k \in 1 .. Kept(r, same) : Items(q)[k] = Items(r)[k + Shift(r, same)]
      BY <2>2 DEF Recorded
    <3> QED
      BY <2>2, <3>1 DEF Moved, ValuesOf
  <2>4. u[q.length] = h[b]
    <3>1. u[q.length] = bucket.values[sum]
      BY <2>2 DEF ValuesOf, Recorded
    <3>2. b \in T => v[r.length] = e[b]
      BY <1>3, <2>1, NewestIsOf
    <3>3. bucket.values[sum] = (IF same THEN v[r.length] ELSE 0) + values[sum]
      BY <1>4
    <3> HIDE DEF u, v, h, e, r, q
    <3> QED
      BY <1>5, <2>1, <3>1, <3>2, <3>3
  <2>5. RecordedAt(r, q, same, bucket, t) /\ Tracks(r, T, t)
    BY <1>3, <1>4
  <2> HIDE DEF u, v, h, e, r, q
  <2>6. AreOf(q, u, h)
    BY ONLY <2>1, <2>3, <2>4, <2>5, t \in Int, RecordedOf DEF b
  <2> QED
    BY <2>6 DEF u, h, q
<1> QED
  BY <1>2, <1>6 DEF SumsOf, UpdatedSums, next, at

(* What a window of an indicator has. *)
WindowSums(o, window, T, t, first, f) ==
  LET R == Reached(T, window.duration, t)
  IN  /\ window.ready <=> IsWarm(o.policy, window.duration, first, t)
      /\ window.value = [sum \in 1 .. 2 |-> SumFunctionOnSet(f[sum], R)]
      /\ IsFiniteSet(R)

LEMMA SumsOfWindow ==
  ASSUME NEW o, NEW T, NEW t \in Int, NEW first, NEW f, SumsOf(o, T, t, first, f),
         \A sum \in 1 .. 2 : \A c \in T : f[sum][c] \in Int,
         NEW w \in DOMAIN o.windows
  PROVE  WindowSums(o, o.windows[w], T, t, first, f)
<1> DEFINE window == o.windows[w]
           r == o.data
           R == Reached(T, window.duration, t)
<1>1. /\ Tracks(r, T, t) /\ IsWindow(window, r.capacity)
      /\ window.ready <=> IsWarm(o.policy, window.duration, first, t)
  BY DEF SumsOf, IsIndicator
<1>2. /\ Parts(r, window.frontOffset, window.duration, t)
      /\ window.value = [sum \in 1 .. 2 |-> window.value[sum]]
      /\ \A sum \in 1 .. 2 :
           window.value[sum] = RangeSum(ValuesOf(r, sum), window.frontOffset, r.length)
  BY DEF SumsOf, SumsHold, SumHolds
<1>3. IsDuration(window.duration, r.capacity) /\ window.duration \in Nat
  BY <1>1 DEF IsWindow, IsDuration
<1>4. ASSUME NEW sum \in 1 .. 2
      PROVE  /\ IsFiniteSet(R)
             /\ RangeSum(ValuesOf(r, sum), window.frontOffset, r.length) = SumFunctionOnSet(f[sum], R)
  <2> DEFINE v == ValuesOf(r, sum)
             e == f[sum]
  <2>1. AreOf(r, v, e) /\ \A c \in T : e[c] \in Int
    BY DEF SumsOf
  <2> HIDE DEF v, e, r, window
  <2> QED
    BY <1>1, <1>2, <1>3, <2>1, RangeIsReached DEF v, e, r, window
<1>5. IsFiniteSet(R)
  <2>1. 1 \in 1 .. 2
    OBVIOUS
  <2> QED
    BY <1>4, <2>1
<1> HIDE DEF window, R
<1> QED
  BY <1>1, <1>2, <1>3, <1>4, <1>5 DEF WindowSums, window, R

(* A field of the buckets of a ring, and what recording does to it. *)
FieldOf(r, field) == [k \in 1 .. r.length |-> Items(r)[k][field]]

LEMMA FieldRecorded ==
  ASSUME NEW r, NEW T, NEW t \in Int, Tracks(r, T, t),
         NEW q, NEW same, NEW bucket, RecordedAt(r, q, same, bucket, t),
         NEW field, NEW e, AreOf(r, FieldOf(r, field), e),
         NEW h, ChangedAt(e, h, T, BucketOf(t)), bucket[field] = h[BucketOf(t)]
  PROVE  AreOf(q, FieldOf(q, field), h)
<1> DEFINE v == FieldOf(r, field)
           u == FieldOf(q, field)
           b == BucketOf(t)
<1>1. /\ Recorded(r, q, same, bucket) /\ q.length \in 1 .. q.length
      /\ Kept(r, same) \in Nat /\ q.length = Kept(r, same) + 1
      /\ \A k \in 1 .. Kept(r, same) : k \in 1 .. q.length /\ k + Shift(r, same) \in 1 .. r.length
  <2>1. /\ q.length = Kept(r, same) + 1 /\ Kept(r, same) \in Nat
        /\ \A k \in 1 .. Kept(r, same) : k + Shift(r, same) \in 1 .. r.length
    BY RecordedFacts
  <2> QED
    BY <2>1 DEF RecordedAt
<1>2. Moved(r, u, v, same)
  <2>1. \A k \in 1 .. Kept(r, same) : Items(q)[k] = Items(r)[k + Shift(r, same)]
    BY <1>1 DEF Recorded
  <2> QED
    BY <1>1, <2>1 DEF Moved, FieldOf
<1>3. u[q.length] = h[b]
  BY <1>1 DEF FieldOf, Recorded
<1>4. AreOf(r, v, e)
  OBVIOUS
<1> HIDE DEF u, v
<1>5. AreOf(q, u, h)
  BY <1>2, <1>3, <1>4, RecordedOf
<1> QED
  BY <1>5 DEF u

(* On-balance volumes: a trade adds to the volume of its bucket, closes it,  *)
(* and gives it the sign that it has against the close before it.            *)
BalanceFields == {"volume", "close", "sign"}

BalancesAre(o, T, t, first, f) ==
  /\ IsIndicator(o, T, t, first) /\ BalancesHold(o, t) /\ o.data.capacity >= 2
  /\ \A field \in BalanceFields : AreOf(o.data, FieldOf(o.data, field), f[field])

Before(closes, T, b) ==
  LET E == {c \in T : c < b} IN IF E = {} THEN <<>> ELSE <<closes[Max(E)]>>

Balanced(f, g, T, b, price, volume) ==
  /\ \A field \in BalanceFields : ChangedAt(f[field], g[field], T, b)
  /\ g["volume"][b] = (IF b \in T THEN f["volume"][b] ELSE 0) + volume
  /\ g["close"][b] = price
  /\ g["sign"][b] = Sign(Before(f["close"], T, b), price)

LEMMA PreviousCloseIsBefore ==
  ASSUME NEW r, NEW T, NEW t \in Int, Tracks(r, T, t), r.capacity >= 2,
         NEW same, IsSame(r, same, t), NEW closes, AreOf(r, FieldOf(r, "close"), closes)
  PROVE  PreviousClose(Items(r), same) = Before(closes, T, BucketOf(t))
<1> DEFINE p == IF same THEN r.length - 1 ELSE r.length
           E == {c \in T : c < BucketOf(t)}
<1>1. /\ p = 0 => E = {}
      /\ p # 0 => /\ p \in 1 .. r.length /\ Index(r, p) \in T /\ Index(r, p) < BucketOf(t)
                  /\ \A c \in T : c < BucketOf(t) => c <= Index(r, p)
  BY PreviousIsNewest
<1>2. Len(Items(r)) = r.length /\ \A c \in T : c \in Int
  BY TracksFacts DEF Tracks
<1>3. PreviousClose(Items(r), same) = IF p = 0 THEN <<>> ELSE <<Items(r)[p].close>>
  BY <1>2 DEF PreviousClose
<1>4. Before(closes, T, BucketOf(t)) = IF E = {} THEN <<>> ELSE <<closes[Max(E)]>>
  BY DEF Before
<1>5. E \subseteq Int /\ \A c : c \in E <=> c \in T /\ c < BucketOf(t)
  BY <1>2
<1> HIDE DEF p, E
<1>6. CASE p = 0
  BY <1>1, <1>3, <1>4, <1>6
<1>7. CASE p # 0
  <2>1. Index(r, p) \in E /\ \A c \in E : c <= Index(r, p)
    BY <1>1, <1>5, <1>7
  <2>2. Max(E) = Index(r, p)
    BY <1>5, <2>1, MaxIs
  <2>3. Items(r)[p].close = closes[Index(r, p)]
    BY <1>1, <1>7 DEF AreOf, FieldOf
  <2> QED
    BY <1>3, <1>4, <1>7, <2>1, <2>2, <2>3
<1> QED
  BY <1>6, <1>7

LEMMA ObserveBalances ==
  ASSUME NEW o, NEW T, NEW s \in Int, NEW t \in Int, s <= t, NEW first \in Int,
         NEW f, BalancesAre(o, T, s, first, f)
  PROVE  LET next == ObserveVolume(o, t)
         IN  /\ BalancesAre(next, T, t, first, f)
             /\ next.policy = o.policy /\ DOMAIN next.windows = DOMAIN o.windows
<1> DEFINE next == ObserveVolume(o, t)
<1>1. IsIndicator(o, T, s, first) /\ BalancesHold(o, s)
  BY DEF BalancesAre
<1>2. /\ IsIndicator(next, T, t, first) /\ BalancesHold(next, t) /\ next.data = o.data
      /\ next.policy = o.policy /\ DOMAIN next.windows = DOMAIN o.windows
  BY <1>1, ObserveVolumeKeeps
<1> HIDE DEF next
<1> QED
  BY <1>2 DEF BalancesAre, next

LEMMA UpdateBalances ==
  ASSUME NEW o, NEW T, NEW s \in Int, NEW t \in Int, s <= t, t # Never, NEW first \in Int,
         NEW f, BalancesAre(o, T, s, first, f), NEW price \in Int, NEW volume \in Int,
         NEW g, Balanced(f, g, T, BucketOf(t), price, volume)
  PROVE  LET next == UpdateVolume(o, price, volume, t)
         IN  /\ BalancesAre(next, T \cup {BucketOf(t)}, t, Begun(first, t), g)
             /\ next.policy = o.policy /\ DOMAIN next.windows = DOMAIN o.windows
<1> DEFINE next == UpdateVolume(o, price, volume, t)
           b == BucketOf(t)
           at == Begun(first, t)
           r == o.data
           q == next.data
<1>1. IsIndicator(o, T, s, first) /\ BalancesHold(o, s) /\ r.capacity >= 2
  BY DEF BalancesAre
<1>2. UpdatedVolume(o, next, T, price, volume, t, at)
  BY <1>1, UpdateVolumeKeeps
<1> HIDE DEF next, at
<1>3. Tracks(r, T, t)
  BY <1>1, TracksLater DEF IsIndicator
<1>4. PICK same, bucket :
        /\ RecordedAt(r, q, same, bucket, t)
        /\ bucket.close = price
        /\ bucket.volume = (IF same THEN Items(r)[r.length].volume ELSE 0) + volume
        /\ bucket.sign = Sign(PreviousClose(Items(r), same), price)
  BY <1>2 DEF UpdatedVolume
<1>5. IsSame(r, same, t) /\ (same <=> b \in T) /\ same \in BOOLEAN
  <2>1. IsSame(r, same, t)
    BY <1>4 DEF RecordedAt
  <2> QED
    BY <1>3, <2>1, SameIsTraded DEF IsSame
<1>6. \A field \in BalanceFields : AreOf(r, FieldOf(r, field), f[field])
  BY DEF BalancesAre
<1>7. bucket.sign = g["sign"][b]
  <2> DEFINE closes == f["close"]
  <2>1. AreOf(r, FieldOf(r, "close"), closes)
    BY <1>6 DEF BalanceFields
  <2> HIDE DEF closes, r
  <2>2. PreviousClose(Items(r), same) = Before(closes, T, b)
    BY <1>1, <1>3, <1>5, <2>1, PreviousCloseIsBefore
  <2> QED
    BY <1>4, <2>2 DEF Balanced, closes
<1>8. bucket.volume = g["volume"][b]
  <2> DEFINE v == FieldOf(r, "volume")
             e == f["volume"]
  <2>1. AreOf(r, v, e)
    BY <1>6 DEF BalanceFields
  <2>2. b \in T => v[r.length] = e[b]
    BY <1>3, <2>1, NewestIsOf
  <2>3. b \in T => Items(r)[r.length].volume = e[b]
    <3>1. b \in T => r.length \in 1 .. r.length
      BY <1>3, <1>5, TracksFacts DEF IsSame
    <3> QED
      BY <2>2, <3>1 DEF FieldOf
  <2>4. g["volume"][b] = (IF b \in T THEN e[b] ELSE 0) + volume
    BY DEF Balanced
  <2> HIDE DEF v, e, r, b
  <2> QED
    BY <1>4, <1>5, <2>3, <2>4
<1>9. bucket.close = g["close"][b]
  BY <1>4 DEF Balanced
<1>10. ASSUME NEW field \in BalanceFields
       PROVE  AreOf(q, FieldOf(q, field), g[field])
  <2> DEFINE e == f[field]
             h == g[field]
  <2>1. AreOf(r, FieldOf(r, field), e) /\ ChangedAt(e, h, T, b) /\ bucket[field] = h[b]
    BY <1>6, <1>7, <1>8, <1>9 DEF Balanced, BalanceFields
  <2>2. RecordedAt(r, q, same, bucket, t)
    BY <1>4
  <2> HIDE DEF e, h, r, q
  <2>3. AreOf(q, FieldOf(q, field), h)
    BY <1>3, <2>1, <2>2, FieldRecorded
  <2> QED
    BY <2>3 DEF h
<1>11. q.capacity >= 2
  <2>1. RecordedAt(r, q, same, bucket, t)
    BY <1>4
  <2> HIDE DEF r, q
  <2>2. q.capacity = r.capacity
    BY <1>3, <2>1, RecordedFacts
  <2> QED
    BY <1>1, <2>2
<1> QED
  BY <1>2, <1>10, <1>11 DEF BalancesAre, UpdatedVolume, next, at, q

LEMMA BalancesWindow ==
  ASSUME NEW o, NEW T, NEW t \in Int, NEW first, NEW f, BalancesAre(o, T, t, first, f),
         NEW h, \A c \in T : h[c] \in Int /\ h[c] = f["volume"][c] * f["sign"][c],
         NEW w \in DOMAIN o.windows
  PROVE  LET window == o.windows[w]
             R == Reached(T, window.duration, t)
         IN  /\ window.ready <=> IsWarm(o.policy, window.duration, first, t)
             /\ window.value = SumFunctionOnSet(h, R)
             /\ IsFiniteSet(R) /\ window.duration \in Nat
<1> DEFINE window == o.windows[w]
           r == o.data
           R == Reached(T, window.duration, t)
           v == BalancesOf(r)
<1>1. /\ Tracks(r, T, t) /\ IsWindow(window, r.capacity)
      /\ window.ready <=> IsWarm(o.policy, window.duration, first, t)
  BY DEF BalancesAre, IsIndicator
<1>2. /\ Parts(r, window.frontOffset, window.duration, t)
      /\ window.value = RangeSum(v, window.frontOffset, r.length)
  BY DEF BalancesAre, BalancesHold, BalanceHolds
<1>3. IsDuration(window.duration, r.capacity) /\ window.duration \in Nat
  BY <1>1 DEF IsWindow, IsDuration
<1>4. AreOf(r, v, h)
  <2>1. SUFFICES ASSUME NEW k \in 1 .. r.length
                 PROVE  v[k] = h[Index(r, k)]
    BY DEF AreOf
  <2>2. \A field \in BalanceFields : Items(r)[k][field] = f[field][Index(r, k)]
    BY DEF BalancesAre, AreOf, FieldOf
  <2>3. /\ Items(r)[k].volume = f["volume"][Index(r, k)]
        /\ Items(r)[k].sign = f["sign"][Index(r, k)]
    BY <2>2 DEF BalanceFields
  <2>4. Index(r, k) \in T
    BY <1>1, TracksFacts
  <2> QED
    BY <2>3, <2>4 DEF BalancesOf, SignedVolume
<1> HIDE DEF window, v, r
<1>5. /\ IsFiniteSet(R)
      /\ RangeSum(v, window.frontOffset, r.length) = SumFunctionOnSet(h, R)
  BY <1>1, <1>2, <1>3, <1>4, RangeIsReached
<1> QED
  BY <1>1, <1>2, <1>3, <1>5 DEF window

(* Averages: a trade makes a new mean of its bucket, of the sum and number *)
(* of values that are kept of the newest bucket alone.                     *)
MeansAre(o, T, t, first, f) ==
  /\ IsIndicator(o, T, t, first) /\ MeansHold(o, t)
  /\ AreOf(o.data, FieldOf(o.data, "mean"), f["mean"])
  /\ o.data.length > 0 => /\ o.lastSum = f["sum"][Index(o.data, o.data.length)]
                          /\ o.lastCount = f["count"][Index(o.data, o.data.length)]

Averaged(f, g, T, b, value) ==
  /\ ChangedAt(f["mean"], g["mean"], T, b)
  /\ g["sum"][b] = (IF b \in T THEN f["sum"][b] ELSE 0) + value
  /\ g["count"][b] = (IF b \in T THEN f["count"][b] ELSE 0) + 1
  /\ g["mean"][b] = Mean(g["sum"][b], g["count"][b])

LEMMA ObserveMeans ==
  ASSUME NEW o, NEW T, NEW s \in Int, NEW t \in Int, s <= t, NEW first \in Int,
         NEW f, MeansAre(o, T, s, first, f)
  PROVE  LET next == ObserveAverage(o, t)
         IN  /\ MeansAre(next, T, t, first, f)
             /\ next.policy = o.policy /\ DOMAIN next.windows = DOMAIN o.windows
<1> DEFINE next == ObserveAverage(o, t)
<1>1. IsIndicator(o, T, s, first) /\ MeansHold(o, s)
  BY DEF MeansAre
<1>2. /\ IsIndicator(next, T, t, first) /\ MeansHold(next, t) /\ next.data = o.data
      /\ next.lastSum = o.lastSum /\ next.lastCount = o.lastCount
      /\ next.policy = o.policy /\ DOMAIN next.windows = DOMAIN o.windows
  BY <1>1, ObserveAverageKeeps
<1> HIDE DEF next
<1> QED
  BY <1>2 DEF MeansAre, next

LEMMA UpdateMeans ==
  ASSUME NEW o, NEW T, NEW s \in Int, NEW t \in Int, s <= t, t # Never, NEW first \in Int,
         NEW f, MeansAre(o, T, s, first, f), NEW value \in Int,
         NEW g, Averaged(f, g, T, BucketOf(t), value)
  PROVE  LET next == UpdateAverage(o, value, t)
         IN  /\ MeansAre(next, T \cup {BucketOf(t)}, t, Begun(first, t), g)
             /\ next.policy = o.policy /\ DOMAIN next.windows = DOMAIN o.windows
<1> DEFINE next == UpdateAverage(o, value, t)
           b == BucketOf(t)
           at == Begun(first, t)
           r == o.data
           q == next.data
<1>1. IsIndicator(o, T, s, first) /\ MeansHold(o, s)
  BY DEF MeansAre
<1>2. UpdatedAverage(o, next, T, value, t, at)
  BY <1>1, UpdateAverageKeeps
<1> HIDE DEF next, at
<1>3. Tracks(r, T, t)
  BY <1>1, TracksLater DEF IsIndicator
<1>4. PICK same, bucket :
        /\ RecordedAt(r, q, same, bucket, t)
        /\ next.lastSum = (IF same THEN o.lastSum ELSE 0) + value
        /\ next.lastCount = (IF same THEN o.lastCount ELSE 0) + 1
        /\ bucket.mean = Mean(next.lastSum, next.lastCount)
  BY <1>2 DEF UpdatedAverage
<1>5. (same <=> b \in T) /\ same \in BOOLEAN
      /\ (same => r.length > 0 /\ Index(r, r.length) = b)
  <2>1. IsSame(r, same, t)
    BY <1>4 DEF RecordedAt
  <2> QED
    BY <1>3, <2>1, SameIsTraded DEF IsSame
<1>6. next.lastSum = g["sum"][b] /\ next.lastCount = g["count"][b]
  <2>1. CASE same
    <3>1. o.lastSum = f["sum"][b] /\ o.lastCount = f["count"][b]
      BY <1>5, <2>1 DEF MeansAre
    <3> QED
      BY <1>4, <1>5, <2>1, <3>1 DEF Averaged
  <2>2. CASE ~ same
    BY <1>4, <1>5, <2>2 DEF Averaged
  <2> QED
    BY <1>5, <2>1, <2>2
<1>7. AreOf(q, FieldOf(q, "mean"), g["mean"])
  <2> DEFINE e == f["mean"]
             h == g["mean"]
             field == "mean"
  <2>1. AreOf(r, FieldOf(r, field), e) /\ ChangedAt(e, h, T, b)
    BY DEF MeansAre, Averaged
  <2>2. bucket[field] = h[b]
    BY <1>4, <1>6 DEF Averaged
  <2>3. RecordedAt(r, q, same, bucket, t)
    BY <1>4
  <2> HIDE DEF e, h, r, q, field
  <2>4. AreOf(q, FieldOf(q, field), h)
    BY <1>3, <2>1, <2>2, <2>3, FieldRecorded
  <2> QED
    BY <2>4 DEF h, field
<1>8. Index(q, q.length) = b
  <2>1. RecordedAt(r, q, same, bucket, t)
    BY <1>4
  <2> HIDE DEF r, q
  <2> QED
    BY <1>3, <2>1, RecordedFacts
<1> QED
  BY <1>2, <1>6, <1>7, <1>8 DEF MeansAre, UpdatedAverage, next, at, q

LEMMA MeansWindow ==
  ASSUME NEW o, NEW T, NEW t \in Int, NEW first, NEW f, MeansAre(o, T, t, first, f),
         \A c \in T : f["mean"][c] \in Int,
         NEW w \in DOMAIN o.windows
  PROVE  LET window == o.windows[w]
             R == Reached(T, window.duration, t)
         IN  /\ window.ready <=> IsWarm(o.policy, window.duration, first, t)
             /\ window.value = SumFunctionOnSet(f["mean"], R)
             /\ window.count = Cardinality(R) /\ window.count \in Nat
             /\ IsFiniteSet(R) /\ window.duration \in Nat
<1> DEFINE window == o.windows[w]
           r == o.data
           R == Reached(T, window.duration, t)
           v == MeansOf(r)
           h == f["mean"]
           offset == r.length - window.count
<1>1. /\ Tracks(r, T, t) /\ IsWindow(window, r.capacity)
      /\ window.ready <=> IsWarm(o.policy, window.duration, first, t)
  BY DEF MeansAre, IsIndicator
<1>2. /\ Parts(r, offset, window.duration, t) /\ window.count \in 0 .. r.length
      /\ window.value = RangeSum(v, offset, r.length) /\ r.length \in Nat
  BY <1>1, TracksFacts DEF MeansAre, MeansHold, MeanHolds
<1>3. IsDuration(window.duration, r.capacity) /\ window.duration \in Nat
  BY <1>1 DEF IsWindow, IsDuration
<1>4. AreOf(r, v, h)
  BY DEF MeansAre, AreOf, MeansOf, FieldOf
<1>5. r.length - offset = window.count
  BY <1>2
<1>6. \A c \in T : h[c] \in Int
  OBVIOUS
<1> HIDE DEF window, v, r, offset, h
<1>7. /\ IsFiniteSet(R) /\ Cardinality(R) = r.length - offset
      /\ RangeSum(v, offset, r.length) = SumFunctionOnSet(h, R)
  BY <1>1, <1>2, <1>3, <1>4, <1>6, RangeIsReached
<1> QED
  BY <1>1, <1>2, <1>3, <1>5, <1>7 DEF window, h

-----------------------------------------------------------------------------
(* Construction.  An indicator that was built has admitted every window.   *)

AddWindowStep(none, o, periods) == AddWindow(o, periods)

WindowFold == INSTANCE FoldLemmas WITH Step <- AddWindowStep

LEMMA BuildIsFold ==
  ASSUME NEW zero, NEW periods, NEW policy
  PROVE  BuildTimed(zero, periods, policy)
           = WindowFold!LeftFold({}, NewIndicator(CapacityFor(periods), policy, zero), periods)
BY DEF BuildTimed, AddWindowStep, FoldLeft, MapThenFoldSet, Max,
       WindowFold!LeftFold, WindowFold!FoldLeft, WindowFold!MapThenFoldSet, WindowFold!Max

AllWindows(zero) == {NewWindow(d, zero) : d \in Nat}

(* The first windows of an indicator, which are fit for it. *)
HasWindows(o, base, zero, n) ==
  /\ o = WithWindows(base, o.windows)
  /\ o.windows \in Seq(AllWindows(zero)) /\ Len(o.windows) = n
  /\ \A w \in 1 .. n : IsWindow(o.windows[w], base.data.capacity)
  /\ n > 0 => base.data.capacity >= 2

LEMMA NewIndicatorFacts ==
  ASSUME NEW capacity, NEW policy, NEW zero
  PROVE  LET o == NewIndicator(capacity, policy, zero)
         IN  /\ o = [field \in IndicatorFields |-> o[field]]
             /\ o.data = NewRing(capacity) /\ o.policy = policy /\ o.windows = <<>>
             /\ o.zero = zero /\ o.first = Never /\ o.last = Never /\ o.baseline = <<>>
BY DEF NewIndicator, IndicatorFields

IsNewWindow(window, d, zero) ==
  /\ window = [field \in WindowFields |-> window[field]]
  /\ window.duration = d /\ window.ready = FALSE /\ window.value = zero
  /\ window.frontOffset = 0 /\ window.count = 0

LEMMA NewWindowFacts ==
  ASSUME NEW d, NEW zero
  PROVE  IsNewWindow(NewWindow(d, zero), d, zero)
BY DEF NewWindow, WindowFields, IsNewWindow

LEMMA AddWindowFacts ==
  ASSUME NEW base, base = [field \in IndicatorFields |-> base[field]], NEW c \in Nat \ {0},
         base.data = NewRing(c), NEW zero, base.zero = zero,
         NEW n \in Nat, NEW o, HasWindows(o, base, zero, n),
         NEW periods \in Nat, AddWindow(o, periods) # Rejected
  PROVE  HasWindows(AddWindow(o, periods), base, zero, n + 1)
<1> DEFINE d == periods * Aggregation
           x == NewWindow(d, zero)
           ws == Append(o.windows, x)
           next == AddWindow(o, periods)
<1>1. o = WithWindows(base, o.windows) /\ o.data = base.data /\ o.zero = zero
  <2> DEFINE old == o.windows
  <2>1. o = [base EXCEPT !.windows = old]
    BY DEF HasWindows, WithWindows
  <2> HIDE DEF old
  <2>2. o.data = base.data /\ o.zero = base.zero
    BY <2>1 DEF IndicatorFields
  <2> QED
    BY <2>2 DEF HasWindows
<1>2. Admits(o, periods) /\ next = [o EXCEPT !.windows = Append(@, NewWindow(d, o.zero))]
  BY DEF AddWindow
<1>3. next = WithWindows(base, ws) /\ next.windows = ws
  <2> DEFINE old == o.windows
  <2>1. o = [base EXCEPT !.windows = old] /\ next = [o EXCEPT !.windows = ws]
    BY <1>1, <1>2 DEF WithWindows
  <2> HIDE DEF old, ws
  <2>2. "windows" \in IndicatorFields
    BY DEF IndicatorFields
  <2> QED
    BY <2>1, <2>2 DEF WithWindows
<1>4. 0 < periods /\ periods < c /\ d <= MaxInt /\ d \in Nat
  <2>1. base.data.capacity = c
    BY NewRingIsEmpty
  <2>2. Aggregation \in Nat
    BY IndicatorParameters
  <2> QED
    BY <1>1, <1>2, <2>1, <2>2 DEF Admits
<1>5. base.data.capacity = c /\ c >= 2
  BY <1>4, NewRingIsEmpty
<1>6. IsWindow(x, c)
  <2>1. IsDuration(d, c)
    BY <1>4 DEF IsDuration
  <2> HIDE DEF d, x
  <2>2. /\ x = [field \in WindowFields |-> x[field]] /\ x.duration = d /\ x.ready = FALSE
    <3>1. IsNewWindow(x, d, zero)
      BY NewWindowFacts DEF x
    <3> QED
      BY <3>1 DEF IsNewWindow
  <2> QED
    BY <1>4, <2>1, <2>2 DEF IsWindow
<1>7. x \in AllWindows(zero)
  BY <1>4 DEF AllWindows
<1> HIDE DEF x, d
<1>8. /\ ws \in Seq(AllWindows(zero)) /\ Len(ws) = n + 1 /\ ws[n + 1] = x
      /\ \A w \in 1 .. n : ws[w] = o.windows[w]
  BY <1>7, AppendProperties DEF HasWindows
<1>9. \A w \in 1 .. n + 1 : IsWindow(ws[w], base.data.capacity)
  <2>1. \A w \in 1 .. n + 1 : w \in 1 .. n \/ w = n + 1
    OBVIOUS
  <2> QED
    BY <1>5, <1>6, <1>8, <2>1 DEF HasWindows
<1> QED
  BY <1>3, <1>5, <1>8, <1>9 DEF HasWindows

LEMMA CapacityType ==
  ASSUME NEW periods \in Seq(Nat), periods # <<>>
  PROVE  CapacityFor(periods) \in Nat \ {0}
<1> DEFINE n == Len(periods)
           S == ToSet(periods)
<1>1. n \in Nat /\ n # 0 /\ DOMAIN periods = 1 .. n /\ \A i \in 1 .. n : periods[i] \in Nat
  BY EmptySeq
<1>2. S = {periods[i] : i \in 1 .. n} /\ S \subseteq Nat /\ S \subseteq Int
  BY <1>1 DEF ToSet
<1>3. S # {}
  <2>1. 1 \in 1 .. n
    BY <1>1
  <2> QED
    BY <1>2, <2>1
<1>4. IsFiniteSet(S)
  <2>1. IsFiniteSet(1 .. n)
    BY <1>1, FS_Interval
  <2> DEFINE f == [i \in 1 .. n |-> periods[i]]
  <2>2. f \in [1 .. n -> S] /\ \A x \in S : \E i \in 1 .. n : f[i] = x
    BY <1>1, <1>2
  <2> HIDE DEF f, S
  <2>3. f \in Surjection(1 .. n, S)
    BY <2>2 DEF Surjection
  <2> QED
    BY <2>1, <2>3, FS_Surjection
<1> HIDE DEF S
<1>5. Max(S) \in S
  BY <1>2, <1>3, <1>4, MaxOfFinite
<1> QED
  BY <1>2, <1>5 DEF CapacityFor, S

(* What was built, before any value and any time. *)
IsBuilt(o, zero, policy) ==
  /\ IsIndicator(o, {}, Never, Never) /\ o.policy = policy /\ o.data.length = 0
  /\ o.data.capacity >= 2
  /\ \A w \in DOMAIN o.windows :
       o.windows[w].value = zero /\ o.windows[w].frontOffset = 0 /\ o.windows[w].count = 0

LEMMA BuiltFacts ==
  ASSUME NEW zero, NEW periods \in Seq(Nat), periods # <<>>, NEW policy,
         BuildTimed(zero, periods, policy) # Rejected
  PROVE  IsBuilt(BuildTimed(zero, periods, policy), zero, policy)
<1> DEFINE c == CapacityFor(periods)
           base == NewIndicator(c, policy, zero)
           o == BuildTimed(zero, periods, policy)
           n == Len(periods)
<1>1. n \in Nat \ {0} /\ DOMAIN periods = 1 .. n /\ \A i \in 1 .. n : periods[i] \in Nat
  BY EmptySeq
<1>2. c \in Nat \ {0}
  BY CapacityType
<1>3. /\ base = [field \in IndicatorFields |-> base[field]] /\ base.data = NewRing(c)
      /\ base.zero = zero /\ base.policy = policy /\ base.windows = <<>>
      /\ base.first = Never /\ base.last = Never
  <2> HIDE DEF c
  <2> QED
    BY NewIndicatorFacts
<1>4. PICK run : WindowFold!LeftRun({}, base, periods, n, run)
  <2> HIDE DEF base
  <2> QED
    BY <1>1, WindowFold!LeftFoldRuns
<1>5. /\ run[0] = base /\ o = run[n]
      /\ \A k \in 1 .. n : run[k] = AddWindow(run[k - 1], periods[k])
  BY <1>4, BuildIsFold DEF WindowFold!LeftRun, AddWindowStep
<1> HIDE DEF base, c, o
<1> DEFINE Good == {k \in 0 .. n : run[k] # Rejected => HasWindows(run[k], base, zero, k)}
<1>6. 0 \in Good
  <2> DEFINE e == base.windows
  <2>1. base = [base EXCEPT !.windows = e]
    BY <1>3 DEF IndicatorFields
  <2>2. base.windows \in Seq(AllWindows(zero)) /\ Len(base.windows) = 0
    BY <1>3, EmptySeq
  <2> QED
    BY <1>1, <1>5, <2>1, <2>2 DEF HasWindows, WithWindows
<1>7. ASSUME NEW k \in 1 .. n, k - 1 \in Good
      PROVE  k \in Good
  <2> DEFINE before == run[k - 1]
             p == periods[k]
             m == k - 1
  <2>1. SUFFICES ASSUME run[k] # Rejected
                 PROVE  HasWindows(run[k], base, zero, k)
    BY <1>1
  <2>2. run[k] = AddWindow(before, p) /\ p \in Nat /\ m \in Nat /\ m + 1 = k
    BY <1>1, <1>5
  <2>3. before # Rejected
    BY <2>1, <2>2 DEF AddWindow
  <2>4. HasWindows(before, base, zero, m)
    BY <1>7, <2>3
  <2> HIDE DEF before, p, m
  <2>5. HasWindows(AddWindow(before, p), base, zero, m + 1)
    BY <1>2, <1>3, <2>1, <2>2, <2>4, AddWindowFacts
  <2> QED
    BY <2>2, <2>5
<1>8. HasWindows(o, base, zero, n)
  <2>1. \A k \in 0 .. n : k \in Good
    <3> HIDE DEF Good
    <3> QED
      BY <1>1, <1>6, <1>7, UpwardInduction
  <2>2. run[n] # Rejected /\ n \in 0 .. n
    BY <1>1, <1>5 DEF o
  <2> QED
    BY <1>5, <2>1, <2>2
<1>9. /\ o = [field \in IndicatorFields |-> o[field]]
      /\ \A field \in IndicatorFields \ {"windows"} : o[field] = base[field]
  <2> DEFINE ws == o.windows
  <2>1. o = [base EXCEPT !.windows = ws]
    BY <1>8 DEF HasWindows, WithWindows
  <2> HIDE DEF ws
  <2> QED
    BY <1>3, <2>1 DEF IndicatorFields
<1>10. o.data = NewRing(c) /\ o.policy = policy /\ o.first = Never /\ o.last = Never
  <2>1. o["data"] = base["data"] /\ o["policy"] = base["policy"] /\ o["first"] = base["first"]
        /\ o["last"] = base["last"]
    BY <1>9 DEF IndicatorFields
  <2> QED
    BY <1>3, <2>1
<1>11. IsRing(o.data) /\ o.data.length = 0 /\ o.data.capacity = c /\ c >= 2
  <2>1. base.data.capacity = c
    BY <1>2, <1>3, NewRingIsEmpty
  <2> QED
    BY <1>1, <1>2, <1>8, <1>10, <2>1, NewRingIsEmpty DEF HasWindows
<1>12. Tracks(o.data, {}, Never)
  BY <1>11 DEF Tracks
<1>13. DOMAIN o.windows = 1 .. n /\ o.windows = [w \in DOMAIN o.windows |-> o.windows[w]]
  BY <1>8, LenProperties DEF HasWindows
<1>14. ASSUME NEW w \in 1 .. n
       PROVE  /\ IsWindow(o.windows[w], o.data.capacity) /\ o.windows[w].ready = FALSE
              /\ o.windows[w].value = zero /\ o.windows[w].frontOffset = 0
              /\ o.windows[w].count = 0
  <2>1. o.windows[w] \in AllWindows(zero)
    BY <1>8, ElementOfSeq DEF HasWindows
  <2>2. PICK d \in Nat : o.windows[w] = NewWindow(d, zero)
    BY <2>1 DEF AllWindows
  <2>3. IsNewWindow(o.windows[w], d, zero)
    BY <2>2, NewWindowFacts
  <2>4. IsWindow(o.windows[w], c)
    BY <1>2, <1>3, <1>8, NewRingIsEmpty DEF HasWindows
  <2> QED
    BY <1>11, <2>3, <2>4 DEF IsNewWindow
<1>15. IsIndicator(o, {}, Never, Never)
  BY <1>9, <1>10, <1>12, <1>13, <1>14 DEF IsIndicator, IsShaped, IsWarm
<1> QED
  BY <1>10, <1>11, <1>13, <1>14, <1>15 DEF IsBuilt, o

(* Nothing is of anything in what was built. *)
LEMMA BuiltIsEmpty ==
  ASSUME NEW o, NEW zero, NEW policy, IsBuilt(o, zero, policy), NEW f
  PROVE  /\ zero = <<0, 0>> => SumsOf(o, {}, Never, Never, f)
         /\ zero = 0 => BalancesAre(o, {}, Never, Never, f) /\ MeansAre(o, {}, Never, Never, f)
<1> DEFINE r == o.data
<1>1. /\ IsIndicator(o, {}, Never, Never) /\ r.length = 0 /\ r.capacity >= 2
      /\ \A w \in DOMAIN o.windows :
           o.windows[w].value = zero /\ o.windows[w].frontOffset = 0 /\ o.windows[w].count = 0
  BY DEF IsBuilt
<1>2. \A v, g : AreOf(r, v, g)
  BY <1>1 DEF AreOf
<1>3. \A d : Parts(r, 0, d, Never) /\ Parts(r, 0 - 0, d, Never)
  BY <1>1 DEF Parts
<1>4. \A v : RangeSum(v, 0, 0) = 0
  BY RangeEmpty
<1>5. ASSUME zero = <<0, 0>>
      PROVE  SumsOf(o, {}, Never, Never, f)
  <2>1. zero = [sum \in 1 .. 2 |-> zero[sum]] /\ \A sum \in 1 .. 2 : zero[sum] = 0
    BY <1>5
  <2>2. \A w \in DOMAIN o.windows : SumHolds(r, o.windows[w], Never)
    BY <1>1, <1>3, <1>4, <2>1 DEF SumHolds
  <2> QED
    BY <1>1, <1>2, <2>2 DEF SumsOf, SumsHold
<1>6. ASSUME zero = 0
      PROVE  BalancesAre(o, {}, Never, Never, f)
  <2>1. \A w \in DOMAIN o.windows : BalanceHolds(r, o.windows[w], Never)
    BY <1>1, <1>3, <1>4, <1>6 DEF BalanceHolds
  <2> QED
    BY <1>1, <1>2, <2>1 DEF BalancesAre, BalancesHold
<1>7. ASSUME zero = 0
      PROVE  MeansAre(o, {}, Never, Never, f)
  <2>1. \A w \in DOMAIN o.windows : MeanHolds(r, o.windows[w], Never)
    BY <1>1, <1>3, <1>4, <1>7 DEF MeanHolds
  <2> QED
    BY <1>1, <1>2, <2>1 DEF MeansAre, MeansHold
<1> QED
  BY <1>5, <1>6, <1>7

-----------------------------------------------------------------------------
(* What the features are of: what was traded in each bucket. *)

CountSums == [sum \in 1 .. 2 |-> [b \in Traded |-> IF sum = 1 THEN Count(b) ELSE 0]]

VolumeSums == [sum \in 1 .. 2 |-> [b \in Traded |-> IF sum = 1 THEN Volume(b) ELSE 0]]

PriceSums == [sum \in 1 .. 2 |-> [b \in Traded |-> IF sum = 1 THEN Notional(b) ELSE Volume(b)]]

Balances ==
  [field \in BalanceFields |->
     [b \in Traded |-> IF field = "volume" THEN Volume(b)
                       ELSE IF field = "close" THEN Close(b) ELSE Direction(b)]]

Averages ==
  [field \in {"mean", "sum", "count"} |->
     [b \in Traded |-> IF field = "mean" THEN BucketMean(b)
                       ELSE IF field = "sum" THEN Prices(b) ELSE Count(b)]]

LEMMA NothingTraded ==
  ASSUME NEW b, b \notin Traded
  PROVE  Volume(b) = 0 /\ Notional(b) = 0 /\ Prices(b) = 0 /\ Count(b) = 0
<1>1. In(b) = {}
  BY DEF Traded, In
<1>2. Volume(b) = 0 /\ Notional(b) = 0 /\ Prices(b) = 0
  BY <1>1, SumEmpty DEF Volume, Notional, Prices, SumIn
<1>3. Count(b) = 0
  BY <1>1, FS_EmptySet DEF Count
<1> QED
  BY <1>2, <1>3

LEMMA CountSumsGrow ==
  ASSUME LogType, NEW e, Logged(e)
  PROVE  Counted(CountSums, CountSums', Traded, BucketOf(e.at), <<1, 0>>)
<1> DEFINE b == BucketOf(e.at)
           pair == <<1, 0>>
<1>1. Traded' = Traded \cup {b}
  BY LogGrows
<1>2. /\ \A c : Count(c) \in Nat /\ (c # b => Count(c)' = Count(c))
      /\ Count(b)' = Count(b) + 1 /\ (b \notin Traded => Count(b) = 0)
  BY CountGrows
<1>3. pair[1] = 1 /\ pair[2] = 0
  OBVIOUS
<1> HIDE DEF b, pair
<1>4. ASSUME NEW sum \in 1 .. 2
      PROVE  /\ ChangedAt(CountSums[sum], CountSums'[sum], Traded, b)
             /\ CountSums'[sum][b] = (IF b \in Traded THEN CountSums[sum][b] ELSE 0) + pair[sum]
  <2>1. \A c \in Traded : CountSums[sum][c] = IF sum = 1 THEN Count(c) ELSE 0
    BY DEF CountSums
  <2>2. \A c \in Traded' : CountSums'[sum][c] = IF sum = 1 THEN Count(c)' ELSE 0
    BY DEF CountSums
  <2>3. CountSums'[sum][b] = IF sum = 1 THEN Count(b)' ELSE 0
    BY <1>1, <2>2
  <2>4. ASSUME NEW c \in Traded, c # b
        PROVE  CountSums'[sum][c] = CountSums[sum][c]
    BY <1>1, <1>2, <2>1, <2>2, <2>4
  <2>5. sum = 1 \/ sum = 2
    OBVIOUS
  <2>6. CountSums'[sum][b] = (IF b \in Traded THEN CountSums[sum][b] ELSE 0) + pair[sum]
    BY <1>2, <1>3, <2>1, <2>3, <2>5
  <2> QED
    BY <2>4, <2>6 DEF ChangedAt
<1> QED
  BY <1>4 DEF Counted, b, pair

LEMMA VolumeSumsGrow ==
  ASSUME LogType, NEW e, Logged(e)
  PROVE  Counted(VolumeSums, VolumeSums', Traded, BucketOf(e.at), <<e.volume, 0>>)
<1> DEFINE b == BucketOf(e.at)
           pair == <<e.volume, 0>>
<1>1. Traded' = Traded \cup {b}
  BY LogGrows
<1>2. /\ \A c : Volume(c) \in Int /\ (c # b => Volume(c)' = Volume(c))
      /\ Volume(b)' = Volume(b) + pair[1] /\ (b \notin Traded => Volume(b) = 0)
  BY VolumeGrows, NothingTraded
<1>3. pair[1] \in Int /\ pair[2] = 0
  BY DEF Logged, Entries
<1> HIDE DEF b, pair
<1>4. ASSUME NEW sum \in 1 .. 2
      PROVE  /\ ChangedAt(VolumeSums[sum], VolumeSums'[sum], Traded, b)
             /\ VolumeSums'[sum][b]
                  = (IF b \in Traded THEN VolumeSums[sum][b] ELSE 0) + pair[sum]
  <2>1. \A c \in Traded : VolumeSums[sum][c] = IF sum = 1 THEN Volume(c) ELSE 0
    BY DEF VolumeSums
  <2>2. \A c \in Traded' : VolumeSums'[sum][c] = IF sum = 1 THEN Volume(c)' ELSE 0
    BY DEF VolumeSums
  <2>3. VolumeSums'[sum][b] = IF sum = 1 THEN Volume(b)' ELSE 0
    BY <1>1, <2>2
  <2>4. ASSUME NEW c \in Traded, c # b
        PROVE  VolumeSums'[sum][c] = VolumeSums[sum][c]
    BY <1>1, <1>2, <2>1, <2>2, <2>4
  <2>5. sum = 1 \/ sum = 2
    OBVIOUS
  <2>6. VolumeSums'[sum][b] = (IF b \in Traded THEN VolumeSums[sum][b] ELSE 0) + pair[sum]
    BY <1>2, <1>3, <2>1, <2>3, <2>5
  <2> QED
    BY <2>4, <2>6 DEF ChangedAt
<1> QED
  BY <1>4 DEF Counted, b, pair

LEMMA PriceSumsGrow ==
  ASSUME LogType, NEW e, Logged(e)
  PROVE  Counted(PriceSums, PriceSums', Traded, BucketOf(e.at), <<e.price * e.volume, e.volume>>)
<1> DEFINE b == BucketOf(e.at)
           worth == e.price * e.volume
           pair == <<worth, e.volume>>
<1>1. Traded' = Traded \cup {b}
  BY LogGrows
<1>2. worth \in Int /\ e.volume \in Int
  BY DEF Logged, Entries
<1>3. /\ \A c : Notional(c) \in Int /\ (c # b => Notional(c)' = Notional(c))
      /\ Notional(b)' = Notional(b) + worth /\ (b \notin Traded => Notional(b) = 0)
  BY NotionalGrows, NothingTraded
<1>4. /\ \A c : Volume(c) \in Int /\ (c # b => Volume(c)' = Volume(c))
      /\ Volume(b)' = Volume(b) + e.volume /\ (b \notin Traded => Volume(b) = 0)
  BY VolumeGrows, NothingTraded
<1> HIDE DEF worth
<1>5. pair[1] = worth /\ pair[2] = e.volume
  OBVIOUS
<1> HIDE DEF b, pair
<1>6. ASSUME NEW sum \in 1 .. 2
      PROVE  /\ ChangedAt(PriceSums[sum], PriceSums'[sum], Traded, b)
             /\ PriceSums'[sum][b]
                  = (IF b \in Traded THEN PriceSums[sum][b] ELSE 0) + pair[sum]
  <2>1. \A c \in Traded : PriceSums[sum][c] = IF sum = 1 THEN Notional(c) ELSE Volume(c)
    BY DEF PriceSums
  <2>2. \A c \in Traded' : PriceSums'[sum][c] = IF sum = 1 THEN Notional(c)' ELSE Volume(c)'
    BY DEF PriceSums
  <2>3. PriceSums'[sum][b] = IF sum = 1 THEN Notional(b)' ELSE Volume(b)'
    BY <1>1, <2>2
  <2>4. ASSUME NEW c \in Traded, c # b
        PROVE  PriceSums'[sum][c] = PriceSums[sum][c]
    BY <1>1, <1>3, <1>4, <2>1, <2>2, <2>4
  <2>5. sum = 1 \/ sum = 2
    OBVIOUS
  <2>6. PriceSums'[sum][b] = (IF b \in Traded THEN PriceSums[sum][b] ELSE 0) + pair[sum]
    BY <1>2, <1>3, <1>4, <1>5, <2>1, <2>3, <2>5
  <2> QED
    BY <2>4, <2>6 DEF ChangedAt
<1> QED
  BY <1>6 DEF Counted, b, pair, worth

LEMMA BalancesGrow ==
  ASSUME LogType, NEW e, Logged(e), \A c \in Traded : c <= BucketOf(e.at)
  PROVE  Balanced(Balances, Balances', Traded, BucketOf(e.at), e.price, e.volume)
<1> DEFINE b == BucketOf(e.at)
           Held(field, c) == IF field = "volume" THEN Volume(c)
                             ELSE IF field = "close" THEN Close(c) ELSE Direction(c)
<1>1. Traded' = Traded \cup {b}
  BY LogGrows
<1>2. /\ \A c : Volume(c) \in Int /\ (c # b => Volume(c)' = Volume(c))
      /\ Volume(b)' = Volume(b) + e.volume /\ (b \notin Traded => Volume(b) = 0)
  BY VolumeGrows, NothingTraded
<1>3. /\ \A c \in Traded : c # b => Close(c)' = Close(c)
      /\ Close(b)' = e.price
  BY CloseGrows
<1>4. /\ \A c \in Traded : c # b => Direction(c)' = Direction(c)
      /\ Direction(b)' = Sign(CloseBefore(b), e.price)
  BY DirectionGrows
<1>5. \A field \in BalanceFields : \A c \in Traded :
        Balances[field][c] = Held(field, c)
  BY DEF Balances
<1>6. \A field \in BalanceFields : \A c \in Traded' :
        Balances'[field][c] = IF field = "volume" THEN Volume(c)'
                              ELSE IF field = "close" THEN Close(c)' ELSE Direction(c)'
  BY DEF Balances
<1>7. ASSUME NEW field \in BalanceFields
      PROVE  ChangedAt(Balances[field], Balances'[field], Traded, b)
  <2>1. ASSUME NEW c \in Traded, c # b
        PROVE  Balances'[field][c] = Balances[field][c]
    BY <1>1, <1>2, <1>3, <1>4, <1>5, <1>6, <2>1
  <2> QED
    BY <2>1 DEF ChangedAt
<1>8. {"volume", "close", "sign"} \subseteq BalanceFields
  BY DEF BalanceFields
<1>9. Balances'["volume"][b] = (IF b \in Traded THEN Balances["volume"][b] ELSE 0) + e.volume
  <2>1. Balances'["volume"][b] = Volume(b)'
    BY <1>1, <1>6, <1>8
  <2>2. b \in Traded => Balances["volume"][b] = Volume(b)
    BY <1>5, <1>8
  <2> QED
    BY <1>2, <2>1, <2>2
<1>10. Balances'["close"][b] = e.price
  BY <1>1, <1>3, <1>6, <1>8
<1>11. Balances'["sign"][b] = Sign(Before(Balances["close"], Traded, b), e.price)
  <2>1. Balances'["sign"][b] = Direction(b)'
    BY <1>1, <1>6, <1>8
  <2>2. Before(Balances["close"], Traded, b) = CloseBefore(b)
    <3>1. CASE Earlier(b) = {}
      BY <3>1 DEF Before, CloseBefore, Earlier
    <3>2. CASE Earlier(b) # {}
      <4>1. Max(Earlier(b)) \in Traded
        BY <3>2, EarlierFacts
      <4>2. Balances["close"][Max(Earlier(b))] = Close(Max(Earlier(b)))
        BY <1>5, <1>8, <4>1
      <4> QED
        BY <3>2, <4>2 DEF Before, CloseBefore, Earlier
    <3> QED
      BY <3>1, <3>2
  <2> QED
    BY <1>4, <2>1, <2>2
<1> QED
  BY <1>7, <1>9, <1>10, <1>11 DEF Balanced

LEMMA AveragesGrow ==
  ASSUME LogType, NEW e, Logged(e)
  PROVE  Averaged(Averages, Averages', Traded, BucketOf(e.at), e.price)
<1> DEFINE b == BucketOf(e.at)
           fields == {"mean", "sum", "count"}
<1>1. Traded' = Traded \cup {b}
  BY LogGrows
<1>2. /\ \A c : Prices(c) \in Int /\ (c # b => Prices(c)' = Prices(c))
      /\ Prices(b)' = Prices(b) + e.price /\ (b \notin Traded => Prices(b) = 0)
  BY PricesGrow, NothingTraded
<1>3. /\ \A c : Count(c) \in Nat /\ (c # b => Count(c)' = Count(c))
      /\ Count(b)' = Count(b) + 1 /\ (b \notin Traded => Count(b) = 0)
  BY CountGrows
<1>4. /\ \A c : BucketMean(c) = Mean(Prices(c), Count(c))
      /\ \A c : BucketMean(c)' = Mean(Prices(c)', Count(c)')
  BY DEF BucketMean, Prices, Mean
<1>5. \A field \in fields : \A c \in Traded :
        Averages[field][c] = IF field = "mean" THEN BucketMean(c)
                             ELSE IF field = "sum" THEN Prices(c) ELSE Count(c)
  BY DEF Averages
<1>6. \A field \in fields : \A c \in Traded' :
        Averages'[field][c] = IF field = "mean" THEN BucketMean(c)'
                              ELSE IF field = "sum" THEN Prices(c)' ELSE Count(c)'
  BY DEF Averages
<1>7. ChangedAt(Averages["mean"], Averages'["mean"], Traded, b)
  <2>1. ASSUME NEW c \in Traded, c # b
        PROVE  Averages'["mean"][c] = Averages["mean"][c]
    <3>1. BucketMean(c)' = BucketMean(c)
      BY <1>2, <1>3, <1>4, <2>1
    <3> QED
      BY <1>1, <1>5, <1>6, <3>1
  <2> QED
    BY <2>1 DEF ChangedAt
<1>8. /\ Averages'["mean"][b] = BucketMean(b)' /\ Averages'["sum"][b] = Prices(b)'
      /\ Averages'["count"][b] = Count(b)'
  BY <1>1, <1>6
<1>9. b \in Traded => Averages["sum"][b] = Prices(b) /\ Averages["count"][b] = Count(b)
  BY <1>5
<1>10. Averages'["sum"][b] = (IF b \in Traded THEN Averages["sum"][b] ELSE 0) + e.price
  BY <1>2, <1>8, <1>9
<1>11. Averages'["count"][b] = (IF b \in Traded THEN Averages["count"][b] ELSE 0) + 1
  BY <1>3, <1>8, <1>9
<1>12. Averages'["mean"][b] = Mean(Averages'["sum"][b], Averages'["count"][b])
  BY <1>4, <1>8
<1> QED
  BY <1>7, <1>10, <1>11, <1>12 DEF Averaged

(* When warmup began. *)
First == IF log = <<>> THEN Never ELSE log[1].at

LEMMA FirstBegins ==
  ASSUME LogType, log # <<>> => First # Never, NEW e, Logged(e), e.at # Never
  PROVE  First' = Begun(First, e.at) /\ log' # <<>> /\ First' # Never
<1>1. Len(log) \in Nat /\ Len(log)' = Len(log) + 1 /\ log'[Len(log) + 1] = e
      /\ \A i \in 1 .. Len(log) : log'[i] = log[i]
  BY InFacts, LogGrows
<1>2. log' # <<>> /\ (log # <<>> => Len(log) \in Nat \ {0})
  BY <1>1, EmptySeq DEF LogType, Logged
<1>3. CASE log = <<>>
  <2>1. Len(log) = 0
    BY <1>3
  <2> QED
    BY <1>1, <1>2, <1>3, <2>1 DEF First, Begun
<1>4. CASE log # <<>>
  <2>1. 1 \in 1 .. Len(log)
    BY <1>2, <1>4
  <2>2. log'[1] = log[1]
    BY <1>1, <2>1
  <2>3. First' = First
    BY <1>2, <1>4, <2>2 DEF First
  <2> QED
    BY <1>2, <1>4, <2>3 DEF Begun
<1> QED
  BY <1>3, <1>4

-----------------------------------------------------------------------------
(* The invariant of the features. *)

SummedKinds == SumKinds \cup {"obv", "sma"}

Timely ==
  /\ now \in Int /\ LogType /\ First \in Int
  /\ log # <<>> => First # Never

SumsAre(kind, sums) == SumsOf(indicators[kind], Traded, now, First, sums)

IndicatorsAre ==
  /\ SumsAre("count", CountSums)
  /\ SumsAre("volume", VolumeSums)
  /\ SumsAre("vwap", PriceSums)
  /\ BalancesAre(indicators["obv"], Traded, now, First, Balances)
  /\ MeansAre(indicators["sma"], Traded, now, First, Averages)

CellsAreWritten == \A k \in SummedKinds : cells[k] = Written(k, indicators[k])

DerivationInvariant == Timely /\ IndicatorsAre /\ CellsAreWritten

LEMMA KindsAre ==
  /\ SummedKinds = {"count", "volume", "vwap", "obv", "sma"} /\ SummedKinds \subseteq Kinds
  /\ SummedKinds \subseteq TimedKinds /\ "vpt" \notin SummedKinds /\ "cvd" \notin SummedKinds
BY DEF SummedKinds, Kinds, TimedKinds, SumKinds, SampleKinds

LEMMA BuiltKinds ==
  ASSUME NEW periods \in PeriodLists, NEW policy,
         \A k \in Kinds : Build(k, periods, policy) # Rejected
  PROVE  /\ \A k \in SumKinds : IsBuilt(Build(k, periods, policy), <<0, 0>>, policy)
         /\ \A k \in {"obv", "sma"} : IsBuilt(Build(k, periods, policy), 0, policy)
<1>1. periods \in Seq(Nat) /\ periods # <<>>
  BY DerivationParameters
<1>2. \A k \in SummedKinds : Build(k, periods, policy) # Rejected
  BY KindsAre
<1>3. /\ Build("volume", periods, policy) = BuildTimed(<<0, 0>>, periods, policy)
      /\ Build("vwap", periods, policy) = BuildTimed(<<0, 0>>, periods, policy)
      /\ Build("obv", periods, policy) = BuildTimed(0, periods, policy)
      /\ Build("sma", periods, policy) = BuildTimed(0, periods, policy)
  BY DEF Build, BuildTradeVolume, BuildVwap, BuildObv, BuildSma, NewSums, NewVolume, NewAverage
<1>4. IsBuilt(Build("count", periods, policy), <<0, 0>>, policy)
  <2> DEFINE duration == periods[1] * Aggregation
             lengths == <<duration \div Aggregation>>
  <2>1. Build("count", periods, policy) = IF ValidDurations(duration)
                                            THEN BuildTimed(<<0, 0>>, lengths, policy)
                                            ELSE Rejected
    BY DEF Build, BuildCount, NewSums
  <2>2. Build("count", periods, policy) # Rejected
    BY <1>2, KindsAre
  <2>3. lengths \in Seq(Nat) /\ lengths # <<>>
    <3>1. periods[1] \in Nat
      <4>1. Len(periods) \in Nat /\ Len(periods) # 0
        BY <1>1, EmptySeq
      <4>2. 1 \in 1 .. Len(periods)
        BY <4>1
      <4> QED
        BY <1>1, <4>2, ElementOfSeq
    <3>2. duration \in Nat /\ Aggregation \in Nat \ {0}
      BY <3>1, IndicatorParameters
    <3> HIDE DEF duration
    <3>3. duration \div Aggregation \in Nat
      BY <3>2
    <3> QED
      BY <3>3
  <2> HIDE DEF lengths, duration
  <2>4. BuildTimed(<<0, 0>>, lengths, policy) # Rejected
        /\ Build("count", periods, policy) = BuildTimed(<<0, 0>>, lengths, policy)
    BY <2>1, <2>2
  <2> QED
    BY <2>3, <2>4, BuiltFacts
<1>5. /\ IsBuilt(Build("volume", periods, policy), <<0, 0>>, policy)
      /\ IsBuilt(Build("vwap", periods, policy), <<0, 0>>, policy)
  <2>1. BuildTimed(<<0, 0>>, periods, policy) # Rejected
    BY <1>2, <1>3, KindsAre
  <2> QED
    BY <1>1, <1>3, <2>1, BuiltFacts
<1>6. /\ IsBuilt(Build("obv", periods, policy), 0, policy)
      /\ IsBuilt(Build("sma", periods, policy), 0, policy)
  <2>1. BuildTimed(0, periods, policy) # Rejected
    BY <1>2, <1>3, KindsAre
  <2> QED
    BY <1>1, <1>3, <2>1, BuiltFacts
<1> QED
  BY <1>4, <1>5, <1>6 DEF SumKinds

(* What is written of each of them. *)
LEMMA WrittenIs ==
  ASSUME NEW o
  PROVE  /\ \A k \in SummedKinds : Written(k, o) = [w \in DOMAIN o.windows |-> Shown(k, o, w)]
         /\ \A w : /\ Shown("count", o, w) = ShownSum(o.windows[w])
                   /\ Shown("volume", o, w) = ShownSum(o.windows[w])
                   /\ Shown("vwap", o, w) = ShownPrice(o.windows[w])
                   /\ Shown("obv", o, w) = ShownVolume(o.windows[w])
                   /\ Shown("sma", o, w) = ShownAverage(o.windows[w])
BY KindsAre DEF Written, Outputs, Shown

LEMMA InitInvariant ==
  ASSUME DerivationInit
  PROVE  DerivationInvariant
<1>1. PICK periods \in PeriodLists, policy \in WarmupPolicies :
        /\ \A k \in Kinds : Build(k, periods, policy) # Rejected
        /\ indicators = [k \in Kinds |-> Build(k, periods, policy)]
        /\ cells = [k \in Kinds |-> [w \in Outputs(k, Build(k, periods, policy)) |-> <<>>]]
        /\ log = <<>>
        /\ now = Never
  BY DEF DerivationInit
<1>2. \A k \in SummedKinds : indicators[k] = Build(k, periods, policy)
  BY <1>1, KindsAre
<1>3. /\ IsBuilt(indicators["count"], <<0, 0>>, policy)
      /\ IsBuilt(indicators["volume"], <<0, 0>>, policy)
      /\ IsBuilt(indicators["vwap"], <<0, 0>>, policy)
      /\ IsBuilt(indicators["obv"], 0, policy)
      /\ IsBuilt(indicators["sma"], 0, policy)
  BY <1>1, <1>2, BuiltKinds, KindsAre DEF SumKinds
<1>4. Traded = {} /\ First = Never /\ Timely
  <2>1. Never \in Int
    BY DerivationParameters
  <2>2. LogType
    BY <1>1, EmptySeq DEF LogType
  <2>3. Traded = {}
    BY <1>1 DEF Traded
  <2> QED
    BY <1>1, <2>1, <2>2, <2>3 DEF Timely, First
<1>5. IndicatorsAre
  BY <1>1, <1>3, <1>4, BuiltIsEmpty DEF IndicatorsAre, SumsAre
<1>6. ASSUME NEW k \in SummedKinds
      PROVE  cells[k] = Written(k, indicators[k])
  <2> DEFINE o == indicators[k]
  <2>1. \A w \in DOMAIN o.windows : o.windows[w].ready = FALSE
    <3>1. IsIndicator(o, {}, Never, Never)
      BY <1>3, KindsAre DEF IsBuilt
    <3>2. \A w \in DOMAIN o.windows : o.windows[w].ready \in BOOLEAN
      BY <3>1 DEF IsIndicator, IsWindow
    <3> QED
      BY <3>1, <3>2 DEF IsIndicator, IsWarm
  <2>2. \A w \in DOMAIN o.windows : Shown(k, o, w) = <<>>
    <3> HIDE DEF o
    <3>1. SUFFICES ASSUME NEW w \in DOMAIN o.windows
                   PROVE  Shown(k, o, w) = <<>>
      OBVIOUS
    <3> DEFINE x == o.windows[w]
    <3>2. x.ready = FALSE
      BY <2>1
    <3> HIDE DEF x
    <3>3. ShownSum(x) = <<>> /\ ShownPrice(x) = <<>> /\ ShownVolume(x) = <<>> /\ ShownAverage(x) = <<>>
      BY <3>2 DEF ShownSum, ShownPrice, ShownVolume, ShownAverage
    <3> QED
      BY <3>3, WrittenIs, KindsAre DEF x
  <2>3. cells[k] = [w \in DOMAIN o.windows |-> <<>>]
    BY <1>1, <1>2, KindsAre DEF Outputs
  <2> QED
    BY <2>2, <2>3, WrittenIs
<1> QED
  BY <1>4, <1>5, <1>6 DEF DerivationInvariant, CellsAreWritten

(* What each of them does with an event. *)
LEMMA ObserveIs ==
  ASSUME NEW o, NEW t
  PROVE  /\ \A k \in SumKinds : Observe(k, o, t) = ObserveSums(o, t)
         /\ Observe("obv", o, t) = ObserveVolume(o, t)
         /\ Observe("sma", o, t) = ObserveAverage(o, t)
         /\ \A k \in SummedKinds : o.last = t => Observe(k, o, t) = o
<1>1. \A k \in SumKinds : Observe(k, o, t) = ObserveSums(o, t)
  BY DEF Observe, SumKinds, SampleKinds
<1>2. Observe("obv", o, t) = ObserveVolume(o, t) /\ Observe("sma", o, t) = ObserveAverage(o, t)
  BY DEF Observe, SumKinds, SampleKinds
<1>3. o.last = t => ObserveSums(o, t) = o /\ ObserveVolume(o, t) = o /\ ObserveAverage(o, t) = o
  BY DEF ObserveSums, ObserveVolume, ObserveAverage, Observing
<1> QED
  BY <1>1, <1>2, <1>3 DEF SummedKinds

LEMMA UpdateIs ==
  ASSUME NEW o, NEW trade, NEW t
  PROVE  /\ Update("count", o, trade, t) = UpdateSums(o, <<1, 0>>, t)
         /\ Update("volume", o, trade, t) = UpdateSums(o, <<trade.volume, 0>>, t)
         /\ Update("vwap", o, trade, t)
              = UpdateSums(o, <<trade.price * trade.volume, trade.volume>>, t)
         /\ Update("obv", o, trade, t) = UpdateVolume(o, trade.price, trade.volume, t)
         /\ Update("sma", o, trade, t) = UpdateAverage(o, trade.price, t)
BY DEF Update, UpdateCount, UpdateTradeVolume, UpdateVwap

LEMMA SameLog ==
  ASSUME UNCHANGED log
  PROVE  /\ Traded' = Traded /\ First' = First
         /\ CountSums' = CountSums /\ VolumeSums' = VolumeSums /\ PriceSums' = PriceSums
         /\ Balances' = Balances /\ Averages' = Averages
<1>1. Traded' = Traded /\ First' = First /\ \A b : In(b)' = In(b)
  BY DEF Traded, First, In
<1>2. \A b : /\ Count(b)' = Count(b) /\ Volume(b)' = Volume(b) /\ Notional(b)' = Notional(b)
             /\ Prices(b)' = Prices(b) /\ Close(b)' = Close(b)
  BY DEF In, Count, Volume, Notional, Prices, Close, SumIn, Price
<1>3. \A b : Direction(b)' = Direction(b)
  BY DEF Direction, Traded, Close, Price, In
<1>4. \A b : BucketMean(b)' = BucketMean(b)
  <2>1. /\ \A c : BucketMean(c) = Mean(Prices(c), Count(c))
        /\ \A c : BucketMean(c)' = Mean(Prices(c)', Count(c)')
    BY DEF BucketMean, Prices, Mean
  <2> QED
    BY <1>2, <2>1
<1>5. CountSums' = CountSums
  BY <1>1, <1>2 DEF CountSums
<1>6. VolumeSums' = VolumeSums
  BY <1>1, <1>2 DEF VolumeSums
<1>7. PriceSums' = PriceSums
  BY <1>1, <1>2 DEF PriceSums
<1>8. Balances' = Balances
  BY <1>1, <1>2, <1>3 DEF Balances
<1>9. Averages' = Averages
  BY <1>1, <1>2, <1>4 DEF Averages
<1> QED
  BY <1>1, <1>5, <1>6, <1>7, <1>8, <1>9

(* What happens to the indicators at an event. *)
LEMMA PassTimeKeeps ==
  ASSUME DerivationInvariant, NEW t \in Times, PassTime(t)
  PROVE  DerivationInvariant'
<1>1. now <= t /\ now' = t /\ UNCHANGED log /\ now \in Int /\ t \in Int /\ First \in Int
  BY DerivationParameters DEF PassTime, DerivationInvariant, Timely
<1>2. /\ Traded' = Traded /\ First' = First
      /\ CountSums' = CountSums /\ VolumeSums' = VolumeSums /\ PriceSums' = PriceSums
      /\ Balances' = Balances /\ Averages' = Averages
  BY <1>1, SameLog
<1>3. \A k \in SummedKinds :
        /\ indicators'[k] = Observe(k, indicators[k], t)
        /\ cells'[k] = IF WrittenAt(k, indicators[k], t)
                         THEN Written(k, indicators'[k]) ELSE cells[k]
  BY KindsAre DEF PassTime
<1>4. Timely'
  <2>1. LogType'
    BY <1>1 DEF LogType, DerivationInvariant, Timely
  <2> QED
    BY <1>1, <1>2, <2>1 DEF DerivationInvariant, Timely
<1>5. ASSUME NEW k \in SumKinds, NEW sums, SumsAre(k, sums)
      PROVE  SumsOf(indicators'[k], Traded, t, First, sums)
  <2> DEFINE o == indicators[k]
  <2>1. SumsOf(o, Traded, now, First, sums)
    BY <1>5 DEF SumsAre
  <2>2. indicators'[k] = ObserveSums(o, t)
    BY <1>3, ObserveIs DEF SummedKinds
  <2> HIDE DEF o
  <2> QED
    BY <1>1, <2>1, <2>2, ObserveSumsOf
<1>6. BalancesAre(indicators'["obv"], Traded, t, First, Balances)
  <2> DEFINE o == indicators["obv"]
  <2>1. BalancesAre(o, Traded, now, First, Balances)
    BY DEF DerivationInvariant, IndicatorsAre
  <2>2. indicators'["obv"] = ObserveVolume(o, t)
    BY <1>3, ObserveIs, KindsAre
  <2> HIDE DEF o
  <2> QED
    BY <1>1, <2>1, <2>2, ObserveBalances
<1>7. MeansAre(indicators'["sma"], Traded, t, First, Averages)
  <2> DEFINE o == indicators["sma"]
  <2>1. MeansAre(o, Traded, now, First, Averages)
    BY DEF DerivationInvariant, IndicatorsAre
  <2>2. indicators'["sma"] = ObserveAverage(o, t)
    BY <1>3, ObserveIs, KindsAre
  <2> HIDE DEF o
  <2> QED
    BY <1>1, <2>1, <2>2, ObserveMeans
<1>8. IndicatorsAre'
  <2>1. SumsAre("count", CountSums) /\ SumsAre("volume", VolumeSums) /\ SumsAre("vwap", PriceSums)
    BY DEF DerivationInvariant, IndicatorsAre
  <2>2. /\ SumsOf(indicators'["count"], Traded, t, First, CountSums)
        /\ SumsOf(indicators'["volume"], Traded, t, First, VolumeSums)
        /\ SumsOf(indicators'["vwap"], Traded, t, First, PriceSums)
    BY <1>5, <2>1 DEF SumKinds
  <2> QED
    BY <1>1, <1>2, <1>6, <1>7, <2>2 DEF IndicatorsAre, SumsAre
<1>9. CellsAreWritten'
  <2>1. ASSUME NEW k \in SummedKinds
        PROVE  cells'[k] = Written(k, indicators'[k])
    <3>1. CASE indicators[k].last = t
      <4>1. indicators'[k] = indicators[k]
        BY <1>3, <3>1, ObserveIs
      <4>2. cells[k] = Written(k, indicators[k])
        BY DEF DerivationInvariant, CellsAreWritten
      <4> QED
        BY <1>3, <4>1, <4>2
    <3>2. CASE indicators[k].last # t
      BY <1>3, <3>2, KindsAre DEF WrittenAt
    <3> QED
      BY <3>1, <3>2
  <2> QED
    BY <2>1 DEF CellsAreWritten
<1> QED
  BY <1>4, <1>8, <1>9 DEF DerivationInvariant

LEMMA RecordTradeKeeps ==
  ASSUME DerivationInvariant, NEW t \in Times, NEW trade \in Trades, RecordTrade(trade, t)
  PROVE  DerivationInvariant'
<1> DEFINE e == [at |-> t, price |-> trade.price, volume |-> trade.volume, side |-> trade.side]
           b == BucketOf(t)
           price == trade.price
           volume == trade.volume
<1>1. now <= t /\ now' = t /\ now \in Int /\ t \in Int /\ First \in Int /\ t # Never
  BY DerivationParameters DEF RecordTrade, DerivationInvariant, Timely
<1>2. Logged(e) /\ e.at = t /\ e.price = price /\ e.volume = volume
      /\ price \in Nat /\ volume \in Nat
  <2>1. trade \in [price : Nat, volume : Nat, side : {"AggressorBuy", "AggressorSell", "None"}]
    BY DerivationParameters
  <2>2. e \in Entries
    BY <1>1, <2>1 DEF Entries
  <2>3. log' = Append(log, e)
    BY DEF RecordTrade
  <2> QED
    BY <2>1, <2>2, <2>3 DEF Logged
<1>3. LogType /\ (log # <<>> => First # Never)
  BY DEF DerivationInvariant, Timely
<1> HIDE DEF e
<1>4. Traded' = Traded \cup {b} /\ LogType'
  BY <1>2, <1>3, LogGrows
<1>5. First' = Begun(First, t) /\ log' # <<>> /\ First' # Never /\ First' \in Int
  <2>1. First' = Begun(First, t) /\ log' # <<>> /\ First' # Never
    BY <1>1, <1>2, <1>3, FirstBegins
  <2> QED
    BY <1>1, <2>1 DEF Begun
<1>6. \A k \in SummedKinds :
        /\ indicators'[k] = Update(k, indicators[k], trade, t)
        /\ cells'[k] = Written(k, indicators'[k])
  BY KindsAre DEF RecordTrade, Concerns
<1>7. Timely'
  BY <1>1, <1>4, <1>5 DEF Timely
<1>8. ASSUME NEW o, NEW f, SumsOf(o, Traded, now, First, f), NEW values, IsPair(values),
             NEW g, Counted(f, g, Traded, b, values)
      PROVE  SumsOf(UpdateSums(o, values, t), Traded', t, First', g)
  BY <1>1, <1>4, <1>5, <1>8, UpdateSumsOf
<1>9. SumsOf(indicators'["count"], Traded', t, First', CountSums')
  <2> DEFINE values == <<1, 0>>
             o == indicators["count"]
  <2>1. IsPair(values)
    BY DEF IsPair
  <2>2. Counted(CountSums, CountSums', Traded, b, values)
    BY <1>2, <1>3, CountSumsGrow
  <2>3. SumsOf(o, Traded, now, First, CountSums)
    BY DEF DerivationInvariant, IndicatorsAre, SumsAre
  <2>4. indicators'["count"] = UpdateSums(o, values, t)
    <3>1. indicators'["count"] = Update("count", o, trade, t)
      BY <1>6, KindsAre
    <3> HIDE DEF o
    <3> QED
      BY <3>1, UpdateIs
  <2> HIDE DEF values, o
  <2> QED
    BY <1>8, <2>1, <2>2, <2>3, <2>4
<1>10. SumsOf(indicators'["volume"], Traded', t, First', VolumeSums')
  <2> DEFINE values == <<volume, 0>>
             o == indicators["volume"]
  <2>1. IsPair(values)
    BY <1>2 DEF IsPair
  <2>2. Counted(VolumeSums, VolumeSums', Traded, b, values)
    BY <1>2, <1>3, VolumeSumsGrow
  <2>3. SumsOf(o, Traded, now, First, VolumeSums)
    BY DEF DerivationInvariant, IndicatorsAre, SumsAre
  <2>4. indicators'["volume"] = UpdateSums(o, values, t)
    <3>1. indicators'["volume"] = Update("volume", o, trade, t)
      BY <1>6, KindsAre
    <3> HIDE DEF o
    <3> QED
      BY <3>1, UpdateIs
  <2> HIDE DEF values, o
  <2> QED
    BY <1>8, <2>1, <2>2, <2>3, <2>4
<1>11. SumsOf(indicators'["vwap"], Traded', t, First', PriceSums')
  <2> DEFINE worth == price * volume
             values == <<worth, volume>>
             o == indicators["vwap"]
  <2>1. IsPair(values)
    <3>1. worth \in Int
      BY <1>2
    <3> HIDE DEF worth
    <3> QED
      BY <1>2, <3>1 DEF IsPair
  <2>2. Counted(PriceSums, PriceSums', Traded, b, values)
    BY <1>2, <1>3, PriceSumsGrow
  <2>3. SumsOf(o, Traded, now, First, PriceSums)
    BY DEF DerivationInvariant, IndicatorsAre, SumsAre
  <2>4. indicators'["vwap"] = UpdateSums(o, values, t)
    <3>1. indicators'["vwap"] = Update("vwap", o, trade, t)
      BY <1>6, KindsAre
    <3> HIDE DEF o
    <3> QED
      BY <3>1, UpdateIs
  <2> HIDE DEF values, o
  <2> QED
    BY <1>8, <2>1, <2>2, <2>3, <2>4
<1>12. BalancesAre(indicators'["obv"], Traded', t, First', Balances')
  <2> DEFINE o == indicators["obv"]
  <2>1. BalancesAre(o, Traded, now, First, Balances)
    BY DEF DerivationInvariant, IndicatorsAre
  <2>2. \A c \in Traded : c <= b
    <3>1. Tracks(o.data, Traded, t)
      BY <1>1, <2>1, TracksLater DEF BalancesAre, IsIndicator
    <3> QED
      BY <3>1 DEF Tracks
  <2>3. Balanced(Balances, Balances', Traded, b, price, volume)
    BY <1>2, <1>3, <2>2, BalancesGrow
  <2>4. indicators'["obv"] = UpdateVolume(o, price, volume, t)
    <3>1. indicators'["obv"] = Update("obv", o, trade, t)
      BY <1>6, KindsAre
    <3> HIDE DEF o
    <3> QED
      BY <3>1, UpdateIs
  <2>5. price \in Int /\ volume \in Int
    BY <1>2
  <2> HIDE DEF o, price, volume
  <2> QED
    BY <1>1, <1>4, <1>5, <2>1, <2>3, <2>4, <2>5, UpdateBalances
<1>13. MeansAre(indicators'["sma"], Traded', t, First', Averages')
  <2> DEFINE o == indicators["sma"]
  <2>1. MeansAre(o, Traded, now, First, Averages)
    BY DEF DerivationInvariant, IndicatorsAre
  <2>2. Averaged(Averages, Averages', Traded, b, price)
    BY <1>2, <1>3, AveragesGrow
  <2>3. indicators'["sma"] = UpdateAverage(o, price, t)
    <3>1. indicators'["sma"] = Update("sma", o, trade, t)
      BY <1>6, KindsAre
    <3> HIDE DEF o
    <3> QED
      BY <3>1, UpdateIs
  <2>4. price \in Int
    BY <1>2
  <2> HIDE DEF o, price
  <2> QED
    BY <1>1, <1>4, <1>5, <2>1, <2>2, <2>3, <2>4, UpdateMeans
<1>14. IndicatorsAre'
  BY <1>1, <1>9, <1>10, <1>11, <1>12, <1>13 DEF IndicatorsAre, SumsAre
<1> QED
  BY <1>6, <1>7, <1>14 DEF DerivationInvariant, CellsAreWritten

(* The invariant holds of every feature that sums, through events that are  *)
(* trades and events that only tell the time.                               *)
THEOREM DerivationInvariance == DerivationSpec => []DerivationInvariant
<1>1. DerivationInit => DerivationInvariant
  BY InitInvariant
<1>2. DerivationInvariant /\ [DerivationNext]_derivationVars => DerivationInvariant'
  <2>1. SUFFICES ASSUME DerivationInvariant, [DerivationNext]_derivationVars
                 PROVE  DerivationInvariant'
    OBVIOUS
  <2>2. CASE DerivationNext
    <3>1. PICK t \in Times : PassTime(t) \/ \E trade \in Trades : RecordTrade(trade, t)
      BY <2>2 DEF DerivationNext
    <3> QED
      BY <2>1, <3>1, PassTimeKeeps, RecordTradeKeeps
  <2>3. CASE UNCHANGED derivationVars
    <3>1. UNCHANGED log /\ now' = now /\ indicators' = indicators /\ cells' = cells
      BY <2>3 DEF derivationVars
    <3>2. /\ Traded' = Traded /\ First' = First
          /\ CountSums' = CountSums /\ VolumeSums' = VolumeSums /\ PriceSums' = PriceSums
          /\ Balances' = Balances /\ Averages' = Averages
      BY <3>1, SameLog
    <3>3. Timely'
      BY <2>1, <3>1, <3>2 DEF DerivationInvariant, Timely, LogType
    <3>4. IndicatorsAre'
      BY <2>1, <3>1, <3>2 DEF DerivationInvariant, IndicatorsAre, SumsAre
    <3>5. CellsAreWritten'
      BY <2>1, <3>1 DEF DerivationInvariant, CellsAreWritten
    <3> QED
      BY <3>3, <3>4, <3>5 DEF DerivationInvariant
  <2> QED
    BY <2>1, <2>2, <2>3
<1> QED
  BY <1>1, <1>2, PTL DEF DerivationSpec

-----------------------------------------------------------------------------
(* What the cells show. *)

LEMMA BucketTypes ==
  ASSUME LogType
  PROVE  /\ \A b : Count(b) \in Int /\ Volume(b) \in Int /\ Notional(b) \in Int
         /\ \A b \in Traded : Direction(b) \in Int /\ BucketMean(b) \in Int
<1>1. ASSUME NEW b
      PROVE  /\ Count(b) \in Nat /\ Volume(b) \in Int /\ Notional(b) \in Int /\ Prices(b) \in Int
             /\ b \in Traded => Count(b) \in Nat \ {0}
  <2> DEFINE S == In(b)
             f == [i \in S |-> log[i].volume]
             g == [i \in S |-> log[i].price * log[i].volume]
             h == [i \in S |-> Price(i)]
  <2>1. IsFiniteSet(S) /\ S \subseteq 1 .. Len(log) /\ (b \in Traded <=> S # {})
    BY InFacts
  <2>2. \A i \in S : log[i].price \in Nat /\ log[i].volume \in Nat
    BY <2>1, InFacts
  <2>3. \A i \in S : f[i] \in Int /\ g[i] \in Int /\ h[i] \in Int
    BY <2>2 DEF Price
  <2>4. Volume(b) = SumFunctionOnSet(f, S) /\ Notional(b) = SumFunctionOnSet(g, S)
        /\ Prices(b) = SumFunctionOnSet(h, S)
    BY DEF Volume, Notional, Prices, SumIn
  <2>5. Count(b) = Cardinality(S)
    BY DEF Count
  <2> HIDE DEF S, f, g, h
  <2>6. Volume(b) \in Int /\ Notional(b) \in Int /\ Prices(b) \in Int
    BY <2>1, <2>3, <2>4, SumType
  <2>7. Count(b) \in Nat /\ (b \in Traded => Count(b) # 0)
    BY <2>1, <2>5, FS_CardinalityType, FS_EmptySet
  <2> QED
    BY <2>6, <2>7
<1>2. ASSUME NEW b \in Traded
      PROVE  Direction(b) \in Int
  <2>1. Close(b) \in Int
    <3>1. In(b) # {} /\ IsFiniteSet(In(b)) /\ In(b) \subseteq 1 .. Len(log) /\ In(b) \subseteq Int
      BY InFacts
    <3>2. Max(In(b)) \in In(b)
      BY <3>1, MaxOfFinite
    <3> QED
      BY <3>1, <3>2, InFacts DEF Close, Price
  <2> QED
    BY <2>1, DirectionIsSign
<1>3. ASSUME NEW b \in Traded
      PROVE  BucketMean(b) \in Int
  <2>1. BucketMean(b) = Mean(Prices(b), Count(b))
    BY DEF BucketMean, Prices, Mean
  <2> QED
    BY <1>1, <2>1, MeanIsInt
<1> QED
  BY <1>1, <1>2, <1>3

(* The buckets within a window are those it reaches, and its warmup is by   *)
(* the first trade.                                                         *)
LEMMA WindowMeans ==
  ASSUME NEW o, NEW window
  PROVE  /\ Within(window) = Reached(Traded, window.duration, now)
         /\ Within(window) \subseteq Traded
         /\ (log # <<>> => First # Never)
              => (Warm(o, window) <=> IsWarm(o.policy, window.duration, First, now))
<1>1. Within(window) = Reached(Traded, window.duration, now)
  BY DEF Within, Reached, Leaves, Gone
<1>2. Within(window) \subseteq Traded
  BY DEF Within
<1>3. (log # <<>> => First # Never)
        => (Warm(o, window) <=> IsWarm(o.policy, window.duration, First, now))
  BY DEF Warm, IsWarm, First
<1> QED
  BY <1>1, <1>2, <1>3

LEMMA SumIsShown ==
  ASSUME Timely, NEW k, NEW sums, SumsAre(k, sums),
         \A sum \in 1 .. 2 : \A c \in Traded : sums[sum][c] \in Int,
         NEW w \in DOMAIN indicators[k].windows
  PROVE  LET o == indicators[k]
             window == o.windows[w]
         IN  /\ window.ready <=> Warm(o, window)
             /\ \A sum \in 1 .. 2 :
                  window.value[sum] = SumFunctionOnSet(sums[sum], Within(window))
             /\ window.value = <<window.value[1], window.value[2]>>
             /\ IsFiniteSet(Within(window)) /\ Within(window) \subseteq Traded
<1> DEFINE o == indicators[k]
           window == o.windows[w]
           R == Within(window)
<1>1. /\ SumsOf(o, Traded, now, First, sums) /\ now \in Int /\ (log # <<>> => First # Never)
      /\ w \in DOMAIN o.windows
  BY DEF SumsAre, Timely
<1>2. /\ R = Reached(Traded, window.duration, now) /\ R \subseteq Traded
      /\ Warm(o, window) <=> IsWarm(o.policy, window.duration, First, now)
  BY <1>1, WindowMeans
<1> HIDE DEF R, o
<1>3. WindowSums(o, window, Traded, now, First, sums)
  BY <1>1, SumsOfWindow
<1>4. /\ window.ready <=> Warm(o, window)
      /\ window.value = [sum \in 1 .. 2 |-> SumFunctionOnSet(sums[sum], R)]
      /\ IsFiniteSet(R) /\ R \subseteq Traded
  BY <1>2, <1>3 DEF WindowSums
<1> HIDE DEF window
<1>5. window.value = <<window.value[1], window.value[2]>>
      /\ \A sum \in 1 .. 2 : window.value[sum] = SumFunctionOnSet(sums[sum], R)
  BY <1>4
<1> QED
  BY <1>4, <1>5 DEF R, window, o

(* The cells are written of what the windows show. *)
LEMMA CellsAreShown ==
  ASSUME DerivationInvariant, NEW k \in SummedKinds, NEW w \in DOMAIN indicators[k].windows
  PROVE  cells[k][w] = Shown(k, indicators[k], w)
<1> DEFINE o == indicators[k]
<1>1. cells[k] = Written(k, o)
  BY DEF DerivationInvariant, CellsAreWritten
<1>2. Written(k, o) = [v \in DOMAIN o.windows |-> Shown(k, o, v)]
  <2> HIDE DEF o
  <2> QED
    BY WrittenIs
<1> QED
  BY <1>1, <1>2

LEMMA SumsType ==
  ASSUME LogType
  PROVE  \A sum \in 1 .. 2 : \A c \in Traded :
           /\ CountSums[sum][c] \in Int /\ VolumeSums[sum][c] \in Int
           /\ PriceSums[sum][c] \in Int
BY BucketTypes DEF CountSums, VolumeSums, PriceSums

LEMMA CountsFollow ==
  ASSUME DerivationInvariant, NEW w \in DOMAIN indicators["count"].windows
  PROVE  LET o == indicators["count"]
             window == o.windows[w]
         IN  cells["count"][w] =
               IF Warm(o, window) THEN <<SumIn(Count, Within(window))>> ELSE <<>>
<1> DEFINE o == indicators["count"]
           window == o.windows[w]
           R == Within(window)
           e == CountSums[1]
           f == [b \in R |-> Count(b)]
<1>1. Timely /\ LogType /\ SumsAre("count", CountSums)
  BY DEF DerivationInvariant, IndicatorsAre, Timely
<1>2. /\ window.ready <=> Warm(o, window)
      /\ window.value[1] = SumFunctionOnSet(e, R)
      /\ IsFiniteSet(R) /\ R \subseteq Traded
  BY <1>1, SumsType, SumIsShown
<1>3. \A b \in R : e[b] = f[b]
  BY <1>2 DEF CountSums
<1>4. SumIn(Count, R) = SumFunctionOnSet(f, R)
  BY DEF SumIn
<1>5. cells["count"][w] = ShownSum(window)
  <2>1. cells["count"][w] = Shown("count", o, w)
    BY CellsAreShown, KindsAre
  <2> HIDE DEF o
  <2> QED
    BY <2>1, WrittenIs
<1> HIDE DEF e, f, R, window
<1>6. SumFunctionOnSet(e, R) = SumFunctionOnSet(f, R)
  BY <1>2, <1>3, SumEqual
<1>7. cells["count"][w] = IF Warm(o, window) THEN <<SumIn(Count, R)>> ELSE <<>>
  BY <1>2, <1>4, <1>5, <1>6 DEF ShownSum
<1> QED
  BY <1>7 DEF R, window

LEMMA VolumesFollow ==
  ASSUME DerivationInvariant, NEW w \in DOMAIN indicators["volume"].windows
  PROVE  LET o == indicators["volume"]
             window == o.windows[w]
         IN  cells["volume"][w] =
               IF Warm(o, window) THEN <<SumIn(Volume, Within(window))>> ELSE <<>>
<1> DEFINE o == indicators["volume"]
           window == o.windows[w]
           R == Within(window)
           e == VolumeSums[1]
           f == [b \in R |-> Volume(b)]
<1>1. Timely /\ LogType /\ SumsAre("volume", VolumeSums)
  BY DEF DerivationInvariant, IndicatorsAre, Timely
<1>2. /\ window.ready <=> Warm(o, window)
      /\ window.value[1] = SumFunctionOnSet(e, R)
      /\ IsFiniteSet(R) /\ R \subseteq Traded
  BY <1>1, SumsType, SumIsShown
<1>3. \A b \in R : e[b] = f[b]
  BY <1>2 DEF VolumeSums
<1>4. SumIn(Volume, R) = SumFunctionOnSet(f, R)
  BY DEF SumIn
<1>5. cells["volume"][w] = ShownSum(window)
  <2>1. cells["volume"][w] = Shown("volume", o, w)
    BY CellsAreShown, KindsAre
  <2> HIDE DEF o
  <2> QED
    BY <2>1, WrittenIs
<1> HIDE DEF e, f, R, window
<1>6. SumFunctionOnSet(e, R) = SumFunctionOnSet(f, R)
  BY <1>2, <1>3, SumEqual
<1>7. cells["volume"][w] = IF Warm(o, window) THEN <<SumIn(Volume, R)>> ELSE <<>>
  BY <1>2, <1>4, <1>5, <1>6 DEF ShownSum
<1> QED
  BY <1>7 DEF R, window

(* The weighted price has a meaning where there is a volume. *)
WeightedPrice(window) ==
  LET volume == SumIn(Volume, Within(window))
  IN  IF volume = 0 THEN <<>> ELSE << <<SumIn(Notional, Within(window)), volume>> >>

LEMMA PricesFollow ==
  ASSUME DerivationInvariant, NEW w \in DOMAIN indicators["vwap"].windows
  PROVE  LET o == indicators["vwap"]
             window == o.windows[w]
         IN  cells["vwap"][w] = IF Warm(o, window) THEN WeightedPrice(window) ELSE <<>>
<1> DEFINE o == indicators["vwap"]
           window == o.windows[w]
           R == Within(window)
           d == PriceSums[1]
           e == PriceSums[2]
           f == [b \in R |-> Notional(b)]
           g == [b \in R |-> Volume(b)]
<1>1. Timely /\ LogType /\ SumsAre("vwap", PriceSums)
  BY DEF DerivationInvariant, IndicatorsAre, Timely
<1>2. /\ window.ready <=> Warm(o, window)
      /\ window.value[1] = SumFunctionOnSet(d, R)
      /\ window.value[2] = SumFunctionOnSet(e, R)
      /\ window.value = <<window.value[1], window.value[2]>>
      /\ IsFiniteSet(R) /\ R \subseteq Traded
  BY <1>1, SumsType, SumIsShown
<1>3. \A b \in R : d[b] = f[b] /\ e[b] = g[b]
  BY <1>2 DEF PriceSums
<1>4. SumIn(Notional, R) = SumFunctionOnSet(f, R) /\ SumIn(Volume, R) = SumFunctionOnSet(g, R)
  BY DEF SumIn
<1>5. cells["vwap"][w] = ShownPrice(window)
  <2>1. cells["vwap"][w] = Shown("vwap", o, w)
    BY CellsAreShown, KindsAre
  <2> HIDE DEF o
  <2> QED
    BY <2>1, WrittenIs
<1>6. WeightedPrice(window) = IF SumIn(Volume, R) = 0 THEN <<>>
                              ELSE << <<SumIn(Notional, R), SumIn(Volume, R)>> >>
  BY DEF WeightedPrice
<1> HIDE DEF d, e, f, g, R, window
<1>7. SumFunctionOnSet(d, R) = SumFunctionOnSet(f, R)
      /\ SumFunctionOnSet(e, R) = SumFunctionOnSet(g, R)
  BY <1>2, <1>3, SumEqual
<1>8. cells["vwap"][w] = IF Warm(o, window) THEN WeightedPrice(window) ELSE <<>>
  BY <1>2, <1>4, <1>5, <1>6, <1>7 DEF ShownPrice
<1> QED
  BY <1>8 DEF window

(* Counts, volumes and weighted prices are those of the log. *)
LEMMA SumsFollow == DerivationInvariant => SumsAreOfTrades
<1> SUFFICES ASSUME DerivationInvariant
             PROVE  SumsAreOfTrades
  OBVIOUS
<1>1. CellsAre("count", LAMBDA window : <<SumIn(Count, Within(window))>>)
  BY CountsFollow DEF CellsAre
<1>2. CellsAre("volume", LAMBDA window : <<SumIn(Volume, Within(window))>>)
  BY VolumesFollow DEF CellsAre
<1>3. CellsAre("vwap", WeightedPrice)
  BY PricesFollow DEF CellsAre
<1> QED
  BY <1>1, <1>2, <1>3 DEF SumsAreOfTrades, WeightedPrice, CellsAre

(* On-balance volumes are balances of the log. *)
LEMMA BalancesFollow ==
  ASSUME DerivationInvariant, NEW w \in DOMAIN indicators["obv"].windows
  PROVE  LET o == indicators["obv"]
             window == o.windows[w]
         IN  cells["obv"][w] =
               IF Warm(o, window) THEN <<SumIn(Balance, Within(window))>> ELSE <<>>
<1> DEFINE o == indicators["obv"]
           window == o.windows[w]
           R == Within(window)
           h == [b \in Traded |-> Balance(b)]
           f == [b \in R |-> Balance(b)]
<1>1. /\ Timely /\ LogType /\ BalancesAre(o, Traded, now, First, Balances)
      /\ now \in Int /\ (log # <<>> => First # Never)
  BY DEF DerivationInvariant, IndicatorsAre, Timely
<1>2. \A c \in Traded : h[c] \in Int /\ h[c] = Balances["volume"][c] * Balances["sign"][c]
  <2>1. SUFFICES ASSUME NEW c \in Traded
                 PROVE  h[c] \in Int /\ h[c] = Balances["volume"][c] * Balances["sign"][c]
    OBVIOUS
  <2>2. Direction(c) \in Int /\ Volume(c) \in Int
    BY <1>1, BucketTypes
  <2>3. Balances["volume"][c] = Volume(c) /\ Balances["sign"][c] = Direction(c)
    BY DEF Balances, BalanceFields
  <2>4. h[c] = Direction(c) * Volume(c)
    BY DEF Balance
  <2> HIDE DEF h
  <2>5. Direction(c) * Volume(c) \in Int /\ Direction(c) * Volume(c) = Volume(c) * Direction(c)
    BY <2>2
  <2> QED
    BY <2>3, <2>4, <2>5
<1>3. /\ R = Reached(Traded, window.duration, now) /\ R \subseteq Traded
      /\ Warm(o, window) <=> IsWarm(o.policy, window.duration, First, now)
  BY <1>1, WindowMeans
<1>4. cells["obv"][w] = ShownVolume(window)
  <2>1. cells["obv"][w] = Shown("obv", o, w)
    BY CellsAreShown, KindsAre
  <2> HIDE DEF o
  <2> QED
    BY <2>1, WrittenIs
<1>5. SumIn(Balance, R) = SumFunctionOnSet(f, R)
  BY DEF SumIn
<1>6. \A b \in R : h[b] = f[b]
  BY <1>3
<1>7. w \in DOMAIN o.windows
  OBVIOUS
<1> HIDE DEF o, R, h, f
<1>8. /\ window.ready <=> IsWarm(o.policy, window.duration, First, now)
      /\ window.value = SumFunctionOnSet(h, R) /\ IsFiniteSet(R)
  BY <1>1, <1>2, <1>3, <1>7, BalancesWindow
<1> HIDE DEF window
<1>9. SumFunctionOnSet(h, R) = SumFunctionOnSet(f, R)
  BY <1>6, <1>8, SumEqual
<1>10. cells["obv"][w] = IF Warm(o, window) THEN <<SumIn(Balance, R)>> ELSE <<>>
  BY <1>3, <1>4, <1>5, <1>8, <1>9 DEF ShownVolume
<1> QED
  BY <1>10 DEF R, window, o

LEMMA VolumesAreFollowed == DerivationInvariant => VolumesAreBalances
<1> SUFFICES ASSUME DerivationInvariant
             PROVE  VolumesAreBalances
  OBVIOUS
<1>1. CellsAre("obv", LAMBDA window : <<SumIn(Balance, Within(window))>>)
  BY BalancesFollow DEF CellsAre
<1> QED
  BY <1>1 DEF VolumesAreBalances

(* Averages are means of the means of the log. *)
MeanOfMeans(window) ==
  IF Within(window) = {} THEN <<>>
  ELSE << <<SumIn(BucketMean, Within(window)), Cardinality(Within(window))>> >>

LEMMA MeansFollow ==
  ASSUME DerivationInvariant, NEW w \in DOMAIN indicators["sma"].windows
  PROVE  LET o == indicators["sma"]
             window == o.windows[w]
         IN  cells["sma"][w] = IF Warm(o, window) THEN MeanOfMeans(window) ELSE <<>>
<1> DEFINE o == indicators["sma"]
           window == o.windows[w]
           R == Within(window)
           h == Averages["mean"]
           f == [b \in R |-> BucketMean(b)]
<1>1. /\ Timely /\ LogType /\ MeansAre(o, Traded, now, First, Averages)
      /\ now \in Int /\ (log # <<>> => First # Never)
  BY DEF DerivationInvariant, IndicatorsAre, Timely
<1>2. \A c \in Traded : h[c] \in Int /\ h[c] = BucketMean(c)
  BY <1>1, BucketTypes DEF Averages
<1>3. /\ R = Reached(Traded, window.duration, now) /\ R \subseteq Traded
      /\ Warm(o, window) <=> IsWarm(o.policy, window.duration, First, now)
  BY <1>1, WindowMeans
<1>4. cells["sma"][w] = ShownAverage(window)
  <2>1. cells["sma"][w] = Shown("sma", o, w)
    BY CellsAreShown, KindsAre
  <2> HIDE DEF o
  <2> QED
    BY <2>1, WrittenIs
<1>5. SumIn(BucketMean, R) = SumFunctionOnSet(f, R)
  BY DEF SumIn
<1>6. \A b \in R : h[b] = f[b]
  BY <1>2, <1>3
<1>7. w \in DOMAIN o.windows /\ \A c \in Traded : Averages["mean"][c] \in Int
  BY <1>2
<1>8. MeanOfMeans(window) = IF R = {} THEN <<>> ELSE << <<SumIn(BucketMean, R), Cardinality(R)>> >>
  BY DEF MeanOfMeans
<1> HIDE DEF o, R, f
<1>9. /\ window.ready <=> IsWarm(o.policy, window.duration, First, now)
      /\ window.value = SumFunctionOnSet(h, R) /\ IsFiniteSet(R)
      /\ window.count = Cardinality(R) /\ window.count \in Nat
  BY <1>1, <1>3, <1>7, MeansWindow
<1> HIDE DEF window, h
<1>10. SumFunctionOnSet(h, R) = SumFunctionOnSet(f, R)
  BY <1>6, <1>9, SumEqual
<1>11. window.count > 0 <=> R # {}
  BY <1>9, FS_EmptySet
<1>12. cells["sma"][w] = IF Warm(o, window) THEN MeanOfMeans(window) ELSE <<>>
  BY <1>3, <1>4, <1>5, <1>8, <1>9, <1>10, <1>11 DEF ShownAverage
<1> QED
  BY <1>12 DEF window, o

LEMMA AveragesFollow == DerivationInvariant => AveragesAreMeansOfMeans
<1> SUFFICES ASSUME DerivationInvariant
             PROVE  AveragesAreMeansOfMeans
  OBVIOUS
<1>1. CellsAre("sma", MeanOfMeans)
  BY MeansFollow DEF CellsAre
<1> QED
  BY <1>1 DEF AveragesAreMeansOfMeans, MeanOfMeans, CellsAre

(* At any time, whatever the windows, the ring, the times and the trades:   *)
(* counts, volumes and weighted prices are of all that was traded within    *)
(* their windows, ...                                                       *)
THEOREM SumsStayOfTrades == DerivationSpec => []SumsAreOfTrades
BY DerivationInvariance, SumsFollow, PTL

(* ... on-balance volumes are balances of it, every bucket against the one  *)
(* traded before it, which a ring of two or more still holds, ...           *)
THEOREM VolumesStayBalances == DerivationSpec => []VolumesAreBalances
BY DerivationInvariance, VolumesAreFollowed, PTL

(* ... and averages are the means of its bucket means.                      *)
THEOREM AveragesStayMeansOfMeans == DerivationSpec => []AveragesAreMeansOfMeans
BY DerivationInvariance, AveragesFollow, PTL

=============================================================================
