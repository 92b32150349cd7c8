------------------------------ MODULE RingBuffers ------------------------------
(***************************************************************************)
(* The inline ring buffer (StackRingBuffer of ring_buffer.rs): N slots, of *)
(* which `length' from `head' on hold an item and the others are not       *)
(* initialized.  HeapRingBuffer keeps the same promise with a VecDeque.    *)
(* The code reads slots unchecked, so the arithmetic on head and length is *)
(* all that separates a reader from an uninitialized one.                  *)
(***************************************************************************)
EXTENDS Integers, Sequences

Uninit == <<>>

NewRing(N) == [capacity |-> N, slots |-> [s \in 0 .. N - 1 |-> Uninit],
               head |-> 0, length |-> 0]

IsEmptyRing(ring) == ring.length = 0

IsFullRing(ring) == ring.length = ring.capacity

Slot(ring, offset) == (ring.head + offset) % ring.capacity

(* A full ring writes over its oldest item and hands it out: EvictedBy. *)
PushBack(ring, item) ==
  IF IsFullRing(ring)
    THEN [ring EXCEPT !.slots[ring.head] = <<item>>, !.head = Slot(ring, 1)]
    ELSE [ring EXCEPT !.slots[Slot(ring, ring.length)] = <<item>>, !.length = @ + 1]

EvictedBy(ring) == IF IsFullRing(ring) THEN ring.slots[ring.head] ELSE <<>>

PopBack(ring) ==
  IF IsEmptyRing(ring) THEN ring
  ELSE [ring EXCEPT !.slots[Slot(ring, ring.length - 1)] = Uninit, !.length = @ - 1]

(* An item, or <<>> beyond the oldest or newest one. *)
PeekBackAt(ring, index) ==
  IF index >= ring.length THEN <<>> ELSE ring.slots[Slot(ring, ring.length - 1 - index)]

PeekFrontAt(ring, index) ==
  IF index >= ring.length THEN <<>> ELSE ring.slots[Slot(ring, index)]

PeekBack(ring) == PeekBackAt(ring, 0)

(* What peek_front_at gives from the oldest item on. *)
Items(ring) == [i \in 1 .. ring.length |-> PeekFrontAt(ring, i - 1)[1]]

=============================================================================
