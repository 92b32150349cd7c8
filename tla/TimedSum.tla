------------------------------ MODULE TimedSum ------------------------------
(***************************************************************************)
(* RollingTimedSum of indicators/timed_sum.rs: the rolling sums behind the *)
(* timed trade counts, trade volumes and volume-weighted prices.           *)
(*                                                                         *)
(* Values that arrive in the same Aggregation milliseconds share a bucket; *)
(* the buckets are kept in one ring that evicts its oldest, and each       *)
(* window keeps a running sum of those it has not expired, the first       *)
(* frontOffset of the ring being expired.  observe and update are called   *)
(* with timestamps that do not decrease, which the extractor checks for    *)
(* every symbol.  Sums are exact here: rounding is not modelled, nor are   *)
(* the several values a bucket may have, which are summed alike.           *)
(***************************************************************************)
EXTENDS Integers, Sequences, FiniteSets, Functions

CONSTANTS
  Aggregation,   \* millis_aggregation
  Periods,       \* window -> its length in buckets
  Capacity,      \* of the ring
  WarmupPolicy,  \* "FirstValue" or "FullWindow"
  Times,         \* timestamps
  Values,        \* what one update adds
  Never          \* Option::None of a timestamp: before all of them

Windows == DOMAIN Periods

(* The constructors refuse a ring without capacity; add_window_with_periods: *)
(* 0 < periods < capacity.  Timestamps are machine integers.                 *)
ASSUME WindowParameters ==
  /\ Aggregation \in Nat \ {0}
  /\ Capacity \in Nat \ {0}
  /\ \A w \in Windows : Periods[w] \in Nat /\ 0 < Periods[w] /\ Periods[w] < Capacity
  /\ WarmupPolicy \in {"FirstValue", "FullWindow"}
  /\ Times \subseteq Int /\ IsFiniteSet(Times)
  /\ Values \subseteq Int
  /\ Never \in Int /\ \A t \in Times : Never < t

VARIABLES
  data,            \* buckets [index, value], oldest first
  sums,            \* windows[w].values
  ready,           \* windows[w].ready
  frontOffset,     \* windows[w].front_offset
  firstTimestamp,  \* first_timestamp: of the first update
  lastObserved     \* last_observed_timestamp

sumVars == <<data, sums, ready, frontOffset, firstTimestamp, lastObserved>>

-----------------------------------------------------------------------------
Duration(w) == Periods[w] * Aggregation

(* Buckets are aligned down, before the epoch too: div_euclid. *)
BucketOf(now) == now \div Aggregation

(* A bucket leaves a window as soon as its beginning does. *)
Expired(index, w, now) == index * Aggregation + Duration(w) <= now

(* Sum of the buckets i + 1 .. j of the ring. *)
SumOf(i, j) == SumFunctionOnSet([k \in i + 1 .. j |-> data[k].value], i + 1 .. j)

(* Where the loop of expire_old_buckets stops for a window. *)
OffsetAt(w, now) ==
  CHOOSE o \in frontOffset[w] .. Len(data) :
    /\ \A i \in frontOffset[w] + 1 .. o : Expired(data[i].index, w, now)
    /\ o < Len(data) => ~ Expired(data[o + 1].index, w, now)

(* A window with every bucket expired is set to zero, whatever it held. *)
SumAt(w, now) ==
  IF OffsetAt(w, now) = Len(data)
    THEN 0
    ELSE sums[w] - SumOf(frontOffset[w], OffsetAt(w, now))

(* update_readiness.  Ready once, ready for good. *)
ReadyAt(w, first, now) ==
  \/ ready[w]
  \/ /\ first # Never
     /\ WarmupPolicy = "FirstValue" \/ now - first >= Duration(w)

-----------------------------------------------------------------------------
(* The caller's part: time does not go back. *)
InTime(now) == lastObserved <= now

(* observe: time passes without a value. *)
Observe(now) ==
  /\ InTime(now)
  /\ IF lastObserved = now
       THEN UNCHANGED sumVars
       ELSE /\ lastObserved' = now
            /\ frontOffset' = [w \in Windows |-> OffsetAt(w, now)]
            /\ sums' = [w \in Windows |-> SumAt(w, now)]
            /\ ready' = [w \in Windows |-> ReadyAt(w, firstTimestamp, now)]
            /\ UNCHANGED <<data, firstTimestamp>>

(* Faulty variant: update evicts before it lets the time pass. *)
OffsetBeforeObserving(w, now) == frontOffset[w]

(* What update's own call of observe leaves: nothing new at the same time. *)
OffsetAfter(w, now) == IF lastObserved = now THEN frontOffset[w] ELSE OffsetAt(w, now)

(* Faulty variant: update forgets that time has passed. *)
SumUnobserved(w, now) == sums[w]

SumAfter(w, now) == IF lastObserved = now THEN sums[w] ELSE SumAt(w, now)

SameBucket(now) == data # <<>> /\ data[Len(data)].index = BucketOf(now)

RingFull == Len(data) = Capacity

(* Faulty variant: the offsets do not follow the eviction. *)
OffsetNotShifted(offset) == offset

(* saturating_sub(1) *)
OffsetAfterEviction(offset) == IF offset = 0 THEN 0 ELSE offset - 1

(* update: the time passes, then the value goes to its bucket. *)
Update(v, now) ==
  LET first  == IF firstTimestamp = Never THEN now ELSE firstTimestamp
      n      == Len(data)
      bucket == [index |-> BucketOf(now), value |-> v]
      evicts == ~ SameBucket(now) /\ RingFull
  IN  /\ InTime(now)
      /\ firstTimestamp' = first
      /\ lastObserved' = now
      /\ ready' = [w \in Windows |-> IF firstTimestamp = Never \/ lastObserved # now
                                       THEN ReadyAt(w, first, now)
                                       ELSE ready[w]]
      /\ data' = IF SameBucket(now)
                   THEN [data EXCEPT ![n].value = @ + v]
                   ELSE Append(IF evicts THEN Tail(data) ELSE data, bucket)
      /\ frontOffset' = [w \in Windows |->
                           IF evicts THEN OffsetAfterEviction(OffsetAfter(w, now))
                                     ELSE OffsetAfter(w, now)]
      /\ sums' = [w \in Windows |-> SumAfter(w, now) + v]

-----------------------------------------------------------------------------
SumInit ==
  /\ data = <<>>
  /\ sums = [w \in Windows |-> 0]
  /\ ready = [w \in Windows |-> FALSE]
  /\ frontOffset = [w \in Windows |-> 0]
  /\ firstTimestamp = Never
  /\ lastObserved = Never

SumNext == \E now \in Times : Observe(now) \/ \E v \in Values : Update(v, now)

SumSpec == SumInit /\ [][SumNext]_sumVars

-----------------------------------------------------------------------------
(* The offset of each window parts the ring, at every moment, into the      *)
(* buckets that have left the window and those in it, although the windows  *)
(* share the ring, which never outgrows its capacity, and evictions move it  *)
(* under them.                                                              *)
OffsetsPartTheRing ==
  Len(data) <= Capacity /\ \A w \in Windows : \A i \in 1 .. Len(data) :
    i <= frontOffset[w] <=> Expired(data[i].index, w, lastObserved)

(* The ring never evicts a bucket that some window still counts: the        *)
(* assertion front_offset > 0 of update.                                    *)
EvictsOnlyExpired ==
  [][\A now \in Times, v \in Values :
       Update(v, now) /\ ~ SameBucket(now) /\ RingFull
         => \A w \in Windows : OffsetAfter(w, now) > 0]_sumVars

=============================================================================
