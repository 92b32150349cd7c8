--------------------------- MODULE TimedIndicators ---------------------------
(***************************************************************************)
(* The timed indicators: rolling sums (indicators/timed_sum.rs) for trade  *)
(* counts, volumes and volume-weighted prices, on-balance volume           *)
(* (volume/obv), the simple moving average of bucket means (averages/sma)  *)
(* and the volatility of returns (volatility).                             *)
(*                                                                         *)
(* An indicator is a value: a record of its ring of buckets, its windows   *)
(* and the timestamps that drive expiry and warmup.  Each                  *)
(* method is an operator from the indicator before the call to the one     *)
(* after it.  Arithmetic is exact: a mean is counted in units of 1/Scale,  *)
(* a return is the pair of values it is computed from, and the moments of  *)
(* returns are the bag of those returns.                                   *)
(***************************************************************************)
EXTENDS SampleIndicators

CONSTANTS
  Aggregation,  \* millis_aggregation
  MaxInt,       \* i64::MAX
  Scale,        \* a multiple of every number of values a bucket comes to hold
  Never         \* Option::None of a timestamp, before all of them

WarmupPolicies == {"FirstValue", "FullWindow"}

ASSUME IndicatorParameters ==
  /\ Aggregation \in Nat \ {0}
  /\ MaxWindows \in Nat
  /\ MaxInt \in Nat
  /\ Scale \in Nat \ {0}

-----------------------------------------------------------------------------
(* Construction. *)

Rejected == [error |-> "InvalidArgument"]

NewIndicator(capacity, policy, zero) ==
  [data |-> NewRing(capacity), policy |-> policy, windows |-> <<>>,
   zero |-> zero, first |-> Never, last |-> Never,
   baseline |-> <<>>,                  \* previous_value of a volatility
   lastSum |-> 0, lastCount |-> 0]     \* last_sum and last_cnt of an average

NewWindow(duration, zero) ==
  [duration |-> duration, ready |-> FALSE,
   value |-> zero,     \* values, value, sum or moments of a window
   frontOffset |-> 0,  \* buckets of the ring that have left the window, or
   count |-> 0]        \* bucket_count, the newest ones that have not

(* The checks of add_window_with_periods: a free slot, a window shorter than *)
(* the ring and of a duration in range, and no value that came before it.    *)
Admits(o, periods) ==
  /\ Len(o.windows) < MaxWindows
  /\ 0 < periods /\ periods < o.data.capacity
  /\ IsEmptyRing(o.data) /\ o.baseline = <<>>
  /\ periods * Aggregation <= MaxInt

AddWindow(o, periods) ==
  IF o # Rejected /\ Admits(o, periods)
    THEN [o EXCEPT !.windows = Append(@, NewWindow(periods * Aggregation, o.zero))]
    ELSE Rejected

(* One bucket more than the longest window: max_period.checked_add(1). *)
CapacityFor(periods) == Max(ToSet(periods)) + 1

(* Windows are added in the order they are asked for. *)
BuildTimed(zero, periods, policy) ==
  FoldLeft(AddWindow, NewIndicator(CapacityFor(periods), policy, zero), periods)

(* The rings of each kind: of sums (one or two of them), on-balance volumes, *)
(* bucket means and moments of returns.                                      *)
NewSums(periods, policy) == BuildTimed(<<0, 0>>, periods, policy)

NewVolume(periods, policy) == BuildTimed(0, periods, policy)

NewAverage(periods, policy) == BuildTimed(0, periods, policy)

NewVolatility(periods, policy) == BuildTimed(EmptyBag, periods, policy)

(* validate_durations: a count's window is given by its duration. *)
ValidDurations(duration) == duration >= Aggregation /\ duration % Aggregation = 0

-----------------------------------------------------------------------------
(* What the indicators have in common. *)

BucketOf(now) == now \div Aggregation

Leaves(index, window, now) == index * Aggregation + window.duration <= now

(* update_readiness, with saturating_sub.  Ready once, ready for good. *)
ReadyAt(o, window, now) ==
  \/ window.ready
  \/ /\ o.first # Never
     /\ o.policy = "FirstValue" \/ Min({now - o.first, MaxInt}) >= window.duration

EachWindow(o, F(_)) == [o EXCEPT !.windows = [w \in DOMAIN @ |-> F(@[w])]]

UpdateReadiness(o, now) ==
  EachWindow(o, LAMBDA window : [window EXCEPT !.ready = ReadyAt(o, window, now)])

(* observe: a repeated timestamp changes nothing. *)
Observing(o, now, Expire(_, _, _)) ==
  IF o.last = now THEN o
  ELSE UpdateReadiness([EachWindow(o, LAMBDA window : Expire(Items(o.data), window, now))
                          EXCEPT !.last = now], now)

(* The first value starts the warmup, before its time is observed. *)
Starting(o, now) ==
  IF o.first = Never THEN UpdateReadiness([o EXCEPT !.first = now], now) ELSE o

(* The newest bucket, where there is one. *)
Newest(o) == PeekBack(o.data)[1]

SameBucket(o, now) == ~ IsEmptyRing(o.data) /\ Newest(o).index = BucketOf(now)

Full(o) == IsFullRing(o.data)

(* A new bucket, for which a full ring evicts its oldest, or the newest one  *)
(* taken out and put back changed.                                           *)
Recording(o, same, bucket) ==
  PushBack(IF same THEN PopBack(o.data) ELSE o.data, bucket)

-----------------------------------------------------------------------------
(* RollingTimedSum: several sums over one ring of buckets of two values, of *)
(* which counts and volumes use the first.                                  *)

Plus(u, v) == [i \in DOMAIN u |-> u[i] + v[i]]

(* expire_old_buckets resumes where it stopped the last time. *)
OffsetAt(data, window, now) ==
  CHOOSE o \in window.frontOffset .. Len(data) :
    /\ \A i \in window.frontOffset + 1 .. o : Leaves(data[i].index, window, now)
    /\ o < Len(data) => ~ Leaves(data[o + 1].index, window, now)

(* What the buckets i + 1 .. j of the ring hold of a sum. *)
HeldBy(data, sum, i, j) == SumFunctionOnSet([k \in i + 1 .. j |-> data[k].values[sum]], i + 1 .. j)

(* A window that everything has left is zero whatever the rounding did. *)
ExpireSums(data, window, now) ==
  LET offset == OffsetAt(data, window, now)
  IN  [window EXCEPT !.value = [sum \in DOMAIN @ |->
                                  IF offset = Len(data) THEN 0
                                  ELSE @[sum] - HeldBy(data, sum, window.frontOffset, offset)],
                     !.frontOffset = offset]

ObserveSums(o, now) == Observing(o, now, ExpireSums)

(* Faulty variant: an eviction leaves the offsets where they are. *)
OffsetAsBefore(o, window, same) == window.frontOffset

(* An eviction moves the buckets under the offset: saturating_sub(1). *)
OffsetAfterPush(o, window, same) ==
  IF ~ same /\ Full(o) THEN Max({window.frontOffset - 1, 0}) ELSE window.frontOffset

UpdateSums(before, values, now) ==
  LET o      == ObserveSums(Starting(before, now), now)
      same   == SameBucket(o, now)
      bucket == [index |-> BucketOf(now),
                 values |-> IF same THEN Plus(Newest(o).values, values) ELSE values]
  IN  [EachWindow(o, LAMBDA window :
         [window EXCEPT !.value = Plus(@, values),
                        !.frontOffset = OffsetAfterPush(o, window, same)])
         EXCEPT !.data = Recording(o, same, bucket)]

(* window_value of counts and volumes. *)
ShownSum(window) == IF window.ready THEN <<window.value[1]>> ELSE <<>>

(* window_value of volume-weighted prices: <<notional, volume>>, the price  *)
(* being the former by the latter, of windows with a volume.                *)
ShownPrice(window) ==
  IF window.ready /\ window.value[2] # 0 THEN <<window.value>> ELSE <<>>

-----------------------------------------------------------------------------
(* On-balance volume: the volume of a bucket counts for or against by the   *)
(* close of the bucket before it.                                           *)

SignedVolume(bucket) == bucket.volume * bucket.sign

(* The balance of the buckets i + 1 .. j. *)
BalanceOf(data, i, j) == SumFunctionOnSet([k \in i + 1 .. j |-> SignedVolume(data[k])], i + 1 .. j)

ExpireVolume(data, window, now) ==
  LET offset == OffsetAt(data, window, now)
  IN  [window EXCEPT !.value = @ - BalanceOf(data, window.frontOffset, offset),
                     !.frontOffset = offset]

ObserveVolume(o, now) == Observing(o, now, ExpireVolume)

(* Faulty variant: a bucket is compared with what it closed at itself. *)
CloseInBucket(data, sameBucket) == IF data = <<>> THEN <<>> ELSE <<Last(data).close>>

(* The close of the bucket before the one a trade goes to: peek_back_at(1)  *)
(* or peek_back.                                                            *)
PreviousClose(data, sameBucket) ==
  LET previous == IF sameBucket THEN Len(data) - 1 ELSE Len(data)
  IN  IF previous = 0 THEN <<>> ELSE <<data[previous].close>>

Sign(previous, price) ==
  CASE previous = <<>> \/ previous = <<price>> -> 0
    [] previous # <<>> /\ previous[1] < price  -> 1
    [] previous # <<>> /\ previous[1] > price  -> -1

UpdateVolume(before, price, volume, now) ==
  LET o      == ObserveVolume(Starting(before, now), now)
      same   == SameBucket(o, now)
      old    == Newest(o)
      bucket == [index |-> BucketOf(now), close |-> price,
                 volume |-> IF same THEN old.volume + volume ELSE volume,
                 sign |-> Sign(PreviousClose(Items(o.data), same), price)]
      delta  == IF same THEN SignedVolume(bucket) - SignedVolume(old) ELSE SignedVolume(bucket)
  IN  [EachWindow(o, LAMBDA window :
         [window EXCEPT !.value = @ + delta, !.frontOffset = OffsetAfterPush(o, window, same)])
         EXCEPT !.data = Recording(o, same, bucket)]

(* window_value *)
ShownVolume(window) == IF window.ready THEN <<window.value>> ELSE <<>>

-----------------------------------------------------------------------------
(* The other two count the buckets of a window from the back of the ring. *)

(* The loop of expire_old_buckets and of observe stops at the first bucket *)
(* of the window that stays.                                               *)
CountAt(data, window, now) ==
  CHOOSE c \in 0 .. window.count :
    /\ \A i \in Len(data) - window.count + 1 .. Len(data) - c :
         Leaves(data[i].index, window, now)
    /\ c > 0 => ~ Leaves(data[Len(data) - c + 1].index, window, now)

(* The buckets it passes. *)
LeavingAt(data, window, now) ==
  SubSeq(data, Len(data) - window.count + 1, Len(data) - CountAt(data, window, now))

-----------------------------------------------------------------------------
(* Simple moving average: the mean of the means of the buckets. *)

Mean(sum, count) == (Scale * sum) \div count

(* The means of the buckets i + 1 .. j. *)
SumOfMeans(data, i, j) == SumFunctionOnSet([k \in i + 1 .. j |-> data[k].mean], i + 1 .. j)

ExpireMeans(data, window, now) ==
  LET count == CountAt(data, window, now)
  IN  [window EXCEPT !.value = @ - SumOfMeans(data, Len(data) - window.count, Len(data) - count),
                     !.count = count]

ObserveAverage(o, now) == Observing(o, now, ExpireMeans)

(* Faulty variant: the mean of a bucket is never taken back. *)
MeanAddedTwice(window, old, new, now) ==
  [window EXCEPT !.value = @ + new.mean, !.count = IF @ = 0 THEN 1 ELSE @]

(* The bucket of a window gets a new mean. *)
MeanReplaced(window, old, new, now) ==
  IF window.count > 0 THEN [window EXCEPT !.value = @ - old.mean + new.mean]
  ELSE IF ~ Leaves(new.index, window, now)
    THEN [window EXCEPT !.value = @ + new.mean, !.count = 1]
  ELSE window

(* A window that still counts the evicted bucket gives it up. *)
MeanAdded(o, window, new) ==
  LET evicts == Full(o) /\ window.count = o.data.length
  IN  [window EXCEPT !.value = @ - (IF evicts THEN EvictedBy(o.data)[1].mean ELSE 0) + new.mean,
                     !.count = IF evicts THEN @ ELSE @ + 1]

UpdateAverage(before, value, now) ==
  LET o      == ObserveAverage(Starting(before, now), now)
      same   == SameBucket(o, now)
      old    == Newest(o)
      sum    == IF same THEN o.lastSum + value ELSE value
      count  == IF same THEN o.lastCount + 1 ELSE 1
      bucket == [index |-> BucketOf(now), mean |-> Mean(sum, count)]
  IN  [EachWindow(o, LAMBDA window : IF same THEN MeanReplaced(window, old, bucket, now)
                                             ELSE MeanAdded(o, window, bucket))
         EXCEPT !.data = Recording(o, same, bucket),
                !.lastSum = sum, !.lastCount = count]

(* value_at: the moving average <<sum, buckets>> is the former by the latter. *)
ShownAverage(window) ==
  IF window.ready /\ window.count > 0 THEN << <<window.value, window.count>> >> ELSE <<>>

-----------------------------------------------------------------------------
(* Volatility of the returns between consecutive values. *)

ReturnsOf(buckets) == FoldSeq(LAMBDA b, returns : returns (+) b.returns, EmptyBag, buckets)

ExpireReturns(data, window, now) ==
  [window EXCEPT !.value = @ (-) ReturnsOf(LeavingAt(data, window, now)),
                 !.count = CountAt(data, window, now)]

ObserveVolatility(o, now) == Observing(o, now, ExpireReturns)

(* A return that joins the last bucket of the ring. *)
ReturnJoined(window, index, returns, now) ==
  IF window.count > 0 THEN [window EXCEPT !.value = @ (+) returns]
  ELSE IF ~ Leaves(index, window, now)
    THEN [window EXCEPT !.value = @ (+) returns, !.count = 1]
  ELSE window

ReturnAdded(o, window, returns) ==
  LET evicts == Full(o) /\ window.count = o.data.length
  IN  [window EXCEPT
         !.value = (IF evicts THEN @ (-) EvictedBy(o.data)[1].returns ELSE @) (+) returns,
         !.count = IF evicts THEN @ ELSE @ + 1]

(* Faulty variant: a zero is no baseline either. *)
BaselineBesidesZero(o, value) == IF value = 0 THEN o.baseline ELSE <<value>>

(* previous_value.replace(value) *)
BaselineAfter(o, value) == <<value>>

(* No return from a zero, nor from nothing; either is a baseline all the same. *)
UpdateVolatility(before, value, now) ==
  LET o       == ObserveVolatility(Starting(before, now), now)
      after   == [o EXCEPT !.baseline = BaselineAfter(o, value)]
      returns == SetToBag({<<o.baseline[1], value>>})
      same    == SameBucket(o, now)
      index   == BucketOf(now)
      bucket  == [index |-> index,
                  returns |-> IF same THEN Newest(o).returns (+) returns ELSE returns]
  IN  IF o.baseline = <<>> \/ o.baseline = <<0>> THEN after
      ELSE [EachWindow(after, LAMBDA window :
              IF same THEN ReturnJoined(window, index, returns, now)
                      ELSE ReturnAdded(o, window, returns))
              EXCEPT !.data = Recording(o, same, bucket)]

(* value_at: no value without a return. *)
ShownVolatility(window) ==
  IF window.ready /\ window.value # EmptyBag THEN <<window.value>> ELSE <<>>

=============================================================================
