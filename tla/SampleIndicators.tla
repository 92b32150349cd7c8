--------------------------- MODULE SampleIndicators ---------------------------
(***************************************************************************)
(* The indicators that count samples: simple and exponential moving        *)
(* averages, cumulative volume delta, returns, volatility of returns and   *)
(* the volume-price trend.  As in TimedIndicators, an indicator is a       *)
(* record and each method an operator on it, and arithmetic is exact: a    *)
(* quotient is the pair of its terms, an exponential average a numerator   *)
(* over a power of its window's divisor, and what is summed up from        *)
(* quotients the bag of them.                                              *)
(***************************************************************************)
EXTENDS RingBuffers, Bags, FiniteSetsExt, SequencesExt

CONSTANT MaxWindows  \* WINDOWS and LAGS, which are MAX_OUTPUTS_PER_INDICATOR

RejectedSample == [error |-> "InvalidArgument"]

NewSample(capacity, policy, zero) ==
  [data |-> NewRing(capacity), policy |-> policy, zero |-> zero, windows |-> <<>>,
   baseline |-> <<>>]  \* previous_value, previous_price

(* add_window and add_lag: free slot, no value before it, positive, and a   *)
(* window fits the ring; a lag is shorter than it.                          *)
AdmitsSample(o, period, longest) ==
  /\ Len(o.windows) < MaxWindows
  /\ IsEmptyRing(o.data) /\ o.baseline = <<>>
  /\ 0 < period /\ period <= longest

AddSampleWindow(o, period, longest) ==
  IF o # RejectedSample /\ AdmitsSample(o, period, longest)
    THEN [o EXCEPT !.windows = Append(@, [period |-> period, value |-> o.zero])]
    ELSE RejectedSample

BuildSample(capacity, policy, zero, periods) ==
  FoldLeft(LAMBDA o, period : AddSampleWindow(o, period, capacity),
           NewSample(capacity, policy, zero), periods)

EachSampleWindow(o, F(_)) == [w \in DOMAIN o.windows |-> F(o.windows[w])]

(* is_ready_at *)
SampleReady(o, window) ==
  IF o.policy = "FirstValue" THEN ~ IsEmptyRing(o.data) ELSE o.data.length >= window.period

(* Faulty variant: the ring is asked for what it has just evicted. *)
LeftBehindInRing(before, after, period) == PeekBackAt(after, period)

(* What falls out of a window, seen from the ring after the push: the item  *)
(* the push evicted if the window is as long as the ring.                   *)
LeftBehind(before, after, period) ==
  IF period = after.capacity THEN EvictedBy(before) ELSE PeekBackAt(after, period)

-----------------------------------------------------------------------------
(* SimpleMovingAverage *)

BuildMovingAverage(periods, policy) ==
  BuildSample(Max(ToSet(periods)), policy, <<0, 1>>, periods)

UpdateMovingAverage(o, value) ==
  LET data == PushBack(o.data, value)
      Moved(window) ==
        LET left == LeftBehind(o.data, data, window.period)
            sum  == window.value[1] + value - (IF left = <<>> THEN 0 ELSE left[1])
        IN  [window EXCEPT !.value = <<sum, Min({data.length, window.period})>>]
  IN  [o EXCEPT !.data = data, !.windows = EachSampleWindow(o, Moved)]

MovingAverageAt(o, w) ==
  IF SampleReady(o, o.windows[w]) THEN <<o.windows[w].value>> ELSE <<>>

-----------------------------------------------------------------------------
(* ExponentialMovingAverage: no ring, a count of updates instead. *)

BuildExponential(periods, policy) ==
  IF Len(periods) <= MaxWindows /\ \A w \in DOMAIN periods : periods[w] > 0
    THEN [policy |-> policy, updates |-> 0,
          windows |-> [w \in DOMAIN periods |-> [period |-> periods[w], average |-> <<>>]]]
    ELSE RejectedSample

(* With the multiplier 2 / (period + 1). *)
Smoothed(window, value) ==
  IF window.average = <<>> THEN <<value, 1>>
  ELSE LET a == window.average
       IN  <<2 * value * a[2] + (window.period - 1) * a[1], (window.period + 1) * a[2]>>

UpdateExponential(o, value) ==
  [o EXCEPT !.updates = @ + 1,
            !.windows = EachSampleWindow(o, LAMBDA window :
                          [window EXCEPT !.average = Smoothed(window, value)])]

ExponentialAt(o, w) ==
  IF IF o.policy = "FirstValue" THEN o.updates > 0 ELSE o.updates >= o.windows[w].period
    THEN <<o.windows[w].average>> ELSE <<>>

-----------------------------------------------------------------------------
(* CumulativeVolumeDelta *)

BuildDelta(periods, policy) == BuildSample(Max(ToSet(periods)), policy, 0, periods)

SignedBy(side, volume) == IF side = "AggressorBuy" THEN volume ELSE -volume

(* The ring is read before the push. *)
UpdateDelta(o, volume, side) ==
  LET delta == SignedBy(side, volume)
      Moved(window) ==
        LET old == PeekBackAt(o.data, window.period - 1)
        IN  [window EXCEPT !.value = @ + delta - (IF old = <<>> THEN 0 ELSE old[1])]
  IN  [o EXCEPT !.data = PushBack(@, delta), !.windows = EachSampleWindow(o, Moved)]

DeltaAt(o, w) == IF SampleReady(o, o.windows[w]) THEN <<o.windows[w].value>> ELSE <<>>

-----------------------------------------------------------------------------
(* SampleReturns, of either kind: the pair of the current and the earlier    *)
(* value, which a simple return divides and a log return takes logarithms of.*)

BuildReturns(lags) ==
  LET samples == Max(ToSet(lags)) + 1
  IN  FoldLeft(LAMBDA o, lag : AddSampleWindow(o, lag, samples - 1),
               NewSample(samples, "FullWindow", 0), lags)

UpdateReturns(o, value) == [o EXCEPT !.data = PushBack(@, value)]

HasReturn(kind, current, previous) ==
  IF kind = "Simple" THEN previous # 0 ELSE current > 0 /\ previous > 0

ReturnAt(o, kind, w) ==
  LET current  == PeekBack(o.data)
      previous == PeekBackAt(o.data, o.windows[w].period)
  IN  IF current # <<>> /\ previous # <<>> /\ HasReturn(kind, current[1], previous[1])
        THEN << <<current[1], previous[1]>> >> ELSE <<>>

-----------------------------------------------------------------------------
(* RollingVolatility: windows of returns, with the moments of each as the   *)
(* bag of its returns; the rebuild after a cancellation changes no bag.     *)

BuildSampleVolatility(periods, policy) ==
  BuildSample(Max(ToSet(periods)), policy, EmptyBag, periods)

UpdateSampleVolatility(o, value) ==
  LET return == <<o.baseline[1], value>>
      data   == PushBack(o.data, return)
      Moved(window) ==
        LET expired == LeftBehind(o.data, data, window.period)
        IN  [window EXCEPT !.value = (@ (+) SetToBag({return})) (-) SetToBag(ToSet(expired))]
  IN  IF o.baseline = <<>> \/ o.baseline = <<0>>
        THEN [o EXCEPT !.baseline = <<value>>]
        ELSE [o EXCEPT !.baseline = <<value>>, !.data = data,
                       !.windows = EachSampleWindow(o, Moved)]

(* With FirstValue a first value makes it ready, but shows nothing yet. *)
SampleVolatilityAt(o, w) ==
  LET window == o.windows[w]
      ready  == IF o.policy = "FirstValue" THEN o.baseline # <<>>
                ELSE o.data.length >= window.period
  IN  IF ready /\ window.value # EmptyBag THEN <<window.value>> ELSE <<>>

-----------------------------------------------------------------------------
(* VolumePriceTrend: volume by relative price change, summed up for good. *)

NewTrend == [previous |-> <<>>, terms |-> EmptyBag]

UpdateTrend(o, price, volume) ==
  [previous |-> <<price>>,
   terms |-> IF o.previous # <<>> /\ o.previous # <<0>>
               THEN o.terms (+) SetToBag({<<volume, o.previous[1], price>>}) ELSE o.terms]

TrendValue(o) == IF o.previous = <<>> THEN <<>> ELSE <<o.terms>>

=============================================================================
