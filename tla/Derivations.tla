--------------------------- MODULE Derivations ---------------------------
(***************************************************************************)
(* The features over indicators (features/derivation) of one symbol, as    *)
(* the extractor drives them: every event of the symbol is a trade, which  *)
(* they record, or else tells the timed ones the time.  Nothing is ever    *)
(* forgotten in `log'; what the cells of a feature vector have to show is  *)
(* defined by it and by the time of the last event alone.                  *)
(***************************************************************************)
EXTENDS TimedIndicators

CONSTANTS
  PeriodLists,  \* window lengths in buckets, one or more, as they are added
  Times,        \* timestamps
  Trades,       \* [price, volume, side]
  MaxTrades     \* bound of the model: trades in a log

ASSUME DerivationParameters ==
  /\ PeriodLists \subseteq Seq(Nat) \ {<<>>}
  /\ Never \in Int /\ \A t \in Times : t \in Int /\ t > Never
  /\ Trades \subseteq [price : Nat, volume : Nat,
                       side : {"AggressorBuy", "AggressorSell", "None"}]

VARIABLES
  indicators,  \* the indicator of each feature
  cells,       \* what each has written: window -> value or <<>> for NaN
  log,         \* all trades: [at, price, volume, side]
  now          \* time of the last event

derivationVars == <<indicators, cells, log, now>>

SumKinds == {"count", "volume", "vwap"}

TimedKinds == SumKinds \cup {"obv", "sma", "volatility"}

SampleKinds == {"cvd", "simple_return", "log_return", "sample_volatility", "vpt"}

Kinds == TimedKinds \cup SampleKinds

BuildCount(duration, policy) ==
  IF ValidDurations(duration)
    THEN NewSums(<<duration \div Aggregation>>, policy)
    ELSE Rejected

BuildTradeVolume(periods, policy) == NewSums(periods, policy)

BuildVwap(periods, policy) == NewSums(periods, policy)

BuildObv(periods, policy) == NewVolume(periods, policy)

BuildSma(periods, policy) == NewAverage(periods, policy)

BuildVolatility(periods, policy) == NewVolatility(periods, policy)

Build(kind, periods, policy) ==
  CASE kind = "count"      -> BuildCount(periods[1] * Aggregation, policy)
    [] kind = "volume"     -> BuildTradeVolume(periods, policy)
    [] kind = "vwap"       -> BuildVwap(periods, policy)
    [] kind = "obv"        -> BuildObv(periods, policy)
    [] kind = "sma"        -> BuildSma(periods, policy)
    [] kind = "volatility" -> BuildVolatility(periods, policy)
    [] kind = "cvd"        -> BuildDelta(periods, policy)
    [] kind \in {"simple_return", "log_return"} -> BuildReturns(periods)
    [] kind = "sample_volatility" -> BuildSampleVolatility(periods, policy)
    [] kind = "vpt"        -> NewTrend

UpdateCount(o, trade, t) == UpdateSums(o, <<1, 0>>, t)

UpdateTradeVolume(o, trade, t) == UpdateSums(o, <<trade.volume, 0>>, t)

UpdateVwap(o, trade, t) == UpdateSums(o, <<trade.price * trade.volume, trade.volume>>, t)

(* A trade whose side is not known is none of its business. *)
UpdateCvd(o, trade) ==
  IF trade.side = "None" THEN o ELSE UpdateDelta(o, trade.volume, trade.side)

(* What a feature does with a trade ... *)
Update(kind, o, trade, t) ==
  CASE kind = "count"      -> UpdateCount(o, trade, t)
    [] kind = "volume"     -> UpdateTradeVolume(o, trade, t)
    [] kind = "vwap"       -> UpdateVwap(o, trade, t)
    [] kind = "obv"        -> UpdateVolume(o, trade.price, trade.volume, t)
    [] kind = "sma"        -> UpdateAverage(o, trade.price, t)
    [] kind = "volatility" -> UpdateVolatility(o, trade.price, t)
    [] kind = "cvd"        -> UpdateCvd(o, trade)
    [] kind \in {"simple_return", "log_return"} -> UpdateReturns(o, trade.price)
    [] kind = "sample_volatility" -> UpdateSampleVolatility(o, trade.price)
    [] kind = "vpt"        -> UpdateTrend(o, trade.price, trade.volume)

(* ... and with the time of another event. *)
Observe(kind, o, t) ==
  CASE kind \in SumKinds    -> ObserveSums(o, t)
    [] kind = "obv"         -> ObserveVolume(o, t)
    [] kind = "sma"         -> ObserveAverage(o, t)
    [] kind = "volatility"  -> ObserveVolatility(o, t)
    [] kind \in SampleKinds -> o

(* value_at of a window. *)
Shown(kind, o, w) ==
  CASE kind \in {"count", "volume"} -> ShownSum(o.windows[w])
    [] kind = "vwap"                -> ShownPrice(o.windows[w])
    [] kind = "obv"                 -> ShownVolume(o.windows[w])
    [] kind = "sma"                 -> ShownAverage(o.windows[w])
    [] kind = "volatility"          -> ShownVolatility(o.windows[w])
    [] kind = "cvd"                 -> DeltaAt(o, w)
    [] kind = "simple_return"       -> ReturnAt(o, "Simple", w)
    [] kind = "log_return"          -> ReturnAt(o, "Log", w)
    [] kind = "sample_volatility"   -> SampleVolatilityAt(o, w)
    [] kind = "vpt"                 -> TrendValue(o)

Outputs(kind, o) == IF kind = "vpt" THEN {1} ELSE DOMAIN o.windows

(* write_outputs: a window that shows nothing is written as NaN. *)
Written(kind, o) == [w \in Outputs(kind, o) |-> Shown(kind, o, w)]

(* observe returns whether the time is new; if not, nothing is written, and *)
(* neither is a feature that only trades concern.                           *)
WrittenAt(kind, o, t) == kind \in TimedKinds /\ o.last # t

(* What concerns a feature at all. *)
Concerns(kind, trade) == kind = "cvd" => trade.side # "None"

-----------------------------------------------------------------------------
DerivationInit ==
  \E periods \in PeriodLists, policy \in WarmupPolicies :
    /\ \A k \in Kinds : Build(k, periods, policy) # Rejected
    /\ indicators = [k \in Kinds |-> Build(k, periods, policy)]
    /\ cells = [k \in Kinds |-> [w \in Outputs(k, Build(k, periods, policy)) |-> <<>>]]
    /\ log = <<>>
    /\ now = Never

(* update of the features for an event that is no trade. *)
PassTime(t) ==
  /\ now <= t
  /\ now' = t
  /\ indicators' = [k \in Kinds |-> Observe(k, indicators[k], t)]
  /\ cells' = [k \in Kinds |-> IF WrittenAt(k, indicators[k], t)
                                 THEN Written(k, indicators'[k]) ELSE cells[k]]
  /\ UNCHANGED log

(* update of the features for a trade. *)
RecordTrade(trade, t) ==
  /\ Len(log) < MaxTrades
  /\ now <= t
  /\ now' = t
  /\ indicators' = [k \in Kinds |-> Update(k, indicators[k], trade, t)]
  /\ cells' = [k \in Kinds |-> IF Concerns(k, trade)
                                 THEN Written(k, indicators'[k]) ELSE cells[k]]
  /\ log' = Append(log, [at |-> t, price |-> trade.price, volume |-> trade.volume,
                          side |-> trade.side])

DerivationNext ==
  \E t \in Times : PassTime(t) \/ \E trade \in Trades : RecordTrade(trade, t)

DerivationSpec == DerivationInit /\ [][DerivationNext]_derivationVars

-----------------------------------------------------------------------------
(* What the windows mean, by the log. *)

In(bucket) == {i \in DOMAIN log : BucketOf(log[i].at) = bucket}

Traded == {BucketOf(log[i].at) : i \in DOMAIN log}

Within(window) == {b \in Traded : ~ Leaves(b, window, now)}

Warm(o, window) ==
  /\ log # <<>>
  /\ o.policy = "FirstValue" \/ now - log[1].at >= window.duration

(* The cells of a feature are those of its warm windows with a meaning. *)
CellsAre(kind, Meaning(_)) ==
  LET o == indicators[kind]
  IN  \A w \in DOMAIN o.windows :
        cells[kind][w] = IF Warm(o, o.windows[w]) THEN Meaning(o.windows[w]) ELSE <<>>

SumIn(F(_), S) == SumFunctionOnSet([x \in S |-> F(x)], S)

Count(b) == Cardinality(In(b))

Price(i) == log[i].price

Volume(b) == SumIn(LAMBDA i : log[i].volume, In(b))

Notional(b) == SumIn(LAMBDA i : log[i].price * log[i].volume, In(b))

Close(b) == Price(Max(In(b)))

Direction(b) ==
  LET earlier == {c \in Traded : c < b}
  IN  IF earlier = {} THEN 0
      ELSE IF Close(b) > Close(Max(earlier)) THEN 1
      ELSE IF Close(b) < Close(Max(earlier)) THEN -1 ELSE 0

Balance(b) == Direction(b) * Volume(b)

BucketMean(b) == Mean(SumIn(Price, In(b)), Count(b))

(* The returns of a window: from each trade to the next one in the window, *)
(* the former of which may lie far before it.                              *)
ReturnsWithin(window) ==
  FoldSet(LAMBDA i, returns : returns (+) SetToBag({<<log[i - 1].price, log[i].price>>}),
          EmptyBag,
          {i \in 2 .. Len(log) : log[i - 1].price # 0 /\ BucketOf(log[i].at) \in Within(window)})

(* Counts, volumes and weighted prices shown are those of all that was     *)
(* traded within the window, with several windows over one evicting ring.  *)
SumsAreOfTrades ==
  /\ CellsAre("count", LAMBDA window : <<SumIn(Count, Within(window))>>)
  /\ CellsAre("volume", LAMBDA window : <<SumIn(Volume, Within(window))>>)
  /\ CellsAre("vwap", LAMBDA window :
       LET volume == SumIn(Volume, Within(window))
       IN  IF volume = 0 THEN <<>> ELSE << <<SumIn(Notional, Within(window)), volume>> >>)

(* Each on-balance volume shown is the balance of what was traded within   *)
(* its window, every bucket against the close of the bucket traded before  *)
(* it, however long ago that was and whatever the ring has evicted since.  *)
VolumesAreBalances ==
  CellsAre("obv", LAMBDA window : <<SumIn(Balance, Within(window))>>)

(* Each average shown is the mean of the bucket means within its window,   *)
(* and there is none in a window without trades.                           *)
AveragesAreMeansOfMeans ==
  CellsAre("sma", LAMBDA window :
    IF Within(window) = {} THEN <<>>
    ELSE << <<SumIn(BucketMean, Within(window)), Cardinality(Within(window))>> >>)

(* Each volatility shown is that of the returns made within its window, a  *)
(* return being counted where it ends, over gaps of any length.            *)
VolatilitiesAreOfReturns ==
  CellsAre("volatility", LAMBDA window :
    IF ReturnsWithin(window) = EmptyBag THEN <<>> ELSE <<ReturnsWithin(window)>>)

(* Of the samples of a window, the newest. *)
NewestOf(samples, period) ==
  SubSeq(samples, Max({1, Len(samples) - period + 1}), Len(samples))

Warmed(samples, period) ==
  samples # <<>> /\ (indicators["cvd"].policy = "FirstValue" \/ Len(samples) >= period)

SignedVolumes ==
  LET sided == SelectSeq(log, LAMBDA trade : trade.side # "None")
  IN  [i \in DOMAIN sided |-> SignedBy(sided[i].side, sided[i].volume)]

(* The steps from one trade to the next that have a relative change. *)
Steps ==
  SelectSeq([i \in 1 .. Len(log) - 1 |-> <<log[i + 1].volume, log[i].price, log[i + 1].price>>],
            LAMBDA step : step[2] # 0)

BagOf(seq) == FoldSeq(LAMBDA e, bag : bag (+) SetToBag({e}), EmptyBag, seq)

(* The features that count samples, the windows of which share one ring:    *)
(* volume deltas sum up the newest trades with a side, returns compare with *)
(* the trade a lag ago, volatilities are of the newest returns there are,   *)
(* and the trend is of all of them.                                         *)
SamplesAreOfTrades ==
  /\ \A w \in DOMAIN cells["cvd"] :
       LET period == indicators["cvd"].windows[w].period
       IN  cells["cvd"][w] =
             IF Warmed(SignedVolumes, period)
               THEN <<FoldSeq(LAMBDA v, sum : sum + v, 0, NewestOf(SignedVolumes, period))>> ELSE <<>>
  /\ \A w \in DOMAIN cells["simple_return"] :
       LET lag  == indicators["simple_return"].windows[w].period
           last == Len(log)
           pair == << <<log[last].price, log[last - lag].price>> >>
       IN  /\ cells["simple_return"][w] =
                IF last > lag /\ log[last - lag].price # 0 THEN pair ELSE <<>>
           /\ cells["log_return"][w] =
                IF last > lag /\ log[last - lag].price * log[last].price # 0 THEN pair ELSE <<>>
  /\ \A w \in DOMAIN cells["sample_volatility"] :
       LET period  == indicators["sample_volatility"].windows[w].period
           returns == [i \in DOMAIN Steps |-> Tail(Steps[i])]
       IN  cells["sample_volatility"][w] =
             IF Warmed(returns, period) THEN <<BagOf(NewestOf(returns, period))>> ELSE <<>>
  /\ cells["vpt"][1] = IF log = <<>> THEN <<>> ELSE <<BagOf(Steps)>>

=============================================================================
