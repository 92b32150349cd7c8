------------------------------ MODULE ScalarStage ------------------------------
(***************************************************************************)
(* A scalar stage and a path signature on two raw cells: a price that      *)
(* market events observe, and a rate that only context updates change.     *)
(* The pipeline refreshes them after each accepted event, whether it       *)
(* observes the price or not, and after each context update.               *)
(***************************************************************************)
EXTENDS Transformers

CONSTANTS
  DefinitionLists,  \* stages to start with
  Prices,           \* values of the price, <<v>> or <<>> when there is none
  Rates,            \* values of the rate
  Times,            \* timestamps
  MaxRefreshes,     \* bounds on the run, of a stage without clocks
  MaxTimed          \* and of one with clocks

VARIABLES
  definitions,  \* of the stage
  operations,   \* the stage's compiled operations
  signature,    \* a path signature of the price
  cells,        \* the raw values
  clock,        \* evaluation_timestamp of the price
  log           \* all refreshes

stageVars == <<definitions, operations, signature, cells, clock, log>>

Inputs == {"price", "rate"}

Timed == \E i \in DOMAIN definitions : NeedsClock(definitions[i])

StageInit ==
  /\ definitions \in {list \in DefinitionLists : ValidDefinitions(list, Inputs)}
  /\ operations = Compile(definitions)
  /\ signature = NewPathSignature(3, definitions[1].warmup)
  /\ cells = [price |-> <<>>, rate |-> <<>>]
  /\ clock = Never
  /\ log = <<>>

(* refresh.  Without a definition that needs them, no clock is kept. *)
Refresh(refreshed, at, observed, advance) ==
  LET In(input) == [value |-> refreshed[input], observed |-> observed /\ input = "price",
                    clock |-> IF Timed /\ input = "price" THEN at ELSE Never,
                    advance |-> advance]
  IN  /\ Len(log) < (IF Timed THEN MaxTimed ELSE MaxRefreshes)
      /\ operations' = ApplyAll(operations, In)
      /\ signature' = ApplyPathSignature(signature, refreshed.price, advance /\ observed)
      /\ cells' = refreshed
      /\ clock' = at
      /\ log' = Append(log, [price |-> refreshed.price, rate |-> refreshed.rate, at |-> at,
                             observed |-> observed, advance |-> advance])
      /\ UNCHANGED definitions

(* Where no clock is kept, time makes no difference. *)
Moments == IF Timed THEN {at \in Times : at >= clock} ELSE {0}

(* An event that observes the price. *)
ObservePrice(price, at) ==
  /\ at \in Moments
  /\ Refresh([cells EXCEPT !.price = price], at, TRUE, TRUE)

(* An event that does not: of another kind, at the price's time or later. *)
ObserveAnother(at) ==
  /\ at \in Moments
  /\ Refresh(cells, at, FALSE, TRUE)

ChangeContext(rate) ==
  /\ rate # cells.rate
  /\ Refresh([cells EXCEPT !.rate = rate], clock, FALSE, FALSE)

StageNext ==
  \/ \E price \in Prices, at \in Times : ObservePrice(price, at)
  \/ \E at \in Times : ObserveAnother(at)
  \/ \E rate \in Rates : ChangeContext(rate)

StageSpec == StageInit /\ [][StageNext]_stageVars

-----------------------------------------------------------------------------
(* What the outputs should be, from all refreshes so far. *)

Shown(slot) == OutputAt(operations, slot).value

Observations == SelectSeq(log, LAMBDA r : r.observed)

Finites == SelectSeq(Observations, LAMBDA r : Finite(r.price))

FinitePrices == [i \in DOMAIN Finites |-> Finites[i].price[1]]

(* The last observation of the price is a number. *)
Present == Observations # <<>> /\ Finite(Last(Observations).price)

LastOf(s, n) == SubSeq(s, Max({1, Len(s) - n + 1}), Len(s))

Warm(d) == Len(Finites) >= d.window \/ d.warmup = "FirstValue"

Add(F(_), S) == FoldSet(LAMBDA i, sum : F(i) + sum, 0, S)

Steps(s) == [i \in 1 .. Len(s) - 1 |-> s[i + 1] - s[i]]

Rises(s) == SelectSeq(Steps(s), LAMBDA step : step > 0)

Falls(s) == SelectSeq(Steps(s), LAMBDA step : step < 0)

Turns(s) ==
  LET moves == SelectSeq(Steps(s), LAMBDA step : step # 0)
  IN  Cardinality({i \in 1 .. Len(moves) - 1 : (moves[i] > 0) # (moves[i + 1] > 0)})

SumOf(s) == Add(LAMBDA i : s[i], DOMAIN s)

(* A summary of some values, straight from its definition. *)
SummaryOf(kind, s) ==
  LET n == Len(s)
  IN  IF n = 0 \/ (kind = "Slope" /\ n < 2) THEN <<>>
      ELSE CASE kind = "Min"   -> <<Min(ToSet(s))>>
             [] kind = "Max"   -> <<Max(ToSet(s))>>
             [] kind = "Range" -> <<Max(ToSet(s)) - Min(ToSet(s))>>
             [] kind = "Std"   ->
                  LET squares == Add(LAMBDA i : s[i] * s[i], 1 .. n)
                  IN  <<(Scale * Scale * (n * squares - SumOf(s) * SumOf(s))) \div n, n>>
             [] kind = "Slope" ->
                  <<Scale * Add(LAMBDA i : (2 * i - (n + 1)) * s[i], 1 .. n), n>>
             [] kind = "PathLength"       -> <<SumOf(Rises(s)) - SumOf(Falls(s))>>
             [] kind = "PositiveMovement" -> <<SumOf(Rises(s))>>
             [] kind = "NegativeMovement" -> <<- SumOf(Falls(s))>>
             [] kind = "DirectionChangeCount" -> <<Turns(s)>>
             [] kind = "MaxDrawdown" ->
                  <<Max({Max(ToSet(SubSeq(s, 1, i))) - s[i] : i \in 1 .. n})>>

(* Twice the iterated integrals of a path through values one step apart. *)
PathOf(s) ==
  LET steps  == [i \in 1 .. Len(s) - 1 |-> <<1, s[i + 1] - s[i]>>]
      Area(a, b) == Add(LAMBDA j : steps[j][a] * steps[j][b]
                                     + 2 * Add(LAMBDA i : steps[i][a], 1 .. j - 1) * steps[j][b],
                        DOMAIN steps)
      change == s[Len(s)] - s[1]
  IN  <<Len(s) - 1, change, Area(1, 1), Area(1, 2), Area(2, 1), change * change>>

-----------------------------------------------------------------------------
(* Properties. *)

(* Rolling summaries are those of the newest finite observations of their  *)
(* input, in the order they came, wherever they lie in the circular tree   *)
(* and whatever other windows it serves; while the last observation is not *)
(* a number, or too few were, there are none.                              *)
SummariesAreOfNewest ==
  /\ \A i \in DOMAIN definitions :
       LET d == definitions[i]
       IN  d.kind \in StatisticKinds \cup TrajectoryKinds /\ ~ IsTimed(d) =>
             Shown(i) = IF Present /\ Warm(d)
                          THEN SummaryOf(d.kind, LastOf(FinitePrices, d.window)) ELSE <<>>
  /\ signature.visible =
       IF Present /\ Warm(signature) THEN PathOf(LastOf(FinitePrices, signature.window)) ELSE <<>>

Advances == SelectSeq(log, LAMBDA r : r.advance)

(* A lag counts events back, all of them; a change counts finite values.   *)
LagOf(d) ==
  IF Len(Advances) > d.window THEN Advances[Len(Advances) - d.window][d.input] ELSE <<>>

ChangeOf(d) ==
  IF Present /\ Len(Finites) > d.window
    THEN Change(d.kind, Last(FinitePrices), FinitePrices[Len(Finites) - d.window])
    ELSE <<>>

MeanOf(d) ==
  IF Present /\ Warm(d)
    THEN LET s == LastOf(FinitePrices, d.window) IN << SumOf(s), Len(s) >>
    ELSE <<>>

(* The first value and, doubled, each later one, faded by those after it.  *)
ExponentialOf(d) ==
  LET n == Len(FinitePrices)
      Weight(i) == (d.window - 1) ^ (n - i) * (IF i = 1 THEN 1 ELSE 2 * (d.window + 1) ^ (i - 2))
  IN  IF Present /\ Warm(d)
        THEN << Add(LAMBDA i : Weight(i) * FinitePrices[i], 1 .. n), (d.window + 1) ^ (n - 1) >>
        ELSE <<>>

Matching(d) == {i \in DOMAIN FinitePrices : Matches(d.kind, FinitePrices[i], d.parameter)}

CountOf(d) ==
  LET n == Len(Finites)
      others == DOMAIN FinitePrices \ Matching(d)
  IN  IF ~ Present THEN <<>>
      ELSE IF d.kind \in StreakKinds
        THEN << Min({n - (IF others = {} THEN 0 ELSE Max(others)), MaxCount}) >>
      ELSE IF Matching(d) = {} THEN <<>> ELSE << Min({n - Max(Matching(d)), MaxCount}) >>

(* Lags, changes, averages and counts are each of what their own definition *)
(* says, although definitions share histories: the event that many events   *)
(* back, the finite value that many values back, the window's mean with its *)
(* own warmup, the values since the last match.                             *)
OutputsAreOfOwnDefinition ==
  \A i \in DOMAIN definitions :
    LET d == definitions[i]
    IN  /\ d.kind = "Lagged" => Shown(i) = LagOf(d)
        /\ d.kind \in ChangeKinds => Shown(i) = ChangeOf(d)
        /\ d.kind = "Sma" => Shown(i) = MeanOf(d)
        /\ d.kind = "Ema" => Shown(i) = ExponentialOf(d)
        /\ d.kind \in StreakKinds \cup SinceKinds => Shown(i) = CountOf(d)

(* The finite observations of the buckets a timed window still covers. *)
Covered(d) ==
  LET live == SelectSeq(Finites, LAMBDA r :
                (r.at \div d.aggregation) * d.aggregation + d.window > clock)
  IN  [i \in DOMAIN live |-> live[i].price[1]]

(* The last value of the last bucket whose last value is a lag old. *)
SeenBefore(d) ==
  LET bucket(i) == Finites[i].at \div d.aggregation
      old == {i \in DOMAIN Finites :
                /\ Finites[i].at <= clock - d.window
                /\ \A j \in i + 1 .. Len(Finites) : bucket(j) > bucket(i)}
  IN  IF old = {} THEN <<>> ELSE << FinitePrices[Max(old)] >>

TimedLagOf(d) ==
  LET seen == SeenBefore(d)
  IN  IF seen = <<>> \/ d.kind = "LaggedTimed" THEN seen
      ELSE Change(d.kind, Last(FinitePrices), seen[1])

(* Outputs over time are as of the clock of their input, which events that *)
(* do not observe it move too: windows expire, lags reach later values and *)
(* ages grow without a new observation.                                    *)
TimedOutputsAreOfClock ==
  \A i \in DOMAIN definitions :
    LET d == definitions[i]
    IN  /\ d.kind \in StatisticKinds /\ IsTimed(d) =>
             Shown(i) = IF /\ Present
                           /\ d.warmup = "FirstValue" \/ clock - Finites[1].at >= d.window
                          THEN SummaryOf(d.kind, Covered(d)) ELSE <<>>
        /\ d.kind \in TimedLagKinds => Shown(i) = IF Present THEN TimedLagOf(d) ELSE <<>>
        /\ d.kind \in AgeKinds =>
             Shown(i) = IF Present /\ Matching(d) # {}
                          THEN <<clock - Finites[Max(Matching(d))].at>> ELSE <<>>

=============================================================================
