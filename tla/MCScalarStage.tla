---------------------------- MODULE MCScalarStage ----------------------------
(***************************************************************************)
(* Stages over samples, whose longest windows are of three values in a     *)
(* tree of four leaves and wrap around them, and stages over time, whose   *)
(* windows are of one bucket and of two or three.  Definitions that could  *)
(* share a history differ in window, warmup or kind.                       *)
(***************************************************************************)
EXTENDS ScalarStage

(* Outputs are numbered once the lists are joined. *)
Each(kinds, Define(_)) == [i \in DOMAIN kinds |-> Define(kinds[i])]

Statistics(kinds, window, warmup) ==
  Each(kinds, LAMBDA kind : DefineStatistic("price", 0, kind, window, warmup))

Trajectories(kinds, window, warmup) ==
  Each(kinds, LAMBDA kind : DefineTrajectory("price", 0, kind, window, warmup))

Averages(kinds, window, warmup) ==
  Each(kinds, LAMBDA kind : DefineAverage("price", 0, kind, window, warmup))

Lags(input, kinds, window) == Each(kinds, LAMBDA kind : DefineLag(input, 0, kind, window))

TimedStatistics(kinds, window, aggregation, warmup) ==
  Each(kinds, LAMBDA kind : DefineTimedStatistic("price", 0, kind, window, aggregation, warmup))

TimedLags(kinds, window, aggregation) ==
  Each(kinds, LAMBDA kind : DefineTimedLag("price", 0, kind, window, aggregation))

States(kinds, epsilon) == Each(kinds, LAMBDA kind : DefineState("price", 0, kind, epsilon))

Numbered(list) == [i \in DOMAIN list |-> [list[i] EXCEPT !.output = i]]

Summaries ==
  Statistics(<<"Std", "Min", "Max", "Range">>, 3, "FullWindow")
    \o Statistics(<<"Min", "Std">>, 2, "FirstValue")
    \o Trajectories(<<"Slope", "PathLength", "DirectionChangeCount", "MaxDrawdown">>, 3,
                    "FullWindow")
    \o Trajectories(<<"Slope", "PositiveMovement", "NegativeMovement">>, 2, "FirstValue")

Changes ==
  Lags("price", <<"Lagged", "Delta">>, 3)
    \o Lags("price", <<"Lagged", "Delta", "SimpleReturn", "LogReturn">>, 1)
    \o Lags("rate", <<"Lagged">>, 2)
    \o Averages(<<"Sma", "Ema">>, 3, "FullWindow") \o Averages(<<"Sma">>, 1, "FullWindow")
    \o Averages(<<"Sma", "Ema">>, 2, "FirstValue")
    \o <<DefineIdentity("rate", 0), DefineScale("price", 0, 1, 2)>>
    \o States(<<"PositiveStreak", "ObservationsSincePositive", "ObservationsSinceNonzero">>, 1)
    \o States(<<"NegativeStreak", "ObservationsSinceNegative">>, 0)

InTime ==
  TimedStatistics(<<"Max">>, 2, 2, "FullWindow")
    \o TimedStatistics(<<"Min", "Std">>, 2, 2, "FirstValue")
    \o TimedStatistics(<<"Range">>, 3, Millisecond, "FirstValue")
    \o TimedLags(<<"DeltaTimed", "LaggedTimed">>, 2, 2)
    \o TimedLags(<<"SimpleReturnTimed", "LaggedTimed">>, 3, Millisecond)
    \o States(<<"TimeSincePositive", "TimeSinceNegative", "TimeSinceNonzero">>, 0)

MCDefinitionLists ==
  {Numbered(Summaries), Numbered(Changes), Numbered(InTime),
   \* not valid: a lag of nothing, and a window of no whole buckets
   Numbered(Lags("price", <<"Lagged">>, 0)), Numbered(TimedLags(<<"DeltaTimed">>, 3, 2))}

MCPrices == {<<-1>>, <<0>>, <<2>>, <<>>}

MCRates == {<<1>>, <<>>}

MCTimes == {-1, 0, 1, 2, 4}

MCNever == -100

=============================================================================
