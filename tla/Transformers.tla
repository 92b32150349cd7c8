----------------------------- MODULE Transformers -----------------------------
(***************************************************************************)
(* Scalar transformers (features/transformers): their definitions, the     *)
(* checks on them, how definitions that can share a history are compiled   *)
(* into one operation, and what each operation does in a refresh.          *)
(*                                                                         *)
(* A definition is a record of its input, its kind, a window or lag, and   *)
(* the warmup, aggregation or parameter its kind has.  Outputs are         *)
(* numbered like the definitions.  A value is <<v>>, or <<>> for NaN and   *)
(* the infinities; what is computed by a division or a logarithm is the    *)
(* tuple of its operands.                                                  *)
(***************************************************************************)
EXTENDS SampleIndicators, SummaryTree

CONSTANTS
  MaxLag,    \* WINDOW_MAX_SIZE
  MaxCount,  \* MAX_COUNT, beyond which an f64 does not count
  Never      \* Option::None of a clock, before all timestamps

ASSUME TransformerParameters == MaxLag \in Nat /\ MaxCount \in Nat \ {0}

ChangeKinds == {"Delta", "SimpleReturn", "LogReturn"}

TimedLagKinds == {"LaggedTimed", "DeltaTimed", "SimpleReturnTimed", "LogReturnTimed"}

AverageKinds == {"Sma", "Ema"}

StatisticKinds == {"Std", "Min", "Max", "Range"}

TrajectoryKinds == {"Slope", "PathLength", "PositiveMovement", "NegativeMovement",
                    "DirectionChangeCount", "MaxDrawdown"}

StreakKinds == {"PositiveStreak", "NegativeStreak"}

SinceKinds == {"ObservationsSincePositive", "ObservationsSinceNegative",
               "ObservationsSinceNonzero"}

AgeKinds == {"TimeSincePositive", "TimeSinceNegative", "TimeSinceNonzero"}

StateKinds == StreakKinds \cup SinceKinds \cup AgeKinds

(* TransformerOperation *)
ScalarKinds ==
  {"Identity", "StandardScale", "Lagged"} \cup ChangeKinds \cup AverageKinds
    \cup TrajectoryKinds \cup StatisticKinds \cup TimedLagKinds \cup StateKinds

Finite(value) == value # <<>>

-----------------------------------------------------------------------------
(* Definitions. *)

Definition(input, output, kind) ==
  [input |-> input, output |-> output, kind |-> kind, window |-> 0, warmup |-> "FullWindow",
   aggregation |-> Never, parameter |-> 0, scale |-> 1]

DefineState(input, output, kind, epsilon) ==
  [Definition(input, output, kind) EXCEPT !.parameter = epsilon]

DefineTrajectory(input, output, kind, window, warmup) ==
  [Definition(input, output, kind) EXCEPT !.window = window, !.warmup = warmup]

DefineStatistic(input, output, kind, window, warmup) ==
  [Definition(input, output, kind) EXCEPT !.window = window, !.warmup = warmup]

(* The timed kinds for which no aggregation is given take one millisecond. *)
Millisecond == 1

DefineTimedStatistic(input, output, kind, window, aggregation, warmup) ==
  [DefineStatistic(input, output, kind, window, warmup) EXCEPT !.aggregation = aggregation]

DefineTimedLag(input, output, kind, window, aggregation) ==
  [Definition(input, output, kind) EXCEPT !.window = window, !.aggregation = aggregation]

DefineAverage(input, output, kind, window, warmup) ==
  [Definition(input, output, kind) EXCEPT !.window = window, !.warmup = warmup]

DefineLag(input, output, kind, window) ==
  [Definition(input, output, kind) EXCEPT !.window = window]

DefineIdentity(input, output) == Definition(input, output, "Identity")

DefineScale(input, output, mean, scale) ==
  [Definition(input, output, "StandardScale") EXCEPT !.parameter = mean, !.scale = scale]

-----------------------------------------------------------------------------
(* Validation. *)

IsTimed(d) ==
  d.kind \in TimedLagKinds \/ (d.kind \in StatisticKinds /\ d.aggregation # Never)

(* needs_clock *)
NeedsClock(d) == IsTimed(d) \/ d.kind \in AgeKinds

AverageKey(d) == <<d.kind, d.input, d.warmup>>

(* validate of a definition.  What f64 and memory alone need is left out:  *)
(* that a mean and the inverse of a scale are finite, and the limits of a   *)
(* million slots in a history and of what a summary tree can index.         *)
ValidDefinition(d) ==
  /\ d.kind \in StateKinds => d.parameter >= 0
  /\ d.kind \in StatisticKinds \cup TrajectoryKinds \cup AverageKinds => d.window > 0
  /\ IsTimed(d) => /\ d.aggregation > 0 /\ d.window > 0
                   /\ d.window % d.aggregation = 0
  /\ d.kind \in ChangeKinds \cup {"Lagged"} => d.window \in 1 .. MaxLag
  /\ d.kind = "StandardScale" => d.scale > 0

(* validate of a stage: known inputs, unique outputs, and no more averages  *)
(* of a calculator than it has windows.  That outputs are not reserved is   *)
(* asked by ValidStage.                                                     *)
ValidDefinitions(definitions, inputs) ==
  \A i \in DOMAIN definitions :
    /\ definitions[i].input \in inputs
    /\ \A j \in 1 .. i - 1 : definitions[j].output # definitions[i].output
    /\ ValidDefinition(definitions[i])
    /\ definitions[i].kind \in AverageKinds =>
         Cardinality({j \in 1 .. i : /\ definitions[j].kind \in AverageKinds
                                     /\ AverageKey(definitions[j]) = AverageKey(definitions[i])})
           <= MaxWindows

-----------------------------------------------------------------------------
(* Compilation: the definitions of one key make one operation. *)

(* Faulty variant: averages are shared whatever their warmup is. *)
SharedKey(d, slot) ==
  IF d.kind \in AverageKinds THEN <<"Average", d.input, d.kind>>
  ELSE <<"Other", d.input, slot>>

Key(d, slot) ==
  CASE d.kind = "Lagged"           -> <<"Lagged", d.input>>
    [] d.kind \in AverageKinds     -> <<"Average", d.input, d.kind, d.warmup>>
    [] d.kind \in ChangeKinds      -> <<"Change", d.input>>
    [] d.kind \in TimedLagKinds    -> <<"Timed", d.input, d.aggregation>>
    [] d.kind \in TrajectoryKinds  -> <<"Trajectory", d.input>>
    [] d.kind \in StatisticKinds   -> <<"Statistics", d.input, d.aggregation>>
    [] d.kind \in StateKinds       -> <<"State", d.input, slot>>
    [] d.kind \in {"Identity", "StandardScale"} -> <<d.kind, d.input, slot>>

Longest(outputs) == Max({outputs[i].window : i \in DOMAIN outputs})

(* What every operation starts with, and what its history is. *)
Operation(outputs, history) ==
  [outputs |-> outputs, input |-> outputs[1].input, history |-> history,
   visible |-> [i \in DOMAIN outputs |-> <<>>],  \* NaN
   marked  |-> FALSE,                            \* output_observed
   clock   |-> Never, first |-> Never, finite |-> FALSE]

NewLagged(outputs) == Operation(outputs, NewRing(Longest(outputs)))

NewChange(outputs) == Operation(outputs, NewRing(Longest(outputs)))

Windows(outputs) == [i \in DOMAIN outputs |-> outputs[i].window]

NewAverage(outputs) ==
  Operation(outputs, IF outputs[1].kind = "Ema"
                       THEN BuildExponential(Windows(outputs), outputs[1].warmup)
                       ELSE BuildMovingAverage(Windows(outputs), outputs[1].warmup))

NewTrajectory(outputs) == Operation(outputs, NewHistory("Trajectory", Longest(outputs)))

(* capacity: a slot for each bucket of the longest window, and two. *)
StatisticsCapacity(window, aggregation) ==
  IF aggregation = Never THEN window ELSE window \div aggregation + 2

NewStatistics(outputs) ==
  LET capacity == StatisticsCapacity(Longest(outputs), outputs[1].aggregation)
  IN  Operation(outputs, [tree |-> NewHistory("Statistics", capacity), buckets |-> NewRing(capacity)])

(* A count starts at zero, or at NaN if it counts since a match. *)
NewState(outputs) ==
  Operation(outputs, [count |-> IF outputs[1].kind \in StreakKinds THEN <<0>> ELSE <<>>,
                      lastMatch |-> Never])

(* A timed lag, with all it observed as its history: TimedLag shows that    *)
(* the bounded ring of timed.rs looks up the same.                          *)
NewTimed(outputs) == Operation(outputs, <<>>)

NewOperation(outputs) ==
  LET kind == outputs[1].kind
  IN  CASE kind = "Lagged"          -> NewLagged(outputs)
        [] kind \in AverageKinds    -> NewAverage(outputs)
        [] kind \in ChangeKinds     -> NewChange(outputs)
        [] kind \in TimedLagKinds   -> NewTimed(outputs)
        [] kind \in TrajectoryKinds -> NewTrajectory(outputs)
        [] kind \in StatisticKinds  -> NewStatistics(outputs)
        [] kind \in StateKinds      -> NewState(outputs)
        [] kind \in {"Identity", "StandardScale"} -> Operation(outputs, <<>>)

(* What an operation keeps of a definition; a slot is its position. *)
OutputOf(definitions, slot) ==
  LET d == definitions[slot]
  IN  [input |-> d.input, kind |-> d.kind, window |-> d.window, warmup |-> d.warmup,
       aggregation |-> d.aggregation, parameter |-> d.parameter, scale |-> d.scale, slot |-> slot]

(* The outputs of the definitions of a key, in their order. *)
OutputsOf(definitions, key) ==
  LET Collect(outputs, slot) ==
        IF Key(definitions[slot], slot) = key
          THEN Append(outputs, OutputOf(definitions, slot)) ELSE outputs
  IN  FoldLeftDomain(Collect, <<>>, definitions)

(* compile *)
Compile(definitions) ==
  {NewOperation(OutputsOf(definitions, Key(definitions[slot], slot))) :
     slot \in DOMAIN definitions}

-----------------------------------------------------------------------------
(* Execution.  `in' is what a refresh gives an operation of its input:      *)
(* [value, observed, clock, advance].                                       *)

Show(op, refreshed, Value(_)) ==
  [op EXCEPT !.marked = refreshed,
             !.visible = IF refreshed THEN [i \in DOMAIN @ |-> Value(op.outputs[i])] ELSE @]

NotANumber(output) == <<>>

(* IdentityTransformer and StandardScaleTransformer write in every refresh. *)
ApplyIdentity(op, in) ==
  [op EXCEPT !.visible = <<in.value>>, !.marked = in.observed]

ApplyScale(op, in) ==
  [op EXCEPT !.visible = << IF Finite(in.value)
                              THEN <<in.value[1] - op.outputs[1].parameter, op.outputs[1].scale>>
                              ELSE <<>> >>,
             !.marked = in.observed]

(* LaggedFeature: looks back over events, whether they observe its input or *)
(* not, and writes what it looks up before it remembers the current one.    *)
ApplyLagged(op, in) ==
  IF ~ in.advance THEN [op EXCEPT !.marked = FALSE]
  ELSE [op EXCEPT !.history = PushBack(@, in.value), !.marked = TRUE,
                  !.visible = [i \in DOMAIN @ |->
                    LET seen == PeekBackAt(op.history, op.outputs[i].window - 1)
                    IN  IF seen = <<>> THEN @[i] ELSE seen[1]]]

(* calculate *)
Change(kind, current, previous) ==
  CASE kind \in {"Delta", "DeltaTimed"} -> <<current - previous>>
    [] kind \in {"SimpleReturn", "SimpleReturnTimed"} ->
         IF previous # 0 THEN <<current, previous>> ELSE <<>>
    [] kind \in {"LogReturn", "LogReturnTimed"} ->
         IF current > 0 /\ previous > 0 THEN <<current, previous>> ELSE <<>>

ApplyChange(op, in) ==
  LET Value(output) ==
        LET previous == PeekBackAt(op.history, output.window - 1)
        IN  IF previous = <<>> THEN <<>> ELSE Change(output.kind, in.value[1], previous[1])
  IN  IF in.observed /\ Finite(in.value)
        THEN [Show(op, TRUE, Value) EXCEPT !.history = PushBack(@, in.value[1])]
        ELSE Show(op, in.observed, NotANumber)

ApplyAverage(op, in) ==
  LET updated == IF op.outputs[1].kind = "Ema" THEN UpdateExponential(op.history, in.value[1])
                 ELSE UpdateMovingAverage(op.history, in.value[1])
      At(i)   == IF op.outputs[1].kind = "Ema" THEN ExponentialAt(updated, i)
                 ELSE MovingAverageAt(updated, i)
      Shown(i) == IF At(i) = <<>> THEN <<>> ELSE At(i)[1]
  IN  IF in.observed /\ Finite(in.value)
        THEN [op EXCEPT !.history = updated, !.marked = TRUE,
                        !.visible = [i \in DOMAIN @ |-> Shown(i)]]
        ELSE Show(op, in.observed, NotANumber)

(* Faulty variant: time passes only with observations. *)
ObservedInTime(op, in) == in.advance /\ in.clock # Never /\ in.observed

(* Whether an operation on the clock of its input has anything to do. *)
TimeRefreshed(op, in) ==
  in.advance /\ in.clock # Never /\ (in.observed \/ in.clock > op.clock)

ApplyTrajectory(op, in) ==
  LET finite  == Finite(in.value)
      history == IF in.observed /\ finite
                   THEN Push(op.history, TrajectoryOf(in.value[1]), FALSE)
                   ELSE op.history
      Value(output) ==
        IF finite /\ (history.len >= output.window \/ output.warmup = "FirstValue")
          THEN Measurement(Newest(history, Min({history.len, output.window})),
                           output.kind)
          ELSE <<>>
  IN  [Show(op, in.observed, Value) EXCEPT !.history = history]

(* A finite observation of a sample history or of a bucket of a timed one. *)
Summarized(history, aggregation, in) ==
  LET timed  == aggregation # Never
      bucket == IF timed THEN in.clock \div aggregation ELSE 0
      same   == timed /\ PeekBack(history.buckets) = <<bucket>>
  IN  [tree |-> Push(history.tree, StatisticsOf(in.value[1]), same),
       buckets |-> IF timed /\ ~ same THEN PushBack(history.buckets, bucket)
                   ELSE history.buckets]

(* Of a window, how many slots are in it and whether it is warm.  The code  *)
(* finds the first bucket that has not expired by bisection.                *)
InWindow(history, first, output, clock) ==
  LET buckets == Items(history.buckets)
      live    == {i \in DOMAIN buckets :
                    buckets[i] * output.aggregation + output.window > clock}
  IN  IF output.aggregation = Never
        THEN [count |-> Min({history.tree.len, output.window}),
              ready |-> history.tree.len >= output.window]
        ELSE [count |-> Cardinality(live),
              ready |-> first # Never /\ clock - first >= output.window]

ApplyStatistics(op, in) ==
  LET aggregation == op.outputs[1].aggregation
      refreshed == IF aggregation # Never THEN TimeRefreshed(op, in) ELSE in.observed
      seen      == in.observed /\ Finite(in.value)
      history   == IF seen THEN Summarized(op.history, aggregation, in) ELSE op.history
      first     == IF seen /\ op.first = Never THEN in.clock ELSE op.first
      finite    == IF in.observed THEN Finite(in.value) ELSE op.finite
      Value(output) ==
        LET window == InWindow(history, first, output, in.clock)
        IN  IF finite /\ (window.ready \/ output.warmup = "FirstValue")
              THEN Statistic(Newest(history.tree, window.count), output.kind)
              ELSE <<>>
  IN  IF refreshed THEN [Show(op, TRUE, Value) EXCEPT !.history = history, !.first = first,
                                                      !.clock = in.clock, !.finite = finite]
      ELSE [op EXCEPT !.marked = FALSE]

(* TimedTransformer: the newest bucket-last observation that a lag reaches. *)
AsOf(history, aggregation, cutoff) ==
  LET LastOfBucket(i) ==
        \A j \in i + 1 .. Len(history) :
          history[i].at \div aggregation # history[j].at \div aggregation
      before == {i \in DOMAIN history : LastOfBucket(i) /\ history[i].at <= cutoff}
  IN  IF before = {} THEN <<>> ELSE <<history[Max(before)].value>>

ApplyTimed(op, in) ==
  LET history == IF in.observed /\ Finite(in.value)
                   THEN Append(op.history, [at |-> in.clock, value |-> in.value[1]])
                   ELSE op.history
      finite  == IF in.observed THEN Finite(in.value) ELSE op.finite
      Value(output) ==
        LET seen == AsOf(history, output.aggregation, in.clock - output.window)
        IN  IF ~ finite \/ seen = <<>> THEN <<>>
            ELSE IF output.kind = "LaggedTimed" THEN seen
            ELSE Change(output.kind, history[Len(history)].value, seen[1])
  IN  IF TimeRefreshed(op, in)
        THEN [Show(op, TRUE, Value) EXCEPT !.history = history, !.clock = in.clock,
                                           !.finite = finite]
        ELSE [op EXCEPT !.marked = FALSE]

(* matches, outside the interval from -epsilon to epsilon. *)
Matches(kind, value, epsilon) ==
  CASE kind \in {"PositiveStreak", "ObservationsSincePositive", "TimeSincePositive"} ->
         value > epsilon
    [] kind \in {"NegativeStreak", "ObservationsSinceNegative", "TimeSinceNegative"} ->
         value < -epsilon
    [] kind \in {"ObservationsSinceNonzero", "TimeSinceNonzero"} ->
         value > epsilon \/ value < -epsilon

(* The count after an observation; it saturates, and NaN stays what it is. *)
CountAfter(kind, count, matches) ==
  CASE matches /\ kind \in StreakKinds   -> <<Min({count[1] + 1, MaxCount})>>
    [] matches /\ kind \in SinceKinds    -> <<0>>
    [] ~ matches /\ kind \in StreakKinds -> <<0>>
    [] ~ matches /\ kind \in SinceKinds  ->
         IF count # <<>> /\ count[1] < MaxCount THEN <<count[1] + 1>> ELSE count

ApplyCount(op, in, output) ==
  LET matches == Matches(output.kind, in.value[1], output.parameter)
      count   == CountAfter(output.kind, op.history.count, matches)
  IN  IF in.observed /\ Finite(in.value)
        THEN [op EXCEPT !.history.count = count, !.visible = <<count>>, !.marked = TRUE]
        ELSE Show(op, in.observed, NotANumber)

ApplyAge(op, in, output) ==
  LET finite    == IF in.observed THEN Finite(in.value) ELSE op.finite
      lastMatch == IF /\ in.observed /\ Finite(in.value)
                      /\ Matches(output.kind, in.value[1], output.parameter)
                     THEN in.clock ELSE op.history.lastMatch
      age       == IF finite /\ lastMatch # Never THEN <<in.clock - lastMatch>> ELSE <<>>
  IN  IF TimeRefreshed(op, in)
        THEN [op EXCEPT !.clock = in.clock, !.finite = finite, !.history.lastMatch = lastMatch,
                        !.visible = <<age>>, !.marked = TRUE]
        ELSE [op EXCEPT !.marked = FALSE]

Apply(op, in) ==
  LET output == op.outputs[1]
      kind   == output.kind
  IN  CASE kind = "Identity"        -> ApplyIdentity(op, in)
        [] kind = "StandardScale"   -> ApplyScale(op, in)
        [] kind = "Lagged"          -> ApplyLagged(op, in)
        [] kind \in ChangeKinds     -> ApplyChange(op, in)
        [] kind \in AverageKinds    -> ApplyAverage(op, in)
        [] kind \in TrajectoryKinds -> ApplyTrajectory(op, in)
        [] kind \in StatisticKinds  -> ApplyStatistics(op, in)
        [] kind \in TimedLagKinds   -> ApplyTimed(op, in)
        [] kind \in AgeKinds        -> ApplyAge(op, in, output)
        [] kind \in StreakKinds \cup SinceKinds -> ApplyCount(op, in, output)

(* The operations of a stage are independent; each slot has its own. *)
ApplyAll(operations, In(_)) == {Apply(op, In(op.input)) : op \in operations}

(* What an output cell shows, and whether it was refreshed. *)
OutputAt(operations, slot) ==
  CHOOSE output \in UNION {{[value |-> op.visible[i], observed |-> op.marked] :
                              i \in {j \in DOMAIN op.outputs : op.outputs[j].slot = slot}} :
                            op \in operations} : TRUE

(* inherit_clocks: lags over events follow all events, others their input. *)
InheritedClock(d, ClockAt(_), global) ==
  IF d.kind = "Lagged" THEN global ELSE ClockAt(d.input)

-----------------------------------------------------------------------------
(* PathSignature, a stage of its own. *)

NewPathSignature(window, warmup) ==
  [window |-> window, warmup |-> warmup, history |-> NewHistory("Signature", window), visible |-> <<>>]

ApplyPathSignature(op, value, observed) ==
  LET history == IF observed /\ Finite(value)
                   THEN Push(op.history, SignatureOf(value[1]), FALSE)
                   ELSE op.history
      ready   == Finite(value) /\ (history.len = history.capacity \/ op.warmup = "FirstValue")
      visible == IF ready THEN Coordinates(Newest(history, history.len)) ELSE <<>>
  IN  [op EXCEPT !.history = history, !.visible = IF observed THEN visible ELSE @]

=============================================================================
