------------------------------ MODULE MCPipeline ------------------------------
(***************************************************************************)
(* Two symbols and one context cell.  One graph has clocks, with timed     *)
(* outputs of a projection of both symbols and of a lag; the other has     *)
(* every stage that keeps or selects columns, and histories over them.     *)
(***************************************************************************)
EXTENDS BatchReplay

MCSymbols == {"a", "b"}

MCContext == {"rate"}

MCRawIds == <<"a", "b", "rate">>

MCReserved == {"__reserved_0"}

MCNever == -100

MCNormalTable == [p \in 1 .. 11 |-> p - 6]

MCTimes == {0, 2}

MCValues == {<<>>, <<1>>, <<3>>}

Node(parent, stage) == [parent |-> parent, stage |-> stage]

Scalar(definitions) == [kind |-> "Scalar", definitions |-> definitions]

Columns(kind, ids) == [kind |-> kind, outputs |-> ids]

Both == <<"a", "b">>

OverTime ==
  [nodes |->
     <<Node(0, [indices |-> <<1, 2>>] @@ Columns("Select", Both)),
       Node(1, [mean |-> <<1, 0>>, components |-> << <<1, 1>> >>, scale |-> <<1>>]
                 @@ Columns("Pca", <<"sum">>)),
       Node(2, Scalar(<<DefineTimedLag("sum", "change", "DeltaTimed", 1, Millisecond),
                        DefineTimedStatistic("sum", "highest", "Max", 2, 1, "FirstValue"),
                        DefineLag("sum", "before", "Lagged", 1)>>)),
       Node(3, Scalar(<<DefineState("before", "age", "TimeSincePositive", 0),
                        DefineTimedLag("before", "earlier", "LaggedTimed", 1, 1)>>)),
       Node(0, [input |-> "a", window |-> 2, warmup |-> "FirstValue"]
                 @@ Columns("RollingPathSignature", <<"t", "x", "tt", "tx", "xt", "xx">>)),
       Node(0, Scalar(<<DefineIdentity("rate", "rate"),
                        DefineLag("rate", "previous", "Lagged", 1)>>))>>,
   outputs |-> <<[name |-> "age", node |-> 4], [name |-> "path", node |-> 5]>>]

OverSamples ==
  [nodes |->
     <<Node(0, [retained |-> <<1, 2, 3>>, replacement |-> <<0, 2, 1>>, indicators |-> <<2>>]
                 @@ Columns("SimpleImpute", <<"a", "b", "rate", "missing">>)),
       Node(1, [indices |-> <<1, 2>>] @@ Columns("Select", Both)),
       Node(2, [scale |-> <<2, 1>>, min |-> <<-1, 0>>, clip |-> <<0, 2>>]
                 @@ Columns("MinMaxScale", Both)),
       Node(2, [method |-> "yeo-johnson", lambdas |-> <<1, 1>>, mean |-> <<1, 0>>,
                scale |-> <<1, 1>>] @@ Columns("PowerTransform", Both)),
       Node(3, [quantiles |-> << <<0, 0>>, <<1, 0>>, <<1, 0>>, <<3, 0>> >>,
                references |-> <<0, 4, 8, 12>>, allNan |-> <<2>>, threshold |-> 0,
                clip |-> <<>>] @@ Columns("QuantileTransform", Both)),
       Node(4, [mean |-> <<1, 1>>, scale |-> <<1, 1>>] @@ Columns("StandardScale", Both)),
       Node(0, Scalar(<<DefineLag("a", "change", "Delta", 1), DefineLag("b", "last", "Lagged", 1),
                        DefineAverage("a", "mean", "Sma", 2, "FirstValue"),
                        DefineState("b", "streak", "PositiveStreak", 0)>>)),
       Node(7, Scalar(<<DefineLag("change", "acceleration", "Delta", 1),
                        DefineStatistic("streak", "spread", "Range", 2, "FirstValue")>>)),
       Node(4, [quantiles |-> << <<0, 0>>, <<2, 1>> >>, references |-> <<0, 12>>,
                allNan |-> <<>>, threshold |-> 0, clip |-> <<-7, 7>>]
                 @@ Columns("QuantileTransform", Both)),
       Node(7, [retained |-> <<1, 2>>, replacement |-> <<2, 1>>, indicators |-> <<1>>]
                 @@ Columns("SimpleImpute", <<"change", "last", "missing">>)),
       Node(10, Scalar(<<DefineLag("change", "earlier", "Lagged", 1),
                         DefineIdentity("last", "copy")>>))>>,
   outputs |-> <<[name |-> "input", node |-> 5], [name |-> "raw", node |-> 0]>>]

(* Not built: no output, two of one name, a node before its parent, or a   *)
(* stage that does not fit the layout of its parent.                       *)
Unbuilt ==
  {[OverTime EXCEPT !.outputs = <<>>], [OverTime EXCEPT !.outputs[2].name = "age"],
   [OverTime EXCEPT !.nodes[1].parent = 1], [OverTime EXCEPT !.nodes[2].parent = 0],
   [OverSamples EXCEPT !.nodes[3].stage.clip = <<2, 0>>],
   [OverSamples EXCEPT !.nodes[5].stage.references[4] = 11]}

ASSUME UnbuiltIsInvalid == \A graph \in Unbuilt : Build(SpecOf(graph)) = InvalidPipeline

MCGraphs == {OverTime, OverSamples} \cup Unbuilt

(* Replays of a mixture of symbols with a context update, of an update its  *)
(* book rejects, and of a row that is late only because of a row before it. *)
Row(symbol, value, at) ==
  [event |-> [symbol |-> symbol, value |-> value, at |-> at, fails |-> FALSE], updates |-> <<>>]

Rate == "rate" :> <<3>>

MCBatches ==
  {<<Row("a", <<3>>, 2), [Row("b", <<1>>, 2) EXCEPT !.updates = Rate]>>,
   <<Row("b", <<1>>, 0),
     [Row("a", <<1>>, 2) EXCEPT !.updates = Rate, !.event.fails = TRUE], Row("a", <<3>>, 2)>>,
   <<Row("a", <<1>>, 2), Row("a", <<3>>, 0)>>}

=============================================================================
