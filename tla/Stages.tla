-------------------------------- MODULE Stages --------------------------------
(***************************************************************************)
(* The stages of a pipeline (features/pipeline/stages.rs): what makes a    *)
(* fitted stage valid for the layout of its parent, how it is compiled,    *)
(* and what a node does in a refresh.                                      *)
(*                                                                         *)
(* A layout is a sequence of feature ids.  A stage is a record with its    *)
(* kind, its outputs and the parameters of the kind; columns count from    *)
(* one.  Fitted numbers are such that quotients are whole, and             *)
(* probabilities are in units of 1/Unit.                                   *)
(*                                                                         *)
(* A value that is no number is <<>>.  The code's stages let infinities    *)
(* pass where they ask for NaN alone (imputation, min-max, quantiles and   *)
(* powers); integers do not overflow, so that no infinity arises here.     *)
(***************************************************************************)
EXTENDS Transformers

CONSTANTS
  Reserved,     \* ids that begin with __reserved_
  Unit,         \* the probability one
  NormalTable   \* the quantile of the normal distribution, increasing

(* The stages that keep the layout of their parent. *)
ColumnKinds == {"StandardScale", "MinMaxScale", "PowerTransform", "QuantileTransform"}

(* A Vec. *)
IsVector(s) == s \in Seq(ToSet(s))

(* FittedStage: the vectors of a stage, two of which hold positions in the  *)
(* layout of the parent.                                                    *)
IsStage(stage) ==
  LET Positions(s) == IsVector(s) /\ \A i \in DOMAIN s : s[i] \in Nat \ {0}
  IN  CASE stage.kind = "Scalar" ->
             /\ IsVector(stage.definitions)
             /\ \A i \in DOMAIN stage.definitions : stage.definitions[i].kind \in ScalarKinds
        [] stage.kind = "RollingPathSignature" -> IsVector(stage.outputs)
        [] stage.kind \in ColumnKinds          -> IsVector(stage.outputs)
        [] stage.kind = "Select"               -> IsVector(stage.outputs) /\ Positions(stage.indices)
        [] stage.kind = "SimpleImpute" ->
             IsVector(stage.outputs) /\ Positions(stage.retained) /\ Positions(stage.indicators)
        [] stage.kind = "Pca" ->
             IsVector(stage.outputs) /\ IsVector(stage.mean) /\ IsVector(stage.components)
        [] OTHER -> FALSE

(* outputs *)
LayoutOf(stage) ==
  IF stage.kind = "Scalar"
    THEN [i \in DOMAIN stage.definitions |-> stage.definitions[i].output]
    ELSE stage.outputs

Ascending(s) == \A i \in 1 .. Len(s) - 1 : s[i] < s[i + 1]

NeverFalling(s) == \A i \in 1 .. Len(s) - 1 : s[i] <= s[i + 1]

StrictlyIncreasingInRange(indices, bound) ==
  (\A i \in DOMAIN indices : indices[i] <= bound) /\ Ascending(indices)

ValidScales(stage, width) ==
  Len(stage.mean) = width /\ Len(stage.scale) = width /\ \A i \in 1 .. width : stage.scale[i] > 0

ValidMinMax(stage, width) ==
  /\ Len(stage.scale) = width /\ Len(stage.min) = width
  /\ \A i \in 1 .. width : stage.scale[i] > 0
  /\ stage.clip # <<>> => stage.clip[1] < stage.clip[2]

ValidPower(stage, width) ==
  /\ Len(stage.lambdas) = width
  /\ ValidScales(stage, width)
  /\ stage.method \in {"yeo-johnson", "box-cox"}

ValidQuantiles(stage, width) ==
  /\ stage.quantiles # <<>> /\ Len(stage.references) = Len(stage.quantiles)
  /\ \A row \in DOMAIN stage.quantiles : Len(stage.quantiles[row]) = width
  /\ \A column \in 1 .. width :
       NeverFalling([row \in DOMAIN stage.quantiles |-> stage.quantiles[row][column]])
  /\ StrictlyIncreasingInRange(stage.allNan, width)
  /\ stage.references[1] = 0 /\ Ascending(stage.references)
  /\ Len(stage.references) > 1 => Last(stage.references) = Unit
  /\ stage.threshold >= 0
  /\ stage.clip # <<>> => stage.clip[1] < stage.clip[2]

ValidImpute(stage, inputs) ==
  LET width == Len(stage.retained)
  IN  /\ Len(stage.replacement) = width
      /\ Len(stage.outputs) = width + Len(stage.indicators)
      /\ StrictlyIncreasingInRange(stage.retained, Len(inputs))
      /\ StrictlyIncreasingInRange(stage.indicators, Len(inputs))
      /\ \A i \in 1 .. width : stage.outputs[i] = inputs[stage.retained[i]]

ValidPca(stage, width) ==
  /\ Len(stage.outputs) <= width /\ Len(stage.mean) = width
  /\ Len(stage.components) = Len(stage.outputs) /\ Len(stage.scale) = Len(stage.outputs)
  /\ \A i \in DOMAIN stage.components : Len(stage.components[i]) = width /\ stage.scale[i] > 0

(* validate.  That fitted numbers are finite, and the limits of a memory's  *)
(* size, are left out: the model's numbers are integers.                    *)
ValidStage(stage, inputs) ==
  LET outputs == LayoutOf(stage)
      width   == Len(inputs)
      kind    == stage.kind
  IN  /\ inputs # <<>> /\ outputs # <<>>
      /\ ToSet(outputs) \cap Reserved = {} /\ IsInjective(outputs)
      /\ kind \in ColumnKinds => outputs = inputs
      /\ CASE kind = "RollingPathSignature" ->
                stage.input \in ToSet(inputs) /\ Len(outputs) = 6 /\ stage.window > 0
           [] kind = "Scalar" -> ValidDefinitions(stage.definitions, ToSet(inputs))
           [] kind = "Select" ->
                /\ Len(outputs) = Len(stage.indices)
                /\ StrictlyIncreasingInRange(stage.indices, width)
                /\ outputs = [i \in DOMAIN stage.indices |-> inputs[stage.indices[i]]]
           [] kind = "StandardScale"     -> ValidScales(stage, width)
           [] kind = "MinMaxScale"       -> ValidMinMax(stage, width)
           [] kind = "PowerTransform"    -> ValidPower(stage, width)
           [] kind = "QuantileTransform" -> ValidQuantiles(stage, width)
           [] kind = "SimpleImpute"      -> ValidImpute(stage, inputs)
           [] kind = "Pca"               -> ValidPca(stage, width)

(* CompiledStage::new; only two kinds of stages remember anything. *)
NewMemory(stage) ==
  CASE stage.kind = "Scalar" -> Compile(stage.definitions)
    [] stage.kind = "RollingPathSignature" -> NewPathSignature(stage.window, stage.warmup)
    [] OTHER -> {}

-----------------------------------------------------------------------------
(* Values of the stages without memory. *)

Number(value, F(_)) == IF Finite(value) THEN <<F(value[1])>> ELSE <<>>

Clamp(v, bounds) ==
  IF bounds = <<>> THEN v ELSE IF v < bounds[1] THEN bounds[1] ELSE Min({v, bounds[2]})

StandardScaled(stage, i, value) ==
  Number(value, LAMBDA v : (v - stage.mean[i]) \div stage.scale[i])

MinMaxScaled(stage, i, value) ==
  Number(value, LAMBDA v : Clamp(v * stage.scale[i] + stage.min[i], stage.clip))

(* (base^exponent - 1) / exponent, for positive exponents; the logarithm    *)
(* that the code takes at zero is left out.                                 *)
Power(base, exponent) == (base ^ exponent - 1) \div exponent

(* power_transform *)
PowerTransform(v, lambda, boxCox) ==
  IF boxCox THEN Power(v, lambda)
  ELSE IF v >= 0 THEN Power(v + 1, lambda) ELSE - Power(1 - v, 2 - lambda)

PowerTransformed(stage, i, value) ==
  LET boxCox == stage.method = "box-cox"
  IN  IF ~ Finite(value) \/ (boxCox /\ value[1] <= 0) THEN <<>>
      ELSE <<(PowerTransform(value[1], stage.lambdas[i], boxCox) - stage.mean[i])
               \div stage.scale[i]>>

(* interpolate_at: between the quantiles before and at a position. *)
InterpolateAt(upper, v, quantiles, references) ==
  LET lower == upper - 1
  IN  IF upper = 1 THEN references[1]
      ELSE IF upper > Len(quantiles) THEN Last(references)
      ELSE references[lower] + ((references[upper] - references[lower]) * (v - quantiles[lower]))
                                 \div (quantiles[upper] - quantiles[lower])

InterpolateUpperTie(v, quantiles, references) ==
  InterpolateAt(1 + Cardinality({i \in DOMAIN quantiles : quantiles[i] <= v}),
                v, quantiles, references)

InterpolateLowerTie(v, quantiles, references) ==
  LET upper == 1 + Cardinality({i \in DOMAIN quantiles : quantiles[i] < v})
  IN  IF upper <= Len(quantiles) /\ quantiles[upper] = v THEN references[upper]
      ELSE InterpolateAt(upper, v, quantiles, references)

(* The bounds are those of the table; a normal output has a threshold. *)
Probability(v, quantiles, stage) ==
  LET normal == stage.clip # <<>>
      lower  == quantiles[1]
      upper  == Last(quantiles)
  IN  IF (normal /\ v - stage.threshold < lower) \/ (~ normal /\ v = lower) THEN 0
      ELSE IF (normal /\ v + stage.threshold > upper) \/ (~ normal /\ v = upper) THEN Unit
      ELSE (InterpolateUpperTie(v, quantiles, stage.references)
              + InterpolateLowerTie(v, quantiles, stage.references)) \div 2

(* inverse_normal, then clamped; at zero and one it is infinite. *)
InverseNormal(p, clip) ==
  IF p <= 0 THEN clip[1] ELSE IF p >= Unit THEN clip[2] ELSE Clamp(NormalTable[p], clip)

(* A column that was fitted to no values has no quantiles. *)
AllNanTransform(stage) ==
  IF Len(stage.quantiles) > 1 THEN <<>> ELSE IF stage.clip = <<>> THEN <<0>> ELSE <<stage.clip[1]>>

QuantileTransformed(stage, i, value) ==
  LET column == [row \in DOMAIN stage.quantiles |-> stage.quantiles[row][i]]
      p      == Probability(value[1], column, stage)
  IN  IF ~ Finite(value) THEN <<>>
      ELSE IF i \in ToSet(stage.allNan) THEN AllNanTransform(stage)
      ELSE IF stage.clip = <<>> THEN <<p>> ELSE <<InverseNormal(p, stage.clip)>>

Imputed(stage, input) ==
  [i \in DOMAIN stage.retained |->
     IF Finite(input[stage.retained[i]]) THEN input[stage.retained[i]]
     ELSE <<stage.replacement[i]>>]
  \o [i \in DOMAIN stage.indicators |->
        IF Finite(input[stage.indicators[i]]) THEN <<0>> ELSE <<1>>]

Dot(a, b) == FoldSet(LAMBDA i, sum : a[i] * b[i] + sum, 0, DOMAIN a)

Projected(stage, input) ==
  [i \in DOMAIN stage.components |->
     IF \A j \in DOMAIN input : Finite(input[j])
       THEN LET row == stage.components[i]
            IN  <<(Dot([j \in DOMAIN input |-> input[j][1]], row) - Dot(stage.mean, row))
                    \div stage.scale[i]>>
       ELSE <<>>]

(* The values of a stage without memory. *)
Transformed(stage, input) ==
  CASE stage.kind = "Select" -> [i \in DOMAIN stage.indices |-> input[stage.indices[i]]]
    [] stage.kind = "StandardScale" ->
         [i \in DOMAIN input |-> StandardScaled(stage, i, input[i])]
    [] stage.kind = "MinMaxScale" ->
         [i \in DOMAIN input |-> MinMaxScaled(stage, i, input[i])]
    [] stage.kind = "PowerTransform" ->
         [i \in DOMAIN input |-> PowerTransformed(stage, i, input[i])]
    [] stage.kind = "QuantileTransform" ->
         [i \in DOMAIN input |-> QuantileTransformed(stage, i, input[i])]
    [] stage.kind = "SimpleImpute" -> Imputed(stage, input)
    [] stage.kind = "Pca" -> Projected(stage, input)

-----------------------------------------------------------------------------
(* Observation marks and clocks of the stages without memory.              *)

(* The columns that each output is of. *)
ColumnsOf(stage, i) ==
  CASE stage.kind = "Select"       -> {stage.indices[i]}
    [] stage.kind = "SimpleImpute" -> {(stage.retained \o stage.indicators)[i]}
    [] stage.kind = "Pca"          -> DOMAIN stage.mean
    [] stage.kind \in ColumnKinds  -> {i}

(* Faulty variant: a projection is marked only if all its columns are. *)
MarkOfAll(stage, i, observed) == \A column \in ColumnsOf(stage, i) : observed[column]

MarkOf(stage, i, observed) == \E column \in ColumnsOf(stage, i) : observed[column]

(* Faulty variant: the clock of the columns just observed. *)
ClockOfObserved(stage, i, clocks, observed) ==
  Max({clocks[column] : column \in {c \in ColumnsOf(stage, i) : observed[c]}} \cup {Never})

ClockOf(stage, i, clocks, observed) == Max({clocks[column] : column \in ColumnsOf(stage, i)})

-----------------------------------------------------------------------------
(* apply.  A parent shows [values, observed, clocks], and a node that and   *)
(* its memory; without a definition that needs them, clocks are all Never.  *)

Position(ids, id) == CHOOSE i \in DOMAIN ids : ids[i] = id

ShownBySignature(signature, input, parent, refreshed) ==
  [memory   |-> signature,
   values   |-> [i \in 1 .. 6 |->
                   IF signature.visible = <<>> THEN <<>> ELSE <<signature.visible[i]>>],
   observed |-> [i \in 1 .. 6 |-> refreshed],
   clocks   |-> [i \in 1 .. 6 |-> parent.clocks[input]]]

ApplySignature(stage, memory, ids, parent, advance) ==
  LET input     == Position(ids, stage.input)
      refreshed == advance /\ parent.observed[input]
  IN  ShownBySignature(ApplyPathSignature(memory, parent.values[input], refreshed),
                       input, parent, refreshed)

(* What the operations of a scalar stage are given of an input. *)
InputOf(ids, parent, advance, id) ==
  LET input == Position(ids, id)
  IN  [value |-> parent.values[input], observed |-> parent.observed[input],
       clock |-> parent.clocks[input], advance |-> advance]

(* What the stage shows, with these operations. *)
ShownByScalar(stage, operations, ids, parent, global) ==
  [memory   |-> operations,
   values   |-> [i \in DOMAIN stage.definitions |-> OutputAt(operations, i).value],
   observed |-> [i \in DOMAIN stage.definitions |-> OutputAt(operations, i).observed],
   clocks   |-> [i \in DOMAIN stage.definitions |->
                   InheritedClock(stage.definitions[i],
                                  LAMBDA id : parent.clocks[Position(ids, id)], global)]]

ApplyScalar(stage, memory, ids, parent, global, advance) ==
  ShownByScalar(stage, ApplyAll(memory, LAMBDA id : InputOf(ids, parent, advance, id)),
                ids, parent, global)

ApplyStage(stage, memory, ids, parent, global, advance) ==
  CASE stage.kind = "RollingPathSignature" ->
         ApplySignature(stage, memory, ids, parent, advance)
    [] stage.kind = "Scalar" -> ApplyScalar(stage, memory, ids, parent, global, advance)
    [] OTHER ->
         [memory   |-> memory,
          values   |-> Transformed(stage, parent.values),
          observed |-> [i \in DOMAIN stage.outputs |-> MarkOf(stage, i, parent.observed)],
          clocks   |-> [i \in DOMAIN stage.outputs |->
                          ClockOf(stage, i, parent.clocks, parent.observed)]]

=============================================================================
