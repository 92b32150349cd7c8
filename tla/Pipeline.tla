------------------------------- MODULE Pipeline -------------------------------
(***************************************************************************)
(* A pipeline (features/pipeline): a graph of stages over the cells of a   *)
(* feature extractor, which an accepted event and a context update refresh *)
(* node by node.                                                           *)
(*                                                                         *)
(* Of the extractor, FeatureExtractor's module, there is here what the     *)
(* pipeline reads: a cell for each symbol, which its events observe, cells *)
(* of the context, the watermarks of the symbols and the newest timestamp. *)
(* The state is a function of the calls so far, hence the operators on     *)
(* whole pipelines.                                                        *)
(***************************************************************************)
EXTENDS Stages

CONSTANTS
  Symbols,     \* each with a cell of its own name
  Context,     \* ids of the context cells
  RawIds,      \* the layout of the extractor
  Graphs,      \* sequences of [parent, stage] to build, and their outputs
  Values,      \* of cells
  Times,       \* timestamps
  MaxCalls     \* bound on the run

ASSUME PipelineParameters ==
  /\ Never \in Int /\ Times \subseteq Int /\ \A t \in Times : Never < t
  /\ IsVector(RawIds)
  /\ \A graph \in Graphs :
       /\ IsVector(graph.nodes) /\ IsVector(graph.outputs)
       /\ \A i \in DOMAIN graph.nodes : IsStage(graph.nodes[i].stage)

VARIABLES
  pipeline,  \* the runtime, or InvalidPipeline before one is built
  accepted   \* the events accepted since the start or a reset

pipelineVars == <<pipeline, accepted>>

InvalidPipeline == [error |-> "InvalidPipeline"]

-----------------------------------------------------------------------------
(* PipelineSpec. *)

NewSpec == [nodes |-> <<>>, outputs |-> <<>>]

(* node_ids: node 0 is the extractor. *)
NodeIds(spec, node) == IF node = 0 THEN RawIds ELSE LayoutOf(spec.nodes[node].stage)

(* add; check_node also refuses the nodes of another specification. *)
AddNode(spec, node) ==
  IF /\ spec # InvalidPipeline
     /\ node.parent \in 0 .. Len(spec.nodes)
     /\ ValidStage(node.stage, NodeIds(spec, node.parent))
    THEN [spec EXCEPT !.nodes = Append(@, node)]
    ELSE InvalidPipeline

(* output; all blank names are "". *)
AddOutput(spec, output) ==
  IF /\ spec # InvalidPipeline
     /\ output.node \in 0 .. Len(spec.nodes)
     /\ output.name \notin Reserved \cup {""}
     /\ \A i \in DOMAIN spec.outputs : spec.outputs[i].name # output.name
    THEN [spec EXCEPT !.outputs = Append(@, output)]
    ELSE InvalidPipeline

ValidSpec(spec) ==
  /\ spec.outputs # <<>>
  /\ \A i \in DOMAIN spec.outputs : NodeIds(spec, spec.outputs[i].node) # <<>>

(* A specification as an application writes it, call by call. *)
SpecOf(graph) ==
  FoldLeft(AddOutput, FoldLeft(AddNode, NewSpec, graph.nodes), graph.outputs)

-----------------------------------------------------------------------------
(* Pipeline. *)

IsTimedSpec(spec) ==
  \E i \in DOMAIN spec.nodes :
    /\ spec.nodes[i].stage.kind = "Scalar"
    /\ \E j \in DOMAIN spec.nodes[i].stage.definitions :
         NeedsClock(spec.nodes[i].stage.definitions[j])

(* A value buffer of NaN, no mark and no clock for each id of a layout. *)
Blank(ids) ==
  [values |-> [i \in DOMAIN ids |-> <<>>], observed |-> [i \in DOMAIN ids |-> FALSE],
   clocks |-> [i \in DOMAIN ids |-> Never]]

(* new *)
NewPipeline(spec) ==
  [spec |-> spec, timed |-> IsTimedSpec(spec), raw |-> Blank(RawIds),
   watermarks |-> [symbol \in Symbols |-> Never], max |-> Never,
   nodes |-> [i \in DOMAIN spec.nodes |->
                LET blank == Blank(NodeIds(spec, i))
                IN  [memory |-> NewMemory(spec.nodes[i].stage), values |-> blank.values,
                     observed |-> blank.observed, clocks |-> blank.clocks]]]

Build(spec) ==
  IF spec # InvalidPipeline /\ ValidSpec(spec) THEN NewPipeline(spec) ELSE InvalidPipeline

(* evaluation_timestamp; a context cell has no source. *)
EvaluationTimestamp(p, id) == IF id \in Symbols THEN p.watermarks[id] ELSE Never

(* refresh: the extractor first, then each node in the order of creation,   *)
(* after its parent.                                                        *)
Refresh(p, advance) ==
  LET raw == [p.raw EXCEPT !.clocks = [i \in DOMAIN @ |->
                IF p.timed THEN EvaluationTimestamp(p, RawIds[i]) ELSE Never]]
      global == IF p.timed THEN p.max ELSE Never
      node[i \in 0 .. Len(p.nodes)] ==
        IF i = 0 THEN raw
        ELSE LET n == p.spec.nodes[i]
             IN  ApplyStage(n.stage, p.nodes[i].memory, NodeIds(p.spec, n.parent),
                            node[n.parent], global, advance)
  IN  [p EXCEPT !.raw = raw, !.nodes = [i \in DOMAIN @ |-> node[i]]]

(* The extractor's part in an event: it observes the cells of its symbol,   *)
(* unless the event is late or an update that its order book rejects.       *)
Accepts(p, event) == p.watermarks[event.symbol] <= event.at /\ ~ event.fails

Observed(p, event) ==
  [p EXCEPT !.raw.values = [i \in DOMAIN @ |->
              IF RawIds[i] = event.symbol THEN event.value ELSE @[i]],
            !.raw.observed = [i \in DOMAIN @ |-> RawIds[i] = event.symbol],
            !.watermarks[event.symbol] = event.at,
            !.max = Max({@, event.at})]

(* handle_event *)
HandleEvent(p, event) == IF Accepts(p, event) THEN Refresh(Observed(p, event), TRUE) ELSE p

(* The extractor's part in a context update: nothing is observed. *)
Supplied(p, updates) ==
  [p EXCEPT !.raw.values = [i \in DOMAIN @ |->
              IF RawIds[i] \in DOMAIN updates THEN updates[RawIds[i]] ELSE @[i]],
            !.raw.observed = [i \in DOMAIN @ |-> FALSE]]

(* Faulty variant: the marks of the last event are kept, and it is repeated. *)
RepeatContext(p, updates) ==
  IF updates = <<>> THEN p
  ELSE Refresh([Supplied(p, updates) EXCEPT !.raw.observed = p.raw.observed], TRUE)

(* update_context *)
UpdateContext(p, updates) == IF updates = <<>> THEN p ELSE Refresh(Supplied(p, updates), FALSE)

-----------------------------------------------------------------------------

PipelineInit ==
  /\ \E graph \in Graphs : pipeline = Build(SpecOf(graph))
  /\ pipeline # InvalidPipeline
  /\ accepted = <<>>

Handle(event) ==
  /\ Len(accepted) < MaxCalls
  /\ pipeline' = HandleEvent(pipeline, event)
  /\ accepted' = IF Accepts(pipeline, event) THEN Append(accepted, event) ELSE accepted

Update(updates) ==
  /\ pipeline' = UpdateContext(pipeline, updates)
  /\ UNCHANGED accepted

(* reset: a new runtime of the same specification and the same owner. *)
Reset ==
  /\ pipeline' = NewPipeline(pipeline.spec)
  /\ accepted' = <<>>

PipelineNext ==
  \/ \E symbol \in Symbols, value \in Values, at \in Times :
       Handle([symbol |-> symbol, value |-> value, at |-> at, fails |-> FALSE])
  \/ \E id \in Context, value \in Values : Update([supplied \in {id} |-> value])
  \/ Reset

PipelineSpec == PipelineInit /\ [][PipelineNext]_pipelineVars

-----------------------------------------------------------------------------
(* Properties. *)

NodesOf(p) == DOMAIN p.nodes

(* The nodes that read context cells, directly or through other nodes. *)
InputsOf(stage, ids) ==
  CASE stage.kind = "Scalar" ->
         {stage.definitions[i].input : i \in DOMAIN stage.definitions}
    [] stage.kind = "RollingPathSignature" -> {stage.input}
    [] stage.kind = "Select" -> ToSet(stage.outputs)
    [] OTHER -> ToSet(ids)

ReadsContext(spec) ==
  LET reads[i \in 1 .. Len(spec.nodes)] ==
        LET n == spec.nodes[i]
        IN  IF n.parent = 0 THEN InputsOf(n.stage, RawIds) \cap Context # {} ELSE reads[n.parent]
  IN  {i \in DOMAIN spec.nodes : reads[i]}

(* The histories of a node, apart from the marks of the last refresh. *)
Remembered(stage, memory) ==
  IF stage.kind = "Scalar" THEN {[op EXCEPT !.marked = FALSE] : op \in memory} ELSE memory

(* The calls that were accepted, without any others in between. *)
Replayed(spec, events) == FoldLeft(HandleEvent, NewPipeline(spec), events)

SameNode(p, other, i) ==
  /\ p.nodes[i].values = other.nodes[i].values
  /\ Remembered(p.spec.nodes[i].stage, p.nodes[i].memory)
       = Remembered(p.spec.nodes[i].stage, other.nodes[i].memory)

SameMarket(p, other) == \A i \in NodesOf(p) \ ReadsContext(p.spec) : SameNode(p, other, i)

(* Nodes of the market are functions of the accepted events alone: neither *)
(* an event that was rejected nor a context update between events enters   *)
(* their histories, repeats an observation or shows in their values.  What *)
(* a context update may do is refresh a new runtime for the first time,    *)
(* which writes the values that stages impute to inputs without any.       *)
NodesFollowAcceptedEvents ==
  \/ SameMarket(pipeline, Replayed(pipeline.spec, accepted))
  \/ /\ accepted = <<>>
     /\ SameMarket(pipeline, Refresh(NewPipeline(pipeline.spec), FALSE))

WasReset == pipeline' = NewPipeline(pipeline.spec)

(* Timestamps of different symbols arrive in any order, but the clock of a *)
(* cell never goes back, so that a timed history of a node that combines   *)
(* symbols only ever moves on.                                             *)
ClocksNeverRegress ==
  [][\A i \in NodesOf(pipeline) :
       \A o \in DOMAIN pipeline.nodes[i].clocks :
         pipeline.nodes[i].clocks[o] <= pipeline'.nodes[i].clocks[o] \/ WasReset]_pipelineVars

(* A value that an event changes is marked as observed at every node, so   *)
(* that stages downstream, which update on marks, miss none.  The first    *)
(* refresh is different: it writes imputed values where there were none.   *)
ChangesAreMarked ==
  [][accepted' # accepted /\ accepted # <<>> /\ ~ WasReset =>
       \A i \in NodesOf(pipeline) :
         \A o \in DOMAIN pipeline.nodes[i].values :
           pipeline.nodes[i].values[o] # pipeline'.nodes[i].values[o]
             => pipeline'.nodes[i].observed[o]]_pipelineVars

=============================================================================
