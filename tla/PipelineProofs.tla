---------------------------- MODULE PipelineProofs ----------------------------
(***************************************************************************)
(* Proofs about Pipeline and the replay of batches over one, for every     *)
(* graph that an application may ask for, whatever its stages compute.     *)
(*                                                                         *)
(* First the runtime and its cells, and what every call keeps of them.     *)
(* Then what the nodes show: what an operation, a stage and a refresh do   *)
(* with what they remember, which changes are marked as observed, and last *)
(* the invariant that the nodes of the market are those of a replay of the *)
(* accepted events alone.                                                  *)
(***************************************************************************)
EXTENDS BatchReplay, NumberLemmas, SequenceTheorems

-----------------------------------------------------------------------------
(* The parts of a runtime.  No call changes its specification, and only an  *)
(* event changes watermarks.                                               *)

RuntimeFields == {"spec", "timed", "raw", "watermarks", "max", "nodes"}

CellFields == {"values", "observed", "clocks"}

IsRuntime(p) ==
  /\ p = [field \in RuntimeFields |-> p[field]]
  /\ p.raw = [field \in CellFields |-> p.raw[field]]
  /\ p.watermarks \in [Symbols -> Int]
  /\ p.max \in Int

SameMarketTime(p, q) ==
  /\ q.spec = p.spec /\ q.timed = p.timed
  /\ q.watermarks = p.watermarks /\ q.max = p.max

Events == [symbol : Symbols, value : Values, at : Times, fails : BOOLEAN]

LEMMA NewRuntime ==
  ASSUME NEW spec
  PROVE  /\ IsRuntime(NewPipeline(spec))
         /\ NewPipeline(spec).watermarks = [symbol \in Symbols |-> Never]
         /\ NewPipeline(spec).max = Never
         /\ NewPipeline(spec).spec = spec
         /\ NewPipeline(spec).timed = IsTimedSpec(spec)
<1> DEFINE p == NewPipeline(spec)
<1>1. p = [field \in RuntimeFields |-> p[field]]
  BY DEF NewPipeline, RuntimeFields
<1>2. p.raw = [field \in CellFields |-> p.raw[field]]
  BY DEF NewPipeline, Blank, CellFields
<1>3. /\ p.watermarks = [symbol \in Symbols |-> Never]
      /\ p.max = Never /\ p.spec = spec /\ p.timed = IsTimedSpec(spec)
  BY DEF NewPipeline
<1>4. Never \in Int
  BY PipelineParameters
<1> HIDE DEF p
<1>5. IsRuntime(p)
  BY <1>1, <1>2, <1>3, <1>4 DEF IsRuntime
<1> QED
  BY <1>3, <1>5 DEF p

(* What a refresh makes of a runtime: raw clocks and nodes are new. *)
Written(p, clocks, nodes) == [p EXCEPT !.raw = [p.raw EXCEPT !.clocks = clocks], !.nodes = nodes]

LEMMA RefreshWrites ==
  ASSUME NEW p, IsRuntime(p), NEW clocks, NEW nodes
  PROVE  LET q == Written(p, clocks, nodes)
         IN  /\ IsRuntime(q) /\ SameMarketTime(p, q)
             /\ q.raw.clocks = clocks /\ q.nodes = nodes
<1> DEFINE raw == [p.raw EXCEPT !.clocks = clocks]
           q   == [p EXCEPT !.raw = raw, !.nodes = nodes]
<1>1. raw = [field \in CellFields |-> raw[field]] /\ raw.clocks = clocks
  BY DEF IsRuntime, CellFields
<1> HIDE DEF raw
<1>2. q = [field \in RuntimeFields |-> q[field]]
  BY DEF IsRuntime, RuntimeFields
<1>3. q.raw = raw /\ q.nodes = nodes /\ SameMarketTime(p, q)
  BY DEF IsRuntime, RuntimeFields, SameMarketTime
<1> HIDE DEF q
<1>4. IsRuntime(q)
  BY <1>1, <1>2, <1>3 DEF IsRuntime, SameMarketTime
<1> QED
  BY <1>1, <1>3, <1>4 DEF q, raw, Written

LEMMA RefreshKeepsTime ==
  ASSUME NEW p, IsRuntime(p), NEW advance
  PROVE  IsRuntime(Refresh(p, advance)) /\ SameMarketTime(p, Refresh(p, advance))
BY RefreshWrites DEF Refresh, Written

(* A context update observes nothing, and leaves nodes to the refresh. *)
LEMMA SupplyWrites ==
  ASSUME NEW p, IsRuntime(p), NEW updates
  PROVE  LET q == Supplied(p, updates)
         IN  /\ IsRuntime(q) /\ SameMarketTime(p, q)
             /\ q.raw.clocks = p.raw.clocks /\ q.nodes = p.nodes
<1> DEFINE q        == Supplied(p, updates)
           values   == [i \in DOMAIN p.raw.values |->
                          IF RawIds[i] \in DOMAIN updates THEN updates[RawIds[i]]
                          ELSE p.raw.values[i]]
           first    == [p.raw EXCEPT !.values = values]
           raw      == [first EXCEPT !.observed = [i \in DOMAIN first.observed |-> FALSE]]
<1>1. q.raw = raw
  BY DEF Supplied, IsRuntime, RuntimeFields
<1>2. raw = [field \in CellFields |-> raw[field]] /\ raw.clocks = p.raw.clocks
  <2>1. first = [field \in CellFields |-> first[field]] /\ first.clocks = p.raw.clocks
    BY DEF IsRuntime, CellFields
  <2> HIDE DEF first
  <2> QED BY <2>1 DEF CellFields
<1>3. q = [field \in RuntimeFields |-> q[field]]
  BY DEF Supplied, IsRuntime, RuntimeFields
<1>4. q.nodes = p.nodes /\ SameMarketTime(p, q)
  BY DEF Supplied, IsRuntime, RuntimeFields, SameMarketTime
<1> HIDE DEF q, raw
<1>5. IsRuntime(q)
  BY <1>1, <1>2, <1>3, <1>4 DEF IsRuntime, SameMarketTime
<1> QED
  BY <1>1, <1>2, <1>4, <1>5 DEF q

LEMMA UpdateKeepsTime ==
  ASSUME NEW p, IsRuntime(p), NEW updates
  PROVE  /\ IsRuntime(UpdateContext(p, updates))
         /\ SameMarketTime(p, UpdateContext(p, updates))
<1>1. CASE updates = <<>>
  BY <1>1 DEF UpdateContext, SameMarketTime
<1>2. CASE updates # <<>>
  <2> DEFINE q == Supplied(p, updates)
  <2>1. UpdateContext(p, updates) = Refresh(q, FALSE)
    BY <1>2 DEF UpdateContext
  <2>2. IsRuntime(q) /\ SameMarketTime(p, q)
    BY SupplyWrites
  <2> HIDE DEF q
  <2>3. IsRuntime(Refresh(q, FALSE)) /\ SameMarketTime(q, Refresh(q, FALSE))
    BY <2>2, RefreshKeepsTime
  <2> QED
    BY <2>1, <2>2, <2>3 DEF SameMarketTime
<1> QED
  BY <1>1, <1>2

(* An accepted event moves the watermark of its symbol and perhaps the     *)
(* newest timestamp, both on.                                              *)
LEMMA EventWrites ==
  ASSUME NEW p, IsRuntime(p), NEW e \in Events
  PROVE  LET q == Observed(p, e)
         IN  /\ IsRuntime(q)
             /\ q.spec = p.spec /\ q.timed = p.timed
             /\ q.watermarks = [p.watermarks EXCEPT ![e.symbol] = e.at]
             /\ q.max >= p.max
             /\ q.raw.clocks = p.raw.clocks /\ q.nodes = p.nodes
<1>1. e.at \in Int /\ p.max \in Int
  BY PipelineParameters DEF Events, IsRuntime
<1>2. Max({p.max, e.at}) \in Int /\ Max({p.max, e.at}) >= p.max
  <2>1. \E x \in {p.max, e.at} : \A y \in {p.max, e.at} : x >= y
    BY <1>1
  <2>2. Max({p.max, e.at}) \in {p.max, e.at}
        /\ \A y \in {p.max, e.at} : Max({p.max, e.at}) >= y
    BY <2>1 DEF Max
  <2> QED
    BY <1>1, <2>2
<1> DEFINE q      == Observed(p, e)
           values == [i \in DOMAIN p.raw.values |->
                        IF RawIds[i] = e.symbol THEN e.value ELSE p.raw.values[i]]
           first  == [p.raw EXCEPT !.values = values]
           raw    == [first EXCEPT !.observed =
                        [i \in DOMAIN first.observed |-> RawIds[i] = e.symbol]]
           moved  == [p.watermarks EXCEPT ![e.symbol] = e.at]
           newest == Max({p.max, e.at})
<1>3. q.raw = raw
  BY DEF Observed, IsRuntime, RuntimeFields
<1>4. raw = [field \in CellFields |-> raw[field]] /\ raw.clocks = p.raw.clocks
  <2>1. first = [field \in CellFields |-> first[field]] /\ first.clocks = p.raw.clocks
    BY DEF IsRuntime, CellFields
  <2> HIDE DEF first
  <2> QED BY <2>1 DEF CellFields
<1>5. q = [field \in RuntimeFields |-> q[field]]
  BY DEF Observed, IsRuntime, RuntimeFields
<1>6. q.spec = p.spec /\ q.timed = p.timed /\ q.nodes = p.nodes
  BY DEF Observed, IsRuntime, RuntimeFields
<1>7. q.watermarks = moved
  BY DEF Observed, IsRuntime, RuntimeFields
<1>8. q.max = newest
  BY DEF Observed, IsRuntime, RuntimeFields
<1>9. moved \in [Symbols -> Int]
  BY <1>1 DEF IsRuntime
<1> HIDE DEF q, raw, moved, newest
<1>10. newest \in Int /\ newest >= p.max
  BY <1>2 DEF newest
<1>11. IsRuntime(q)
  BY <1>3, <1>4, <1>5, <1>7, <1>8, <1>9, <1>10 DEF IsRuntime
<1> QED
  BY <1>3, <1>4, <1>6, <1>7, <1>8, <1>10, <1>11 DEF q, moved

LEMMA HandleKeepsRuntime ==
  ASSUME NEW p, IsRuntime(p), NEW e \in Events
  PROVE  /\ IsRuntime(HandleEvent(p, e))
         /\ HandleEvent(p, e).spec = p.spec
         /\ HandleEvent(p, e).watermarks
              = IF Accepts(p, e) THEN [p.watermarks EXCEPT ![e.symbol] = e.at] ELSE p.watermarks
<1>1. CASE Accepts(p, e)
  <2> DEFINE q == Observed(p, e)
  <2>1. HandleEvent(p, e) = Refresh(q, TRUE)
    BY <1>1 DEF HandleEvent
  <2>2. /\ IsRuntime(q) /\ q.spec = p.spec
        /\ q.watermarks = [p.watermarks EXCEPT ![e.symbol] = e.at]
    BY EventWrites
  <2> HIDE DEF q
  <2>3. IsRuntime(Refresh(q, TRUE)) /\ SameMarketTime(q, Refresh(q, TRUE))
    BY <2>2, RefreshKeepsTime
  <2> QED
    BY <1>1, <2>1, <2>2, <2>3 DEF SameMarketTime
<1>2. CASE ~ Accepts(p, e)
  BY <1>2 DEF HandleEvent
<1> QED
  BY <1>1, <1>2

-----------------------------------------------------------------------------
(* Replays: the rows that are left are rows of events, in the order of the *)
(* timestamps of each symbol, and none is late already.                    *)

IsRow(row) ==
  /\ row = [field \in {"event", "updates"} |-> row[field]]
  /\ row.event \in Events
  /\ DOMAIN row.updates \subseteq Context

RowsFollow ==
  \A i, j \in 1 .. Len(batch) :
    j < i /\ batch[j].event.symbol = batch[i].event.symbol
      => batch[j].event.at <= batch[i].event.at

ReplayInv ==
  /\ IsRuntime(pipeline)
  /\ IsVector(batch) /\ \A i \in 1 .. Len(batch) : IsRow(batch[i])
  /\ RowsFollow
  /\ RowsAreTimely

LEMMA VectorFacts ==
  ASSUME NEW s, IsVector(s)
  PROVE  Len(s) \in Nat /\ DOMAIN s = 1 .. Len(s)
BY DEF IsVector

LEMMA EmptyIsVector == IsVector(<<>>)
BY DEF IsVector

LEMMA TailIsVector ==
  ASSUME NEW s, IsVector(s), s # <<>>
  PROVE  /\ IsVector(Tail(s)) /\ Len(s) > 0
         /\ Len(Tail(s)) = Len(s) - 1
         /\ \A i \in 1 .. Len(s) - 1 : Tail(s)[i] = s[i + 1]
<1> DEFINE S == ToSet(s)
           t == Tail(s)
<1>1. s \in Seq(S)
  BY DEF IsVector
<1> HIDE DEF S
<1>2. /\ t \in Seq(S) /\ Len(s) > 0 /\ Len(t) = Len(s) - 1
      /\ \A i \in 1 .. Len(s) - 1 : t[i] = s[i + 1]
  BY <1>1
<1> HIDE DEF t
<1>3. t \in Seq(ToSet(t))
  <2>1. \A i \in 1 .. Len(t) : t[i] \in ToSet(t)
    BY <1>2 DEF ToSet
  <2>2. t = [i \in 1 .. Len(t) |-> t[i]]
    BY <1>2
  <2> QED
    BY <1>2, <2>1, <2>2, IsASeq
<1> QED
  BY <1>2, <1>3 DEF IsVector, t

LEMMA ReplayStarts == ReplayInit => ReplayInv
<1> SUFFICES ASSUME ReplayInit
             PROVE  ReplayInv
  OBVIOUS
<1>1. IsRuntime(pipeline)
  <2>1. PICK graph \in Graphs : pipeline = Build(SpecOf(graph))
    BY DEF ReplayInit, PipelineInit
  <2>2. pipeline = NewPipeline(SpecOf(graph))
    BY <2>1 DEF ReplayInit, PipelineInit, Build
  <2> QED
    BY <2>2, NewRuntime
<1>2. batch = <<>>
  BY DEF ReplayInit
<1> QED
  BY <1>1, <1>2, EmptyIsVector DEF ReplayInv, RowsFollow, RowsAreTimely

LEMMA CallKeepsReplayInv == ReplayInv /\ Call => ReplayInv'
<1> SUFFICES ASSUME ReplayInv, Call
             PROVE  ReplayInv'
  OBVIOUS
<1>1. batch' = <<>>
  BY DEF Call
<1>2. IsRuntime(pipeline')
  <2>1. CASE \E symbol \in Symbols, value \in Values, at \in Times :
               Handle([symbol |-> symbol, value |-> value, at |-> at, fails |-> FALSE])
    <3>1. PICK symbol \in Symbols, value \in Values, at \in Times :
                 Handle([symbol |-> symbol, value |-> value, at |-> at, fails |-> FALSE])
      BY <2>1
    <3> DEFINE e == [symbol |-> symbol, value |-> value, at |-> at, fails |-> FALSE]
    <3>2. e \in Events
      BY DEF Events
    <3>3. pipeline' = HandleEvent(pipeline, e)
      BY <3>1 DEF Handle
    <3> HIDE DEF e
    <3> QED
      BY <3>2, <3>3, HandleKeepsRuntime DEF ReplayInv
  <2>2. CASE \E id \in Context, value \in Values : Update([supplied \in {id} |-> value])
    BY <2>2, UpdateKeepsTime DEF Update, ReplayInv
  <2>3. CASE Reset
    BY <2>3, NewRuntime DEF Reset
  <2> QED
    BY <2>1, <2>2, <2>3 DEF Call, PipelineNext
<1> QED
  BY <1>1, <1>2, EmptyIsVector DEF ReplayInv, RowsFollow, RowsAreTimely

LEMMA ReplayKeepsReplayInv ==
  ASSUME NEW rows \in Batches
  PROVE  ReplayInv /\ Replay(rows) => ReplayInv'
<1> SUFFICES ASSUME ReplayInv, Replay(rows)
             PROVE  ReplayInv'
  OBVIOUS
<1>1. pipeline' = pipeline
  BY DEF Replay, pipelineVars
<1>2. CASE InOrder(rows)
  <2>1. batch' = rows
    BY <1>2 DEF Replay
  <2>2. rows \in Seq(Rows)
    BY BatchParameters
  <2>3. IsVector(rows) /\ \A i \in 1 .. Len(rows) : IsRow(rows[i])
    <3>1. \A i \in 1 .. Len(rows) : rows[i] \in Rows
      BY <2>2
    <3>2. \A row \in Rows : IsRow(row)
      <4>1. \A updates \in UNION {[ids -> Values] : ids \in SUBSET Context} :
              DOMAIN updates \subseteq Context
        OBVIOUS
      <4> QED
        BY <4>1 DEF Rows, IsRow, Events
    <3>3. rows \in Seq(ToSet(rows))
      <4>1. \A i \in 1 .. Len(rows) : rows[i] \in ToSet(rows)
        BY <2>2 DEF ToSet
      <4>2. rows = [i \in 1 .. Len(rows) |-> rows[i]] /\ Len(rows) \in Nat
        BY <2>2
      <4> QED
        BY <4>1, <4>2, IsASeq
    <3> QED
      BY <3>1, <3>2, <3>3 DEF IsVector
  <2>4. RowsFollow'
    <3> SUFFICES ASSUME NEW i \in 1 .. Len(rows), NEW j \in 1 .. Len(rows), j < i,
                        rows[j].event.symbol = rows[i].event.symbol
                 PROVE  rows[j].event.at <= rows[i].event.at
      BY <2>1 DEF RowsFollow
    <3>1. i \in DOMAIN rows /\ j \in 1 .. i - 1
      BY <2>2
    <3> QED
      BY <1>2, <3>1 DEF InOrder
  <2>5. RowsAreTimely'
    BY <1>1, <1>2, <2>1 DEF InOrder, RowsAreTimely
  <2> QED
    BY <1>1, <2>1, <2>3, <2>4, <2>5 DEF ReplayInv
<1>3. CASE ~ InOrder(rows)
  <2>1. batch' = <<>>
    BY <1>3 DEF Replay
  <2> QED
    BY <1>1, <2>1, EmptyIsVector DEF ReplayInv, RowsFollow, RowsAreTimely
<1> QED
  BY <1>2, <1>3

LEMMA SupplyKeepsReplayInv == ReplayInv /\ SupplyRow => ReplayInv'
<1> SUFFICES ASSUME ReplayInv, SupplyRow
             PROVE  ReplayInv'
  OBVIOUS
<1>1. IsRuntime(pipeline') /\ pipeline'.watermarks = pipeline.watermarks
  BY UpdateKeepsTime DEF SupplyRow, Update, ReplayInv, SameMarketTime
<1>2. Len(batch) \in Nat /\ DOMAIN batch = 1 .. Len(batch)
  BY VectorFacts DEF ReplayInv
<1> DEFINE next == [batch EXCEPT ![1].updates = <<>>]
<1>3. DOMAIN next = 1 .. Len(batch) /\ next = [i \in 1 .. Len(batch) |-> next[i]]
  BY <1>2
<1>4. ASSUME NEW i \in 1 .. Len(batch)
      PROVE  next[i].event = batch[i].event /\ IsRow(next[i])
  <2>1. IsRow(batch[i])
    BY DEF ReplayInv
  <2>2. next[i] = batch[i] \/ next[i] = [batch[i] EXCEPT !.updates = <<>>]
    BY <1>2
  <2> DEFINE row == [batch[i] EXCEPT !.updates = <<>>]
  <2>3. /\ row = [field \in {"event", "updates"} |-> row[field]]
        /\ row.event = batch[i].event /\ row.updates = <<>>
    BY <2>1 DEF IsRow
  <2> HIDE DEF row
  <2>4. IsRow(row)
    BY <2>1, <2>3, EmptyIsVector, VectorFacts DEF IsRow
  <2> HIDE DEF next
  <2> QED
    BY <2>1, <2>2, <2>3, <2>4 DEF row
<1>5. batch' = next
  BY DEF SupplyRow
<1> HIDE DEF next
<1>6. next \in Seq(ToSet(next))
  <2>1. \A i \in 1 .. Len(batch) : next[i] \in ToSet(next)
    BY <1>3 DEF ToSet
  <2> QED
    BY <1>2, <1>3, <2>1, IsASeq
<1>7. Len(next) = Len(batch)
  BY <1>2, <1>3, <1>6
<1>8. IsVector(batch') /\ \A i \in 1 .. Len(batch') : IsRow(batch'[i])
  BY <1>4, <1>5, <1>6, <1>7 DEF IsVector
<1>9. RowsFollow'
  BY <1>4, <1>5, <1>7 DEF ReplayInv, RowsFollow
<1>10. RowsAreTimely'
  BY <1>1, <1>2, <1>3, <1>4, <1>5 DEF ReplayInv, RowsAreTimely
<1> QED
  BY <1>1, <1>8, <1>9, <1>10 DEF ReplayInv

LEMMA HandleKeepsReplayInv == ReplayInv /\ HandleRow => ReplayInv'
<1> SUFFICES ASSUME ReplayInv, HandleRow
             PROVE  ReplayInv'
  OBVIOUS
<1> DEFINE e == Head(batch).event
<1>1. batch # <<>> /\ IsVector(batch)
  BY DEF ReplayInv, HandleRow
<1>2. /\ IsVector(Tail(batch)) /\ Len(batch) > 0 /\ Len(batch) \in Nat
      /\ Len(Tail(batch)) = Len(batch) - 1
      /\ \A i \in 1 .. Len(batch) - 1 : Tail(batch)[i] = batch[i + 1]
      /\ DOMAIN batch = 1 .. Len(batch)
      /\ DOMAIN Tail(batch) = 1 .. Len(batch) - 1
  BY <1>1, TailIsVector, VectorFacts
<1>3. e = batch[1].event /\ e \in Events
  <2>1. IsRow(batch[1])
    BY <1>2 DEF ReplayInv
  <2>2. Head(batch) = batch[1]
    BY <1>1 DEF IsVector
  <2> QED
    BY <2>1, <2>2 DEF IsRow
<1>4. pipeline' = HandleEvent(pipeline, e)
  BY DEF HandleRow, Handle
<1>5. batch' = IF Accepts(pipeline, e) THEN Tail(batch) ELSE <<>>
  BY DEF HandleRow
<1> HIDE DEF e
<1>6. /\ IsRuntime(pipeline')
      /\ pipeline'.watermarks = IF Accepts(pipeline, e)
                                  THEN [pipeline.watermarks EXCEPT ![e.symbol] = e.at]
                                  ELSE pipeline.watermarks
  BY <1>3, <1>4, HandleKeepsRuntime DEF ReplayInv
<1>7. CASE Accepts(pipeline, e)
  <2>1. batch' = Tail(batch) /\ pipeline'.watermarks = [pipeline.watermarks EXCEPT ![e.symbol] = e.at]
    BY <1>5, <1>6, <1>7
  <2>2. ASSUME NEW i \in 1 .. Len(batch) - 1
        PROVE  Tail(batch)[i] = batch[i + 1] /\ i + 1 \in 1 .. Len(batch)
    BY <1>2
  <2>3. \A i \in 1 .. Len(batch') : IsRow(batch'[i])
    BY <1>2, <2>1, <2>2 DEF ReplayInv
  <2>4. RowsFollow'
    <3> SUFFICES ASSUME NEW i \in 1 .. Len(batch) - 1, NEW j \in 1 .. Len(batch) - 1, j < i,
                        Tail(batch)[j].event.symbol = Tail(batch)[i].event.symbol
                 PROVE  Tail(batch)[j].event.at <= Tail(batch)[i].event.at
      BY <1>2, <2>1 DEF RowsFollow
    <3>1. j + 1 < i + 1
      OBVIOUS
    <3> QED
      BY <2>2, <3>1 DEF ReplayInv, RowsFollow
  <2>5. RowsAreTimely'
    <3> SUFFICES ASSUME NEW i \in 1 .. Len(batch) - 1
                 PROVE  pipeline'.watermarks[batch[i + 1].event.symbol] <= batch[i + 1].event.at
      BY <1>2, <2>1, <2>2 DEF RowsAreTimely
    <3> DEFINE later == batch[i + 1].event
    <3>1. later \in Events
      BY <2>2 DEF ReplayInv, IsRow
    <3>2. pipeline.watermarks[later.symbol] <= later.at
      BY <1>2, <2>2 DEF ReplayInv, RowsAreTimely
    <3>3. e.symbol = later.symbol => e.at <= later.at
      <4>1. 1 \in 1 .. Len(batch) /\ 1 < i + 1
        BY <1>2
      <4> QED
        BY <1>3, <2>2, <4>1 DEF ReplayInv, RowsFollow
    <3> HIDE DEF later
    <3>4. later.symbol \in Symbols /\ e.symbol \in Symbols
          /\ pipeline.watermarks \in [Symbols -> Int]
      BY <1>3, <3>1 DEF Events, ReplayInv, IsRuntime
    <3>5. pipeline'.watermarks[later.symbol] <= later.at
      BY <2>1, <3>2, <3>3, <3>4
    <3> QED
      BY <3>5 DEF later
  <2> QED
    BY <1>2, <1>6, <2>1, <2>3, <2>4, <2>5 DEF ReplayInv
<1>8. CASE ~ Accepts(pipeline, e)
  <2>1. batch' = <<>>
    BY <1>5, <1>8
  <2> QED
    BY <1>6, <2>1, EmptyIsVector DEF ReplayInv, RowsFollow, RowsAreTimely
<1> QED
  BY <1>7, <1>8

(* Row by row, a replay keeps to the order that was validated before it.   *)
THEOREM ReplayInvariance == ReplaySpec => []ReplayInv
<1>1. ReplayInv /\ [ReplayNext]_replayVars => ReplayInv'
  <2> SUFFICES ASSUME ReplayInv, [ReplayNext]_replayVars
               PROVE  ReplayInv'
    OBVIOUS
  <2>1. CASE UNCHANGED replayVars
    BY <2>1 DEF replayVars, ReplayInv, RowsFollow, RowsAreTimely
  <2>2. CASE ReplayNext
    BY <2>2, CallKeepsReplayInv, ReplayKeepsReplayInv, SupplyKeepsReplayInv,
       HandleKeepsReplayInv DEF ReplayNext
  <2> QED
    BY <2>1, <2>2
<1> QED
  BY <1>1, ReplayStarts, PTL DEF ReplaySpec

(* A replay that began stops only at an update that an order book rejects: *)
(* no row of it is late when its turn comes (replay_events of runtime.rs,   *)
(* which validates all rows before the first is applied).                   *)
THEOREM RowsStayTimely == ReplaySpec => []RowsAreTimely
<1>1. ReplayInv => RowsAreTimely
  BY DEF ReplayInv
<1> QED
  BY <1>1, ReplayInvariance, PTL

-----------------------------------------------------------------------------
(* Graphs.  Whatever is asked for, a specification that was not refused has *)
(* the stages of nodes valid for the layouts of their parents, which were   *)
(* added before them.                                                       *)

WellFormed(spec) ==
  /\ spec = [field \in {"nodes", "outputs"} |-> spec[field]]
  /\ IsVector(spec.nodes)
  /\ \A i \in 1 .. Len(spec.nodes) :
       LET n == spec.nodes[i]
       IN  /\ n.parent \in 0 .. i - 1
           /\ IsStage(n.stage)
           /\ ValidStage(n.stage, NodeIds(spec, n.parent))

AddNodeStep(none, spec, node) == AddNode(spec, node)

AddOutputStep(none, spec, output) == AddOutput(spec, output)

NodeFold == INSTANCE FoldLemmas WITH Step <- AddNodeStep

OutputFold == INSTANCE FoldLemmas WITH Step <- AddOutputStep

LEMMA SpecOfIsFold ==
  ASSUME NEW graph
  PROVE  SpecOf(graph)
           = OutputFold!LeftFold({}, NodeFold!LeftFold({}, NewSpec, graph.nodes), graph.outputs)
<1>1. ASSUME NEW base, NEW seq
      PROVE  FoldLeft(AddNode, base, seq) = NodeFold!LeftFold({}, base, seq)
  BY DEF NodeFold!LeftFold, NodeFold!FoldLeft, NodeFold!MapThenFoldSet, NodeFold!Max,
         FoldLeft, MapThenFoldSet, Max, AddNodeStep
<1>2. ASSUME NEW base, NEW seq
      PROVE  FoldLeft(AddOutput, base, seq) = OutputFold!LeftFold({}, base, seq)
  BY DEF OutputFold!LeftFold, OutputFold!FoldLeft, OutputFold!MapThenFoldSet, OutputFold!Max,
         FoldLeft, MapThenFoldSet, Max, AddOutputStep
<1> QED
  BY <1>1, <1>2 DEF SpecOf

LEMMA AppendIsVector ==
  ASSUME NEW s, IsVector(s), NEW x
  PROVE  LET t == Append(s, x)
         IN  /\ IsVector(t) /\ Len(t) = Len(s) + 1 /\ t[Len(s) + 1] = x
             /\ \A i \in 1 .. Len(s) : t[i] = s[i]
<1> DEFINE S == ToSet(s) \cup {x}
           t == Append(s, x)
<1>1. s \in Seq(S)
  <2>1. s \in Seq(ToSet(s))
    BY DEF IsVector
  <2>2. \A i \in 1 .. Len(s) : s[i] \in S
    BY <2>1
  <2>3. s = [i \in 1 .. Len(s) |-> s[i]] /\ Len(s) \in Nat
    BY <2>1
  <2> HIDE DEF S
  <2> QED BY <2>2, <2>3, IsASeq
<1>2. x \in S
  OBVIOUS
<1> HIDE DEF S
<1>3. /\ t \in Seq(S) /\ Len(t) = Len(s) + 1 /\ t[Len(s) + 1] = x
      /\ \A i \in 1 .. Len(s) : t[i] = s[i]
  BY <1>1, <1>2
<1> HIDE DEF t
<1>4. t \in Seq(ToSet(t))
  <2>1. \A i \in 1 .. Len(t) : t[i] \in ToSet(t)
    BY <1>3 DEF ToSet
  <2>2. t = [i \in 1 .. Len(t) |-> t[i]] /\ Len(t) \in Nat
    BY <1>3
  <2> QED
    BY <2>1, <2>2, IsASeq
<1> QED
  BY <1>3, <1>4 DEF IsVector, t

LEMMA AddNodeKeepsWellFormed ==
  ASSUME NEW spec, WellFormed(spec), NEW node, IsStage(node.stage),
         AddNode(spec, node) # InvalidPipeline
  PROVE  WellFormed(AddNode(spec, node))
<1> DEFINE added == [spec EXCEPT !.nodes = Append(@, node)]
           nodes == Append(spec.nodes, node)
<1>1. /\ AddNode(spec, node) = added
      /\ node.parent \in 0 .. Len(spec.nodes)
      /\ ValidStage(node.stage, NodeIds(spec, node.parent))
  BY DEF AddNode
<1>2. added = [field \in {"nodes", "outputs"} |-> added[field]] /\ added.nodes = nodes
  BY DEF WellFormed
<1>3. /\ IsVector(nodes) /\ Len(nodes) = Len(spec.nodes) + 1
      /\ nodes[Len(spec.nodes) + 1] = node
      /\ \A i \in 1 .. Len(spec.nodes) : nodes[i] = spec.nodes[i]
  BY AppendIsVector DEF WellFormed
<1>4. Len(spec.nodes) \in Nat
  BY VectorFacts DEF WellFormed
<1> HIDE DEF added, nodes
<1>5. ASSUME NEW k \in 0 .. Len(spec.nodes)
      PROVE  NodeIds(added, k) = NodeIds(spec, k)
  <2>1. k # 0 => k \in 1 .. Len(spec.nodes)
    BY <1>4
  <2>2. k # 0 => added.nodes[k] = spec.nodes[k]
    BY <1>2, <1>3, <2>1
  <2> QED
    BY <2>2 DEF NodeIds
<1>6. ASSUME NEW i \in 1 .. Len(nodes)
      PROVE  /\ nodes[i].parent \in 0 .. i - 1
             /\ IsStage(nodes[i].stage)
             /\ ValidStage(nodes[i].stage, NodeIds(added, nodes[i].parent))
  <2>1. CASE i = Len(spec.nodes) + 1
    <3>1. node.parent \in 0 .. i - 1
      BY <1>1, <1>4, <2>1
    <3> QED
      BY <1>1, <1>3, <1>5, <2>1, <3>1
  <2>2. CASE i # Len(spec.nodes) + 1
    <3>1. i \in 1 .. Len(spec.nodes)
      BY <1>3, <1>4, <2>2
    <3>2. /\ spec.nodes[i].parent \in 0 .. i - 1
          /\ IsStage(spec.nodes[i].stage)
          /\ ValidStage(spec.nodes[i].stage, NodeIds(spec, spec.nodes[i].parent))
      BY <3>1 DEF WellFormed
    <3>3. spec.nodes[i].parent \in 0 .. Len(spec.nodes)
      BY <1>4, <3>1, <3>2
    <3> QED
      BY <1>3, <1>5, <3>1, <3>2, <3>3
  <2> QED
    BY <2>1, <2>2
<1> QED
  BY <1>1, <1>2, <1>3, <1>6 DEF WellFormed

LEMMA AddOutputKeepsWellFormed ==
  ASSUME NEW spec, WellFormed(spec), NEW output, AddOutput(spec, output) # InvalidPipeline
  PROVE  WellFormed(AddOutput(spec, output))
<1> DEFINE added == [spec EXCEPT !.outputs = Append(@, output)]
<1>1. AddOutput(spec, output) = added
  BY DEF AddOutput
<1>2. added = [field \in {"nodes", "outputs"} |-> added[field]] /\ added.nodes = spec.nodes
  BY DEF WellFormed
<1> HIDE DEF added
<1>3. \A k : NodeIds(added, k) = NodeIds(spec, k)
  BY <1>2 DEF NodeIds
<1> QED
  BY <1>1, <1>2, <1>3 DEF WellFormed

LEMMA SpecsAreWellFormed ==
  ASSUME NEW graph \in Graphs, SpecOf(graph) # InvalidPipeline
  PROVE  WellFormed(SpecOf(graph))
<1> DEFINE Sound(spec) == spec = InvalidPipeline \/ WellFormed(spec)
           n == Len(graph.nodes)
           m == Len(graph.outputs)
           built == NodeFold!LeftFold({}, NewSpec, graph.nodes)
<1>1. /\ IsVector(graph.nodes) /\ n \in Nat /\ DOMAIN graph.nodes = 1 .. n
      /\ IsVector(graph.outputs) /\ m \in Nat /\ DOMAIN graph.outputs = 1 .. m
      /\ \A i \in 1 .. n : IsStage(graph.nodes[i].stage)
  BY PipelineParameters, VectorFacts
<1>2. Sound(NewSpec)
  <2>1. /\ NewSpec = [field \in {"nodes", "outputs"} |-> NewSpec[field]]
        /\ NewSpec.nodes = <<>>
    BY DEF NewSpec
  <2> QED
    BY <2>1, EmptyIsVector DEF WellFormed
<1>3. Sound(built)
  <2>0. PICK run : NodeFold!LeftRun({}, NewSpec, graph.nodes, n, run)
    BY <1>1, NodeFold!LeftFoldRuns
  <2>1. /\ run[0] = NewSpec
        /\ \A k \in 1 .. n : run[k] = AddNodeStep({}, run[k - 1], graph.nodes[k])
        /\ built = run[n]
    BY <2>0 DEF NodeFold!LeftRun
  <2> DEFINE T == {k \in 0 .. n : Sound(run[k])}
  <2>2. 0 \in T
    BY <1>1, <1>2, <2>1
  <2>3. ASSUME NEW k \in 1 .. n, k - 1 \in T
        PROVE  k \in T
    <3>1. Sound(run[k - 1]) /\ run[k] = AddNode(run[k - 1], graph.nodes[k])
      BY <2>1, <2>3 DEF AddNodeStep
    <3>2. run[k - 1] = InvalidPipeline => run[k] = InvalidPipeline
      BY <3>1 DEF AddNode
    <3> QED
      BY <1>1, <3>1, <3>2, AddNodeKeepsWellFormed
  <2> HIDE DEF T, n
  <2>4. \A k \in 0 .. n : k \in T
    BY <1>1, <2>2, <2>3, UpwardInduction
  <2>5. n \in T
    BY <1>1, <2>4
  <2> QED
    BY <2>1, <2>5 DEF T
<1> HIDE DEF built
<1>0. PICK run : OutputFold!LeftRun({}, built, graph.outputs, m, run)
  BY <1>1, OutputFold!LeftFoldRuns
<1>4. /\ run[0] = built
      /\ \A k \in 1 .. m : run[k] = AddOutputStep({}, run[k - 1], graph.outputs[k])
      /\ OutputFold!LeftFold({}, built, graph.outputs) = run[m]
  BY <1>0 DEF OutputFold!LeftRun
<1> DEFINE T == {k \in 0 .. m : Sound(run[k])}
<1>5. 0 \in T
  BY <1>1, <1>3, <1>4
<1>6. ASSUME NEW k \in 1 .. m, k - 1 \in T
      PROVE  k \in T
  <2>1. Sound(run[k - 1]) /\ run[k] = AddOutput(run[k - 1], graph.outputs[k])
    BY <1>4, <1>6 DEF AddOutputStep
  <2>2. run[k - 1] = InvalidPipeline => run[k] = InvalidPipeline
    BY <2>1 DEF AddOutput
  <2> QED
    BY <2>1, <2>2, AddOutputKeepsWellFormed
<1> HIDE DEF T, m
<1>7. \A k \in 0 .. m : k \in T
  BY <1>1, <1>5, <1>6, UpwardInduction
<1>8. SpecOf(graph) = run[m]
  BY <1>4, SpecOfIsFold DEF built
<1>9. m \in T
  BY <1>1, <1>7
<1> QED
  BY <1>8, <1>9 DEF T

-----------------------------------------------------------------------------
(* Clocks.  What a stage shows of the clocks of its parent depends on those *)
(* and on the newest timestamp, not on what it remembers.                  *)

StageClocks(stage, ids, clocks, global) ==
  CASE stage.kind = "RollingPathSignature" ->
         [o \in 1 .. 6 |-> clocks[Position(ids, stage.input)]]
    [] stage.kind = "Scalar" ->
         [o \in DOMAIN stage.definitions |->
            IF stage.definitions[o].kind = "Lagged" THEN global
            ELSE clocks[Position(ids, stage.definitions[o].input)]]
    [] OTHER ->
         [o \in DOMAIN stage.outputs |-> Max({clocks[c] : c \in ColumnsOf(stage, o)})]

LEMMA StageShowsClocks ==
  ASSUME NEW stage, NEW memory, NEW ids, NEW parent, NEW global, NEW advance
  PROVE  ApplyStage(stage, memory, ids, parent, global, advance).clocks
           = StageClocks(stage, ids, parent.clocks, global)
<1>1. CASE stage.kind = "RollingPathSignature"
  BY <1>1 DEF ApplyStage, ApplySignature, ShownBySignature, StageClocks
<1>2. CASE stage.kind = "Scalar"
  <2>1. ASSUME NEW operations
        PROVE  ShownByScalar(stage, operations, ids, parent, global).clocks
                 = [o \in DOMAIN stage.definitions |->
                      IF stage.definitions[o].kind = "Lagged" THEN global
                      ELSE parent.clocks[Position(ids, stage.definitions[o].input)]]
    BY DEF ShownByScalar, InheritedClock
  <2> QED
    BY <1>2, <2>1 DEF ApplyStage, ApplyScalar, ApplyAll, StageClocks
<1>3. CASE stage.kind # "RollingPathSignature" /\ stage.kind # "Scalar"
  BY <1>3 DEF ApplyStage, StageClocks, ClockOf
<1> QED
  BY <1>1, <1>2, <1>3

(* The columns that the clock of an output is of. *)
ClockColumns(stage, ids, o) ==
  CASE stage.kind = "RollingPathSignature" -> {Position(ids, stage.input)}
    [] stage.kind = "Scalar" -> {Position(ids, stage.definitions[o].input)}
    [] OTHER -> ColumnsOf(stage, o)

FollowsAll(stage, o) == stage.kind = "Scalar" /\ stage.definitions[o].kind = "Lagged"

LEMMA PositionIsColumn ==
  ASSUME NEW ids, IsVector(ids), NEW id \in ToSet(ids)
  PROVE  Position(ids, id) \in 1 .. Len(ids)
<1>1. \E i \in DOMAIN ids : ids[i] = id
  BY DEF ToSet
<1> QED
  BY <1>1, VectorFacts DEF Position

LEMMA LayoutIsVector ==
  ASSUME NEW stage, IsStage(stage)
  PROVE  IsVector(LayoutOf(stage))
<1>1. CASE stage.kind = "Scalar"
  <2> DEFINE d       == stage.definitions
             outputs == [o \in DOMAIN d |-> d[o].output]
  <2>1. IsVector(d) /\ LayoutOf(stage) = outputs
    BY <1>1 DEF IsStage, LayoutOf, ColumnKinds
  <2>2. Len(d) \in Nat /\ DOMAIN d = 1 .. Len(d)
    BY <2>1, VectorFacts
  <2>3. outputs = [o \in 1 .. Len(d) |-> outputs[o]]
    BY <2>2
  <2>4. \A o \in 1 .. Len(d) : outputs[o] \in ToSet(outputs)
    BY <2>2 DEF ToSet
  <2> HIDE DEF outputs
  <2>5. outputs \in Seq(ToSet(outputs))
    BY <2>2, <2>3, <2>4, IsASeq
  <2> QED
    BY <2>1, <2>5 DEF IsVector
<1>2. CASE stage.kind # "Scalar"
  BY <1>2 DEF IsStage, LayoutOf
<1> QED
  BY <1>1, <1>2

LEMMA ValidColumns ==
  ASSUME NEW stage, IsStage(stage), NEW ids, IsVector(ids), ValidStage(stage, ids)
  PROVE  /\ IsVector(LayoutOf(stage))
         /\ \A o \in 1 .. Len(LayoutOf(stage)) :
              /\ ClockColumns(stage, ids, o) # {}
              /\ ClockColumns(stage, ids, o) \subseteq 1 .. Len(ids)
<1> DEFINE Sound(o) == /\ ClockColumns(stage, ids, o) # {}
                       /\ ClockColumns(stage, ids, o) \subseteq 1 .. Len(ids)
<1>1. Len(ids) \in Nat /\ DOMAIN ids = 1 .. Len(ids) /\ ids # <<>>
  BY VectorFacts DEF ValidStage
<1>2. CASE stage.kind = "RollingPathSignature"
  <2>1. IsVector(LayoutOf(stage)) /\ stage.input \in ToSet(ids)
    BY <1>2 DEF IsStage, LayoutOf, ValidStage
  <2> QED
    BY <1>2, <2>1, PositionIsColumn DEF ClockColumns
<1>3. CASE stage.kind = "Scalar"
  <2> DEFINE d == stage.definitions
  <2>1. IsVector(d) /\ LayoutOf(stage) = [o \in DOMAIN d |-> d[o].output]
    BY <1>3 DEF IsStage, LayoutOf, ColumnKinds
  <2>2. ValidDefinitions(d, ToSet(ids))
    BY <1>3 DEF ValidStage
  <2>3. DOMAIN LayoutOf(stage) = 1 .. Len(LayoutOf(stage)) /\ DOMAIN LayoutOf(stage) = DOMAIN d
    BY <2>1, LayoutIsVector, VectorFacts
  <2>4. ASSUME NEW o \in 1 .. Len(LayoutOf(stage))
        PROVE  Sound(o)
    <3>1. d[o].input \in ToSet(ids)
      BY <2>2, <2>3 DEF ValidDefinitions
    <3>2. Position(ids, d[o].input) \in 1 .. Len(ids)
      BY <3>1, PositionIsColumn
    <3> QED
      BY <1>3, <3>2 DEF ClockColumns
  <2> QED
    BY <2>4, LayoutIsVector
<1>4. CASE stage.kind \in ColumnKinds
  <2>1. IsVector(LayoutOf(stage)) /\ LayoutOf(stage) = ids
    BY <1>4 DEF IsStage, LayoutOf, ValidStage, ColumnKinds
  <2>2. \A o : ClockColumns(stage, ids, o) = {o}
    BY <1>4 DEF ClockColumns, ColumnsOf, ColumnKinds
  <2>3. \A o \in 1 .. Len(ids) : {o} # {} /\ {o} \subseteq 1 .. Len(ids)
    OBVIOUS
  <2> QED
    BY <2>1, <2>2, <2>3
<1>5. CASE stage.kind = "Select"
  <2>1. /\ LayoutOf(stage) = stage.outputs /\ IsVector(stage.outputs)
        /\ IsVector(stage.indices) /\ \A i \in DOMAIN stage.indices : stage.indices[i] \in Nat \ {0}
        /\ Len(stage.outputs) = Len(stage.indices)
        /\ \A i \in DOMAIN stage.indices : stage.indices[i] <= Len(ids)
    BY <1>5 DEF IsStage, LayoutOf, ValidStage, ColumnKinds, StrictlyIncreasingInRange
  <2>2. \A o : ClockColumns(stage, ids, o) = {stage.indices[o]}
    BY <1>5 DEF ClockColumns, ColumnsOf, ColumnKinds
  <2>3. DOMAIN stage.indices = 1 .. Len(stage.outputs)
    BY <2>1, VectorFacts
  <2>4. \A o \in 1 .. Len(stage.outputs) : stage.indices[o] \in 1 .. Len(ids)
    BY <1>1, <2>1, <2>3
  <2> QED
    BY <2>1, <2>2, <2>4
<1>6. CASE stage.kind = "SimpleImpute"
  <2> DEFINE columns == stage.retained \o stage.indicators
  <2>1. /\ LayoutOf(stage) = stage.outputs /\ IsVector(stage.outputs)
        /\ IsVector(stage.retained) /\ \A i \in DOMAIN stage.retained : stage.retained[i] \in Nat \ {0}
        /\ IsVector(stage.indicators)
        /\ \A i \in DOMAIN stage.indicators : stage.indicators[i] \in Nat \ {0}
        /\ Len(stage.outputs) = Len(stage.retained) + Len(stage.indicators)
        /\ \A i \in DOMAIN stage.retained : stage.retained[i] <= Len(ids)
        /\ \A i \in DOMAIN stage.indicators : stage.indicators[i] <= Len(ids)
    BY <1>6 DEF IsStage, LayoutOf, ValidStage, ValidImpute, ColumnKinds, StrictlyIncreasingInRange
  <2>2. \A o : ClockColumns(stage, ids, o) = {columns[o]}
    BY <1>6 DEF ClockColumns, ColumnsOf, ColumnKinds
  <2>3. /\ DOMAIN stage.retained = 1 .. Len(stage.retained) /\ Len(stage.retained) \in Nat
        /\ DOMAIN stage.indicators = 1 .. Len(stage.indicators) /\ Len(stage.indicators) \in Nat
    BY <2>1, VectorFacts
  <2>4. ASSUME NEW o \in 1 .. Len(stage.outputs)
        PROVE  columns[o] \in 1 .. Len(ids)
    <3>1. columns[o] = IF o <= Len(stage.retained) THEN stage.retained[o]
                       ELSE stage.indicators[o - Len(stage.retained)]
      BY <2>1, <2>3
    <3>2. CASE o <= Len(stage.retained)
      <4>1. o \in DOMAIN stage.retained
        BY <2>1, <2>3, <3>2
      <4> QED
        BY <1>1, <2>1, <3>1, <3>2, <4>1
    <3>3. CASE ~ (o <= Len(stage.retained))
      <4>1. o \in 1 .. Len(stage.retained) + Len(stage.indicators)
        BY <2>1
      <4>2. ASSUME NEW a \in Nat, NEW b \in Nat, o \in 1 .. a + b, ~ (o <= a)
            PROVE  o - a \in 1 .. b
        BY <4>2
      <4>3. o - Len(stage.retained) \in DOMAIN stage.indicators
        BY <2>3, <3>3, <4>1, <4>2
      <4> QED
        BY <1>1, <2>1, <3>1, <3>3, <4>3
    <3> QED
      BY <3>2, <3>3
  <2> HIDE DEF columns
  <2>5. \A o \in 1 .. Len(stage.outputs) : {columns[o]} # {} /\ {columns[o]} \subseteq 1 .. Len(ids)
    BY <2>4
  <2>6. LayoutOf(stage) = stage.outputs /\ IsVector(stage.outputs)
    BY <2>1
  <2> QED
    BY ONLY <2>2, <2>5, <2>6
<1>7. CASE stage.kind = "Pca"
  <2>1. /\ LayoutOf(stage) = stage.outputs /\ IsVector(stage.outputs)
        /\ IsVector(stage.mean) /\ Len(stage.mean) = Len(ids)
    BY <1>7 DEF IsStage, LayoutOf, ValidStage, ValidPca, ColumnKinds
  <2>2. \A o : ClockColumns(stage, ids, o) = DOMAIN stage.mean
    BY <1>7 DEF ClockColumns, ColumnsOf, ColumnKinds
  <2>3. DOMAIN stage.mean = 1 .. Len(ids) /\ 1 .. Len(ids) # {}
    <3>1. Len(ids) # 0
      BY <1>1 DEF IsVector
    <3>2. 1 \in 1 .. Len(ids)
      BY <1>1, <3>1
    <3> QED
      BY <2>1, <3>2, VectorFacts
  <2> QED
    BY <2>1, <2>2, <2>3
<1> QED
  BY <1>2, <1>3, <1>4, <1>5, <1>6, <1>7 DEF IsStage

(* The newest of the clocks of its columns, or that of all events. *)
IsStageClock(stage, ids, o, clocks, global, clock) ==
  IF FollowsAll(stage, o) THEN clock = global
  ELSE /\ \E c \in ClockColumns(stage, ids, o) : clock = clocks[c]
       /\ \A c \in ClockColumns(stage, ids, o) : clocks[c] <= clock

LEMMA GreatestOf ==
  ASSUME NEW S, IsFiniteSet(S), S # {}, S \subseteq Int
  PROVE  Max(S) \in S /\ \A x \in S : x <= Max(S)
<1>1. \E x \in S : \A y \in S : x >= y
  BY GreatestElement
<1> QED
  BY <1>1 DEF Max

LEMMA StageClockOfColumns ==
  ASSUME NEW stage, IsStage(stage), NEW ids, IsVector(ids), ValidStage(stage, ids),
         NEW clocks \in [1 .. Len(ids) -> Int], NEW global \in Int
  PROVE  LET shown == StageClocks(stage, ids, clocks, global)
         IN  /\ shown \in [1 .. Len(LayoutOf(stage)) -> Int]
             /\ \A o \in 1 .. Len(LayoutOf(stage)) :
                  IsStageClock(stage, ids, o, clocks, global, shown[o])
<1> DEFINE shown == StageClocks(stage, ids, clocks, global)
           width == Len(LayoutOf(stage))
<1>1. /\ IsVector(LayoutOf(stage)) /\ DOMAIN LayoutOf(stage) = 1 .. width
      /\ \A o \in 1 .. width : /\ ClockColumns(stage, ids, o) # {}
                               /\ ClockColumns(stage, ids, o) \subseteq 1 .. Len(ids)
  BY ValidColumns, VectorFacts
<1>2. shown = [o \in 1 .. width |-> shown[o]]
  <2>1. CASE stage.kind = "RollingPathSignature"
    <3>1. width = 6
      BY <2>1 DEF ValidStage
    <3> QED
      BY <2>1, <3>1 DEF StageClocks
  <2>2. CASE stage.kind = "Scalar"
    <3>1. DOMAIN LayoutOf(stage) = DOMAIN stage.definitions
      BY <2>2 DEF LayoutOf
    <3> QED
      BY <1>1, <2>2, <3>1 DEF StageClocks
  <2>3. CASE stage.kind # "RollingPathSignature" /\ stage.kind # "Scalar"
    <3>1. DOMAIN LayoutOf(stage) = DOMAIN stage.outputs
      BY <2>3 DEF LayoutOf
    <3> QED
      BY <1>1, <2>3, <3>1 DEF StageClocks
  <2> QED
    BY <2>1, <2>2, <2>3
<1>3. ASSUME NEW o \in 1 .. width
      PROVE  IsStageClock(stage, ids, o, clocks, global, shown[o]) /\ shown[o] \in Int
  <2> DEFINE columns == ClockColumns(stage, ids, o)
  <2>0. columns # {} /\ columns \subseteq 1 .. Len(ids)
    BY <1>1
  <2>1. CASE stage.kind = "RollingPathSignature"
    <3>1. width = 6
      BY <2>1 DEF ValidStage
    <3>2. columns = {Position(ids, stage.input)} /\ ~ FollowsAll(stage, o)
      BY <2>1 DEF ClockColumns, FollowsAll
    <3>3. shown[o] = clocks[Position(ids, stage.input)]
      BY <2>1, <3>1 DEF StageClocks
    <3> HIDE DEF columns, shown
    <3>4. Position(ids, stage.input) \in 1 .. Len(ids)
      BY <2>0, <3>2
    <3> QED
      BY <3>2, <3>3, <3>4 DEF IsStageClock, columns
  <2>2. CASE stage.kind = "Scalar"
    <3> DEFINE at == Position(ids, stage.definitions[o].input)
    <3>1. DOMAIN LayoutOf(stage) = DOMAIN stage.definitions
      BY <2>2 DEF LayoutOf
    <3>2. columns = {at} /\ (FollowsAll(stage, o) <=> stage.definitions[o].kind = "Lagged")
      BY <2>2 DEF ClockColumns, FollowsAll
    <3>3. shown[o] = IF FollowsAll(stage, o) THEN global ELSE clocks[at]
      BY <1>1, <2>2, <3>1, <3>2 DEF StageClocks
    <3> HIDE DEF columns, shown, at
    <3>4. at \in 1 .. Len(ids)
      BY <2>0, <3>2
    <3> QED
      BY <3>2, <3>3, <3>4 DEF IsStageClock, columns
  <2>3. CASE stage.kind # "RollingPathSignature" /\ stage.kind # "Scalar"
    <3> DEFINE of == {clocks[c] : c \in columns}
    <3>1. DOMAIN LayoutOf(stage) = DOMAIN stage.outputs
      BY <2>3 DEF LayoutOf
    <3>2. columns = ColumnsOf(stage, o) /\ ~ FollowsAll(stage, o)
      BY <2>3 DEF ClockColumns, FollowsAll
    <3> HIDE DEF columns
    <3>3. shown[o] = Max(of)
      BY <1>1, <2>3, <3>1, <3>2 DEF StageClocks
    <3>4. of # {} /\ of \subseteq Int /\ IsFiniteSet(of)
      <4>1. of # {} /\ of \subseteq Int
        BY <2>0
      <4>2. IsFiniteSet(columns)
        <5>1. Len(ids) \in Nat /\ IsFiniteSet(1 .. Len(ids))
          BY VectorFacts, FS_Interval
        <5> QED
          BY <2>0, <5>1, FS_Subset
      <4>3. [c \in columns |-> clocks[c]] \in Surjection(columns, of)
        BY DEF Surjection
      <4> HIDE DEF of
      <4>4. IsFiniteSet(of)
        BY <4>2, <4>3, FS_Surjection
      <4> QED
        BY <4>1, <4>4
    <3>5. Max(of) \in of /\ \A x \in of : x <= Max(of)
      <4> HIDE DEF of
      <4> QED BY <3>4, GreatestOf
    <3> HIDE DEF shown
    <3> QED
      BY <3>2, <3>3, <3>4, <3>5 DEF IsStageClock, columns
  <2> QED
    BY <2>1, <2>2, <2>3
<1> HIDE DEF shown
<1>4. shown \in [1 .. width -> Int]
  BY <1>2, <1>3
<1> QED
  BY <1>3, <1>4 DEF shown

(* Clocks of the parent that move on move those of the stage on. *)
LEMMA StageClocksFollow ==
  ASSUME NEW stage, IsStage(stage), NEW ids, IsVector(ids), ValidStage(stage, ids),
         NEW clocks \in [1 .. Len(ids) -> Int], NEW global \in Int,
         NEW later \in [1 .. Len(ids) -> Int], NEW newest \in Int,
         global <= newest, \A c \in 1 .. Len(ids) : clocks[c] <= later[c]
  PROVE  \A o \in 1 .. Len(LayoutOf(stage)) :
           StageClocks(stage, ids, clocks, global)[o] <= StageClocks(stage, ids, later, newest)[o]
<1> DEFINE width == Len(LayoutOf(stage))
           before == StageClocks(stage, ids, clocks, global)
           after  == StageClocks(stage, ids, later, newest)
<1> SUFFICES ASSUME NEW o \in 1 .. width
             PROVE  before[o] <= after[o]
  OBVIOUS
<1> DEFINE Shown(at, g) ==
             LET shown == StageClocks(stage, ids, at, g)
             IN  shown[o] \in Int /\ IsStageClock(stage, ids, o, at, g, shown[o])
<1>0. ASSUME NEW at \in [1 .. Len(ids) -> Int], NEW g \in Int
      PROVE  Shown(at, g)
  <2> DEFINE shown == StageClocks(stage, ids, at, g)
  <2>1. /\ shown \in [1 .. width -> Int]
        /\ \A other \in 1 .. width : IsStageClock(stage, ids, other, at, g, shown[other])
    BY StageClockOfColumns
  <2> HIDE DEF shown, width
  <2>2. shown[o] \in Int /\ IsStageClock(stage, ids, o, at, g, shown[o])
    BY <2>1
  <2> QED
    BY <2>2 DEF shown
<1> HIDE DEF Shown
<1>1. before[o] \in Int /\ IsStageClock(stage, ids, o, clocks, global, before[o])
  BY <1>0 DEF Shown
<1>2. after[o] \in Int /\ IsStageClock(stage, ids, o, later, newest, after[o])
  BY <1>0 DEF Shown
<1>3. ClockColumns(stage, ids, o) \subseteq 1 .. Len(ids)
  BY ValidColumns
<1> HIDE DEF before, after
<1>4. CASE FollowsAll(stage, o)
  BY <1>1, <1>2, <1>4 DEF IsStageClock
<1>5. CASE ~ FollowsAll(stage, o)
  <2>1. PICK c \in ClockColumns(stage, ids, o) : before[o] = clocks[c]
    BY <1>1, <1>5 DEF IsStageClock
  <2>2. c \in 1 .. Len(ids) /\ later[c] <= after[o]
    BY <1>2, <1>3, <1>5, <2>1 DEF IsStageClock
  <2>3. clocks[c] <= later[c] /\ clocks[c] \in Int /\ later[c] \in Int
    BY <2>2
  <2> QED
    BY <1>1, <1>2, <2>1, <2>2, <2>3
<1> QED
  BY <1>4, <1>5

(* Without any clock before, the stage has none either. *)
LEMMA StageClocksStart ==
  ASSUME NEW stage, IsStage(stage), NEW ids, IsVector(ids), ValidStage(stage, ids),
         NEW clocks \in [1 .. Len(ids) -> Int], \A c \in 1 .. Len(ids) : clocks[c] = Never
  PROVE  \A o \in 1 .. Len(LayoutOf(stage)) : StageClocks(stage, ids, clocks, Never)[o] = Never
<1>0. Never \in Int
  BY PipelineParameters
<1>1. \A o \in 1 .. Len(LayoutOf(stage)) :
        IsStageClock(stage, ids, o, clocks, Never, StageClocks(stage, ids, clocks, Never)[o])
  BY <1>0, StageClockOfColumns
<1>2. \A o \in 1 .. Len(LayoutOf(stage)) : ClockColumns(stage, ids, o) \subseteq 1 .. Len(ids)
  BY ValidColumns
<1> QED
  BY <1>1, <1>2 DEF IsStageClock

-----------------------------------------------------------------------------
(* A refresh computes what each node shows from what its parent shows, in a *)
(* function that is defined by recursion over the nodes.                   *)

RawClocks(p) ==
  [i \in DOMAIN p.raw.clocks |-> IF p.timed THEN EvaluationTimestamp(p, RawIds[i]) ELSE Never]

RefreshedRaw(p) == [p.raw EXCEPT !.clocks = RawClocks(p)]

GlobalClock(p) == IF p.timed THEN p.max ELSE Never

ShownFromParent(p, advance, node, i) ==
  IF i = 0 THEN RefreshedRaw(p)
  ELSE ApplyStage(p.spec.nodes[i].stage, p.nodes[i].memory,
                  NodeIds(p.spec, p.spec.nodes[i].parent), node[p.spec.nodes[i].parent],
                  GlobalClock(p), advance)

Shows(p, advance, node) ==
  node = [i \in 0 .. Len(p.nodes) |-> ShownFromParent(p, advance, node, i)]

LEMMA RefreshShows ==
  ASSUME NEW p, NEW advance
  PROVE  LET node == CHOOSE node : Shows(p, advance, node)
         IN  Refresh(p, advance)
               = [p EXCEPT !.raw = RefreshedRaw(p), !.nodes = [i \in DOMAIN p.nodes |-> node[i]]]
BY DEF Refresh, Shows, ShownFromParent, RefreshedRaw, RawClocks, GlobalClock

(* The runtimes of a specification, node for node. *)
IsRuntimeOf(p, spec) ==
  /\ IsRuntime(p) /\ p.spec = spec /\ WellFormed(spec)
  /\ IsVector(p.nodes) /\ Len(p.nodes) = Len(spec.nodes)
  /\ IsVector(p.raw.clocks) /\ Len(p.raw.clocks) = Len(RawIds)

(* There is such a function, as no node is its own ancestor. *)
LEMMA ShownExists ==
  ASSUME NEW p, NEW spec, IsRuntimeOf(p, spec), NEW advance
  PROVE  \E node : Shows(p, advance, node)
<1> DEFINE n == Len(p.nodes)
           Upto(k, node) == /\ node = [i \in 0 .. n |-> node[i]]
                            /\ \A i \in 0 .. k : node[i] = ShownFromParent(p, advance, node, i)
           T == {k \in 0 .. n : \E node : Upto(k, node)}
<1>1. n \in Nat /\ \A i \in 1 .. n : p.spec.nodes[i].parent \in 0 .. i - 1
  BY VectorFacts DEF IsRuntimeOf, WellFormed
<1>2. 0 \in T
  <2> DEFINE node == [i \in 0 .. n |-> RefreshedRaw(p)]
  <2>1. node = [i \in 0 .. n |-> node[i]] /\ node[0] = RefreshedRaw(p)
    BY <1>1
  <2> HIDE DEF node
  <2>2. \A i \in 0 .. 0 : node[i] = ShownFromParent(p, advance, node, i)
    BY <2>1 DEF ShownFromParent
  <2> QED
    BY <1>1, <2>1, <2>2
<1>3. ASSUME NEW k \in 1 .. n, k - 1 \in T
      PROVE  k \in T
  <2>1. PICK node : Upto(k - 1, node)
    BY <1>3
  <2> DEFINE shown == ShownFromParent(p, advance, node, k)
             next  == [node EXCEPT ![k] = shown]
  <2>2. /\ next = [i \in 0 .. n |-> next[i]]
        /\ next[k] = shown
        /\ \A i \in 0 .. n : i # k => next[i] = node[i]
    <3>1. k \in 0 .. n /\ DOMAIN node = 0 .. n
      BY <1>1, <2>1
    <3> HIDE DEF shown, n
    <3> QED
      BY <3>1
  <2> HIDE DEF next
  <2>3. ASSUME NEW i \in 0 .. k
        PROVE  ShownFromParent(p, advance, next, i) = ShownFromParent(p, advance, node, i)
    <3>1. CASE i = 0
      BY <3>1 DEF ShownFromParent
    <3>2. CASE i # 0
      <4>1. i \in 1 .. n /\ p.spec.nodes[i].parent \in 0 .. i - 1
        BY <1>1, <3>2
      <4>2. p.spec.nodes[i].parent \in 0 .. n /\ p.spec.nodes[i].parent # k
        BY <1>1, <4>1
      <4>3. next[p.spec.nodes[i].parent] = node[p.spec.nodes[i].parent]
        BY <2>2, <4>2
      <4> QED
        BY <4>3 DEF ShownFromParent
    <3> QED
      BY <3>1, <3>2
  <2>4. ASSUME NEW i \in 0 .. k
        PROVE  next[i] = ShownFromParent(p, advance, next, i)
    <3>1. CASE i = k
      BY <2>2, <2>3, <3>1
    <3>2. CASE i # k
      <4>1. i \in 0 .. k - 1 /\ i \in 0 .. n
        BY <1>1, <3>2
      <4> QED
        BY <2>1, <2>2, <2>3, <3>2, <4>1
    <3> QED
      BY <3>1, <3>2
  <2>5. Upto(k, next)
    BY <2>2, <2>4
  <2> HIDE DEF Upto
  <2> QED
    BY <1>1, <2>5
<1> HIDE DEF T, n
<1>4. \A k \in 0 .. n : k \in T
  BY <1>1, <1>2, <1>3, UpwardInduction
<1>5. n \in T
  BY <1>1, <1>4
<1>6. PICK node : Upto(n, node)
  BY <1>5 DEF T
<1>7. Shows(p, advance, node)
  BY <1>6 DEF Shows, n
<1> QED
  BY <1>7

(* What a refresh leaves: each node shows what its stage makes of what its  *)
(* parent shows by then.                                                   *)
NodeShown(p, i) == IF i = 0 THEN p.raw ELSE p.nodes[i]

LEMMA RefreshNodes ==
  ASSUME NEW p, NEW spec, IsRuntimeOf(p, spec), NEW advance
  PROVE  LET q == Refresh(p, advance)
         IN  /\ IsRuntimeOf(q, spec) /\ SameMarketTime(p, q)
             /\ q.raw = RefreshedRaw(p)
             /\ \A i \in 1 .. Len(spec.nodes) :
                  LET n == spec.nodes[i]
                  IN  q.nodes[i] = ApplyStage(n.stage, p.nodes[i].memory, NodeIds(spec, n.parent),
                                              NodeShown(q, n.parent), GlobalClock(p), advance)
<1> DEFINE q     == Refresh(p, advance)
           node  == CHOOSE node : Shows(p, advance, node)
           nodes == [i \in DOMAIN p.nodes |-> node[i]]
           n     == Len(p.nodes)
<1>1. n \in Nat /\ DOMAIN p.nodes = 1 .. n /\ n = Len(spec.nodes)
  BY VectorFacts DEF IsRuntimeOf
<1>2. Shows(p, advance, node)
  BY ShownExists
<1>3. q = [p EXCEPT !.raw = RefreshedRaw(p), !.nodes = nodes]
  BY RefreshShows
<1> HIDE DEF node
<1>4. /\ nodes = [i \in 1 .. n |-> nodes[i]]
      /\ \A i \in 1 .. n : nodes[i] = ShownFromParent(p, advance, node, i)
      /\ \A i \in 0 .. n : node[i] = IF i = 0 THEN RefreshedRaw(p) ELSE nodes[i]
  <2>1. \A i \in 0 .. n : node[i] = ShownFromParent(p, advance, node, i)
    BY <1>2 DEF Shows
  <2>2. ShownFromParent(p, advance, node, 0) = RefreshedRaw(p)
    BY DEF ShownFromParent
  <2>3. \A i \in 0 .. n : (i = 0 \/ i \in 1 .. n) /\ (i \in 1 .. n => i # 0)
    BY <1>1
  <2>4. \A i \in 1 .. n : i \in 0 .. n /\ nodes[i] = node[i]
    BY <1>1
  <2>5. nodes = [i \in 1 .. n |-> nodes[i]]
    BY <1>1
  <2> HIDE DEF nodes, n
  <2> QED
    BY <2>1, <2>2, <2>3, <2>4, <2>5
<1> HIDE DEF nodes, q
<1>5. /\ IsRuntime(q) /\ SameMarketTime(p, q)
      /\ q.raw = RefreshedRaw(p) /\ q.raw.clocks = RawClocks(p) /\ q.nodes = nodes
  <2>1. IsRuntime(p)
    BY DEF IsRuntimeOf
  <2> DEFINE written == Written(p, RawClocks(p), nodes)
  <2>2. /\ IsRuntime(written) /\ SameMarketTime(p, written)
        /\ written.raw.clocks = RawClocks(p) /\ written.nodes = nodes
    BY <2>1, RefreshWrites
  <2>3. q = written
    BY <1>3 DEF RefreshedRaw, Written
  <2>4. written.raw = RefreshedRaw(p)
    BY <2>1 DEF Written, RefreshedRaw, IsRuntime, RuntimeFields
  <2> HIDE DEF written
  <2> QED
    BY <2>2, <2>3, <2>4
<1>6. IsVector(nodes) /\ Len(nodes) = n
  <2>1. \A i \in 1 .. n : nodes[i] \in ToSet(nodes)
    BY <1>1, <1>4 DEF ToSet
  <2>2. nodes \in Seq(ToSet(nodes))
    BY <1>1, <1>4, <2>1, IsASeq
  <2> QED
    BY <1>1, <1>4, <2>2 DEF IsVector
<1>7. IsVector(RawClocks(p)) /\ Len(RawClocks(p)) = Len(RawIds)
  <2> DEFINE clocks == RawClocks(p)
             m == Len(p.raw.clocks)
  <2>1. m \in Nat /\ DOMAIN p.raw.clocks = 1 .. m /\ m = Len(RawIds)
    BY VectorFacts DEF IsRuntimeOf
  <2>2. clocks = [i \in 1 .. m |-> clocks[i]]
    BY <2>1 DEF RawClocks
  <2> HIDE DEF clocks
  <2>3. \A i \in 1 .. m : clocks[i] \in ToSet(clocks)
    BY <2>2 DEF ToSet
  <2> HIDE DEF m
  <2>4. clocks \in Seq(ToSet(clocks))
    BY <2>1, <2>2, <2>3, IsASeq
  <2> QED
    BY <2>1, <2>2, <2>4 DEF IsVector, clocks
<1>8. IsRuntimeOf(q, spec)
  BY <1>1, <1>5, <1>6, <1>7 DEF IsRuntimeOf, SameMarketTime
<1>9. ASSUME NEW i \in 1 .. n
      PROVE  q.nodes[i] = ApplyStage(spec.nodes[i].stage, p.nodes[i].memory,
                                     NodeIds(spec, spec.nodes[i].parent),
                                     NodeShown(q, spec.nodes[i].parent), GlobalClock(p), advance)
  <2> DEFINE parent == spec.nodes[i].parent
  <2>1. parent \in 0 .. i - 1 /\ p.spec = spec
    BY <1>1 DEF IsRuntimeOf, WellFormed
  <2>2. parent \in 0 .. n /\ (parent # 0 => parent \in 1 .. n) /\ i # 0
    BY <1>1, <2>1
  <2> HIDE DEF parent
  <2>3. node[parent] = NodeShown(q, parent)
    BY <1>4, <1>5, <2>2 DEF NodeShown
  <2>4. q.nodes[i] = ApplyStage(spec.nodes[i].stage, p.nodes[i].memory, NodeIds(spec, parent),
                                node[parent], GlobalClock(p), advance)
    BY <1>4, <1>5, <2>1, <2>2 DEF ShownFromParent, parent
  <2> QED
    BY <2>3, <2>4 DEF parent
<1> QED
  BY <1>1, <1>5, <1>8, <1>9 DEF q

LEMMA RefreshedRawShows ==
  ASSUME NEW p, IsRuntime(p)
  PROVE  /\ RefreshedRaw(p).values = p.raw.values
         /\ RefreshedRaw(p).observed = p.raw.observed
         /\ RefreshedRaw(p).clocks = RawClocks(p)
BY DEF RefreshedRaw, IsRuntime, CellFields

(* Nodes have the clocks that their stages show of those of their parents. *)
NodeClocks(p, i) == IF i = 0 THEN p.raw.clocks ELSE p.nodes[i].clocks

ClocksOfParent(p, i) ==
  LET n == p.spec.nodes[i]
  IN  StageClocks(n.stage, NodeIds(p.spec, n.parent), NodeClocks(p, n.parent), GlobalClock(p))

LEMMA RefreshClocks ==
  ASSUME NEW p, NEW spec, IsRuntimeOf(p, spec), NEW advance
  PROVE  LET q == Refresh(p, advance)
         IN  /\ IsRuntimeOf(q, spec) /\ SameMarketTime(p, q)
             /\ q.raw.clocks = RawClocks(p)
             /\ \A i \in 1 .. Len(spec.nodes) : q.nodes[i].clocks = ClocksOfParent(q, i)
<1> DEFINE q == Refresh(p, advance)
           n == Len(spec.nodes)
<1>1. /\ IsRuntimeOf(q, spec) /\ SameMarketTime(p, q)
      /\ q.raw = RefreshedRaw(p)
      /\ \A i \in 1 .. n :
           q.nodes[i] = ApplyStage(spec.nodes[i].stage, p.nodes[i].memory,
                                   NodeIds(spec, spec.nodes[i].parent),
                                   NodeShown(q, spec.nodes[i].parent), GlobalClock(p), advance)
  BY RefreshNodes
<1> HIDE DEF q
<1>2. q.raw.clocks = RawClocks(p)
  BY <1>1, RefreshedRawShows DEF IsRuntimeOf
<1>3. ASSUME NEW i \in 1 .. n
      PROVE  q.nodes[i].clocks = ClocksOfParent(q, i)
  <2> DEFINE parent == spec.nodes[i].parent
  <2>1. NodeShown(q, parent).clocks = NodeClocks(q, parent)
    BY DEF NodeShown, NodeClocks
  <2>2. q.spec = spec /\ GlobalClock(q) = GlobalClock(p)
    BY <1>1 DEF SameMarketTime, GlobalClock, IsRuntimeOf
  <2>3. q.nodes[i].clocks = StageClocks(spec.nodes[i].stage, NodeIds(spec, parent),
                                        NodeShown(q, parent).clocks, GlobalClock(p))
    BY <1>1, StageShowsClocks
  <2> QED
    BY <2>1, <2>2, <2>3 DEF ClocksOfParent
<1> QED
  BY <1>1, <1>2, <1>3 DEF q

(* No clock is ahead of those that it is of, and these never go back: that  *)
(* is what makes the clocks of a node follow events one way only.          *)
ClocksFollow(p, spec) ==
  /\ IsRuntimeOf(p, spec)
  /\ \A i \in 0 .. Len(spec.nodes) : NodeClocks(p, i) \in [1 .. Len(NodeIds(spec, i)) -> Int]
  /\ \A r \in 1 .. Len(RawIds) : p.raw.clocks[r] <= RawClocks(p)[r]
  /\ \A i \in 1 .. Len(spec.nodes) :
       \A o \in 1 .. Len(NodeIds(spec, i)) : p.nodes[i].clocks[o] <= ClocksOfParent(p, i)[o]

ClocksGrow(p, q, spec) ==
  \A i \in 0 .. Len(spec.nodes) :
    \A o \in 1 .. Len(NodeIds(spec, i)) : NodeClocks(p, i)[o] <= NodeClocks(q, i)[o]

(* The market of a runtime moves on, and its clocks are still to follow. *)
LaterMarket(p, q) ==
  /\ IsRuntime(q) /\ q.spec = p.spec /\ q.timed = p.timed
  /\ \A symbol \in Symbols : p.watermarks[symbol] <= q.watermarks[symbol]
  /\ p.max <= q.max
  /\ q.raw.clocks = p.raw.clocks /\ q.nodes = p.nodes

LEMMA MarketClocksType ==
  ASSUME NEW p, NEW spec, IsRuntimeOf(p, spec)
  PROVE  /\ RawClocks(p) \in [1 .. Len(RawIds) -> Int]
         /\ GlobalClock(p) \in Int
<1>1. DOMAIN p.raw.clocks = 1 .. Len(RawIds)
  BY VectorFacts DEF IsRuntimeOf
<1>2. Never \in Int /\ p.max \in Int /\ p.watermarks \in [Symbols -> Int]
  BY PipelineParameters DEF IsRuntimeOf, IsRuntime
<1>3. \A id : EvaluationTimestamp(p, id) \in Int
  BY <1>2 DEF EvaluationTimestamp
<1> QED
  BY <1>1, <1>2, <1>3 DEF RawClocks, GlobalClock

LEMMA LayoutsAreVectors ==
  ASSUME NEW spec, WellFormed(spec), NEW i \in 0 .. Len(spec.nodes)
  PROVE  IsVector(NodeIds(spec, i))
<1>1. CASE i = 0
  BY <1>1, PipelineParameters DEF NodeIds
<1>2. CASE i # 0
  <2>1. i \in 1 .. Len(spec.nodes)
    BY <1>2, VectorFacts DEF WellFormed
  <2>2. IsStage(spec.nodes[i].stage)
    BY <2>1 DEF WellFormed
  <2> QED
    BY <1>2, <2>2, LayoutIsVector DEF NodeIds
<1> QED
  BY <1>1, <1>2

(* The stage of a node, with the layouts of its parent and its own. *)
LEMMA NodeOfSpec ==
  ASSUME NEW spec, WellFormed(spec), NEW i \in 1 .. Len(spec.nodes)
  PROVE  LET n == spec.nodes[i]
         IN  /\ n.parent \in 0 .. i - 1 /\ n.parent \in 0 .. Len(spec.nodes)
             /\ IsStage(n.stage) /\ IsVector(NodeIds(spec, n.parent))
             /\ ValidStage(n.stage, NodeIds(spec, n.parent))
             /\ NodeIds(spec, i) = LayoutOf(n.stage)
<1> DEFINE n == spec.nodes[i]
<1>1. n.parent \in 0 .. i - 1 /\ IsStage(n.stage) /\ ValidStage(n.stage, NodeIds(spec, n.parent))
  BY DEF WellFormed
<1>2. Len(spec.nodes) \in Nat
  BY VectorFacts DEF WellFormed
<1>3. n.parent \in 0 .. Len(spec.nodes) /\ i # 0
  BY <1>1, <1>2
<1>4. IsVector(NodeIds(spec, n.parent))
  BY <1>3, LayoutsAreVectors
<1> QED
  BY <1>1, <1>3, <1>4 DEF NodeIds

LEMMA MarketClocksGrow ==
  ASSUME NEW p, NEW spec, IsRuntimeOf(p, spec), NEW q, IsRuntimeOf(q, spec), q.timed = p.timed,
         p.max <= q.max, \A symbol \in Symbols : p.watermarks[symbol] <= q.watermarks[symbol]
  PROVE  /\ GlobalClock(p) <= GlobalClock(q)
         /\ \A r \in 1 .. Len(RawIds) : RawClocks(p)[r] <= RawClocks(q)[r]
<1>1. DOMAIN p.raw.clocks = 1 .. Len(RawIds) /\ DOMAIN q.raw.clocks = 1 .. Len(RawIds)
  BY VectorFacts DEF IsRuntimeOf
<1>2. Never <= Never
  BY PipelineParameters
<1>3. \A id : EvaluationTimestamp(p, id) <= EvaluationTimestamp(q, id)
  BY <1>2 DEF EvaluationTimestamp
<1>4. GlobalClock(p) <= GlobalClock(q)
  BY <1>2 DEF GlobalClock
<1>5. \A r \in 1 .. Len(RawIds) : RawClocks(p)[r] <= RawClocks(q)[r]
  BY <1>1, <1>2, <1>3 DEF RawClocks
<1> QED
  BY <1>4, <1>5

(* A refresh after the market has moved on moves every clock on. *)
LEMMA RefreshAdvances ==
  ASSUME NEW p, NEW spec, ClocksFollow(p, spec), NEW q, LaterMarket(p, q), NEW advance
  PROVE  LET r == Refresh(q, advance)
         IN  ClocksFollow(r, spec) /\ ClocksGrow(p, r, spec)
<1> DEFINE r == Refresh(q, advance)
           n == Len(spec.nodes)
           Typed(i) == NodeClocks(r, i) \in [1 .. Len(NodeIds(spec, i)) -> Int]
           Grown(i) == \A o \in 1 .. Len(NodeIds(spec, i)) : NodeClocks(p, i)[o] <= NodeClocks(r, i)[o]
           T == {k \in 0 .. n : \A i \in 0 .. k : Typed(i) /\ Grown(i)}
<1>1. /\ IsRuntimeOf(p, spec) /\ p.spec = spec /\ WellFormed(spec) /\ n \in Nat
      /\ \A i \in 0 .. n : NodeClocks(p, i) \in [1 .. Len(NodeIds(spec, i)) -> Int]
  BY VectorFacts DEF ClocksFollow, IsRuntimeOf, WellFormed
<1>2. IsRuntimeOf(q, spec)
  BY <1>1 DEF LaterMarket, IsRuntimeOf
<1>3. /\ IsRuntimeOf(r, spec) /\ SameMarketTime(q, r)
      /\ r.raw.clocks = RawClocks(q)
      /\ \A i \in 1 .. n : r.nodes[i].clocks = ClocksOfParent(r, i)
  BY <1>2, RefreshClocks
<1> HIDE DEF r
<1>4. r.spec = spec /\ r.timed = p.timed /\ r.max = q.max /\ r.watermarks = q.watermarks
  BY <1>2, <1>3 DEF SameMarketTime, LaterMarket, IsRuntimeOf
<1>5. /\ GlobalClock(p) <= GlobalClock(r)
      /\ \A c \in 1 .. Len(RawIds) : RawClocks(p)[c] <= RawClocks(r)[c]
  BY <1>1, <1>3, <1>4, MarketClocksGrow DEF LaterMarket
<1>6. /\ RawClocks(p) \in [1 .. Len(RawIds) -> Int] /\ GlobalClock(p) \in Int
      /\ RawClocks(r) \in [1 .. Len(RawIds) -> Int] /\ GlobalClock(r) \in Int
  BY <1>1, <1>3, MarketClocksType
<1>7. r.raw.clocks = RawClocks(r)
  <2>1. DOMAIN q.raw.clocks = 1 .. Len(RawIds) /\ DOMAIN r.raw.clocks = 1 .. Len(RawIds)
    BY <1>2, <1>3, VectorFacts DEF IsRuntimeOf
  <2>2. \A id : EvaluationTimestamp(q, id) = EvaluationTimestamp(r, id)
    BY <1>4 DEF EvaluationTimestamp
  <2>3. q.timed = r.timed
    BY <1>4 DEF LaterMarket
  <2>4. RawClocks(q) = RawClocks(r)
    BY <2>1, <2>2, <2>3 DEF RawClocks
  <2> QED
    BY <1>3, <2>4
<1>8. 0 \in T
  <2>1. NodeClocks(p, 0) = p.raw.clocks /\ NodeClocks(r, 0) = RawClocks(r)
        /\ NodeIds(spec, 0) = RawIds
    BY <1>7 DEF NodeClocks, NodeIds
  <2>2. p.raw.clocks \in [1 .. Len(RawIds) -> Int]
    BY <1>1, <2>1
  <2>3. \A c \in 1 .. Len(RawIds) : p.raw.clocks[c] <= RawClocks(p)[c]
    BY DEF ClocksFollow
  <2>4. ASSUME NEW c \in 1 .. Len(RawIds)
        PROVE  p.raw.clocks[c] <= RawClocks(r)[c]
    <3>1. p.raw.clocks[c] \in Int /\ RawClocks(p)[c] \in Int /\ RawClocks(r)[c] \in Int
      BY <1>6, <2>2
    <3> QED
      BY <1>5, <2>3, <3>1
  <2>5. Typed(0) /\ Grown(0)
    BY <1>6, <2>1, <2>4
  <2>6. \A i \in 0 .. 0 : i = 0
    OBVIOUS
  <2> HIDE DEF Typed, Grown
  <2> QED
    BY <1>1, <2>5, <2>6
<1>9. ASSUME NEW k \in 1 .. n, k - 1 \in T
      PROVE  k \in T
  <2> DEFINE stage  == spec.nodes[k].stage
             parent == spec.nodes[k].parent
             ids    == NodeIds(spec, parent)
             width  == Len(NodeIds(spec, k))
  <2>1. /\ parent \in 0 .. k - 1 /\ parent \in 0 .. n
        /\ IsStage(stage) /\ IsVector(ids) /\ ValidStage(stage, ids)
        /\ NodeIds(spec, k) = LayoutOf(stage)
    BY <1>1, NodeOfSpec
  <2>2. Typed(parent) /\ Grown(parent)
    BY <1>9, <2>1
  <2>3. /\ ClocksOfParent(p, k) = StageClocks(stage, ids, NodeClocks(p, parent), GlobalClock(p))
        /\ ClocksOfParent(r, k) = StageClocks(stage, ids, NodeClocks(r, parent), GlobalClock(r))
    BY <1>1, <1>4 DEF ClocksOfParent
  <2>4. k # 0 /\ NodeClocks(r, k) = ClocksOfParent(r, k) /\ NodeClocks(p, k) = p.nodes[k].clocks
    BY <1>1, <1>3 DEF NodeClocks
  <2>5. NodeClocks(p, parent) \in [1 .. Len(ids) -> Int]
    BY <1>1, <2>1
  <2> HIDE DEF stage, parent, ids
  <2>6. /\ ClocksOfParent(p, k) \in [1 .. width -> Int]
        /\ ClocksOfParent(r, k) \in [1 .. width -> Int]
    <3>1. ASSUME NEW clocks \in [1 .. Len(ids) -> Int], NEW global \in Int
          PROVE  StageClocks(stage, ids, clocks, global) \in [1 .. Len(LayoutOf(stage)) -> Int]
      <4> HIDE DEF width
      <4> QED BY <2>1, StageClockOfColumns
    <3>2. StageClocks(stage, ids, NodeClocks(p, parent), GlobalClock(p))
            \in [1 .. Len(LayoutOf(stage)) -> Int]
      BY <1>6, <2>5, <3>1
    <3>3. StageClocks(stage, ids, NodeClocks(r, parent), GlobalClock(r))
            \in [1 .. Len(LayoutOf(stage)) -> Int]
      BY <1>6, <2>2, <3>1 DEF ids
    <3> QED
      BY <2>1, <2>3, <3>2, <3>3
  <2>7. \A o \in 1 .. width : ClocksOfParent(p, k)[o] <= ClocksOfParent(r, k)[o]
    BY <1>5, <1>6, <2>1, <2>2, <2>3, <2>5, StageClocksFollow DEF ids
  <2>8. \A o \in 1 .. width : p.nodes[k].clocks[o] <= ClocksOfParent(p, k)[o]
    BY DEF ClocksFollow
  <2>9. p.nodes[k].clocks \in [1 .. width -> Int]
    BY <1>1, <2>4
  <2>10. ASSUME NEW o \in 1 .. width
         PROVE  p.nodes[k].clocks[o] <= ClocksOfParent(r, k)[o]
    <3>1. /\ p.nodes[k].clocks[o] \in Int /\ ClocksOfParent(p, k)[o] \in Int
          /\ ClocksOfParent(r, k)[o] \in Int
      BY <2>6, <2>9
    <3> QED
      BY <2>7, <2>8, <3>1
  <2>11. Typed(k) /\ Grown(k)
    BY <2>4, <2>6, <2>10
  <2>12. \A i \in 0 .. k : i = k \/ i \in 0 .. k - 1
    BY <1>1
  <2> HIDE DEF Typed, Grown
  <2> QED
    BY <1>1, <1>9, <2>11, <2>12
<1> HIDE DEF T, n
<1>10. \A k \in 0 .. n : k \in T
  BY <1>1, <1>8, <1>9, UpwardInduction
<1>11. \A i \in 0 .. n : Typed(i) /\ Grown(i)
  <2>1. n \in T /\ \A i \in 0 .. n : i \in 0 .. n
    BY <1>1, <1>10
  <2> QED
    BY <2>1 DEF T
<1>12. ASSUME NEW i \in 1 .. n, NEW o \in 1 .. Len(NodeIds(spec, i))
       PROVE  r.nodes[i].clocks[o] <= ClocksOfParent(r, i)[o]
  <2>1. i \in 0 .. n /\ i # 0
    BY <1>1
  <2>2. r.nodes[i].clocks[o] \in Int
    BY <1>11, <2>1 DEF NodeClocks
  <2> QED
    BY <1>3, <2>2 DEF n
<1>13. \A c \in 1 .. Len(RawIds) : r.raw.clocks[c] <= RawClocks(r)[c]
  BY <1>6, <1>7
<1> QED
  BY <1>3, <1>11, <1>12, <1>13 DEF ClocksFollow, ClocksGrow, r, n

-----------------------------------------------------------------------------
(* Every call keeps the clocks in that order.                              *)

LEMMA BlankClocks ==
  ASSUME NEW ids, IsVector(ids)
  PROVE  /\ Blank(ids).clocks = [c \in 1 .. Len(ids) |-> Never]
         /\ IsVector(Blank(ids).clocks) /\ Len(Blank(ids).clocks) = Len(ids)
<1> DEFINE clocks == Blank(ids).clocks
<1>1. Len(ids) \in Nat /\ clocks = [c \in 1 .. Len(ids) |-> Never]
  BY VectorFacts DEF Blank
<1> HIDE DEF clocks
<1>2. \A c \in 1 .. Len(ids) : clocks[c] \in ToSet(clocks)
  BY <1>1 DEF ToSet
<1>3. clocks = [c \in 1 .. Len(ids) |-> clocks[c]]
  BY <1>1
<1>4. clocks \in Seq(ToSet(clocks))
  BY <1>1, <1>2, <1>3, IsASeq
<1> QED
  BY <1>1, <1>4 DEF IsVector, clocks

LEMMA NewClocksFollow ==
  ASSUME NEW spec, WellFormed(spec)
  PROVE  ClocksFollow(NewPipeline(spec), spec)
<1> DEFINE p == NewPipeline(spec)
           n == Len(spec.nodes)
<1>1. n \in Nat /\ DOMAIN spec.nodes = 1 .. n
  BY VectorFacts DEF WellFormed
<1>2. /\ IsRuntime(p) /\ p.spec = spec /\ p.max = Never
      /\ p.watermarks = [symbol \in Symbols |-> Never]
  BY NewRuntime
<1>3. /\ p.raw.clocks = [r \in 1 .. Len(RawIds) |-> Never]
      /\ IsVector(p.raw.clocks) /\ Len(p.raw.clocks) = Len(RawIds)
  <2>1. p.raw.clocks = Blank(RawIds).clocks
    BY DEF NewPipeline
  <2> QED
    BY <2>1, BlankClocks, PipelineParameters
<1>4. /\ p.nodes = [i \in 1 .. n |-> p.nodes[i]]
      /\ \A i \in 1 .. n : p.nodes[i].clocks = Blank(NodeIds(spec, i)).clocks
  BY <1>1 DEF NewPipeline
<1>5. IsVector(p.nodes) /\ Len(p.nodes) = n
  <2> DEFINE nodes == p.nodes
  <2>1. nodes = [i \in 1 .. n |-> nodes[i]]
    BY <1>4
  <2> HIDE DEF nodes
  <2>2. \A i \in 1 .. n : nodes[i] \in ToSet(nodes)
    BY <2>1 DEF ToSet
  <2>3. nodes \in Seq(ToSet(nodes))
    BY <1>1, <2>1, <2>2, IsASeq
  <2> QED
    BY <1>1, <2>1, <2>3 DEF IsVector, nodes
<1> HIDE DEF p, n
<1>6. IsRuntimeOf(p, spec)
  BY <1>2, <1>3, <1>5 DEF IsRuntimeOf, n
<1>7. ASSUME NEW i \in 0 .. n
      PROVE  NodeClocks(p, i) = [c \in 1 .. Len(NodeIds(spec, i)) |-> Never]
  <2>1. CASE i = 0
    BY <1>3, <2>1 DEF NodeClocks, NodeIds
  <2>2. CASE i # 0
    <3>1. i \in 1 .. n
      BY <1>1, <2>2
    <3> QED
      BY <1>4, <2>2, <3>1, LayoutsAreVectors, BlankClocks DEF NodeClocks, n
  <2> QED
    BY <2>1, <2>2
<1>8. Never \in Int /\ GlobalClock(p) = Never
  BY <1>2, PipelineParameters DEF GlobalClock
<1>9. ASSUME NEW r \in 1 .. Len(RawIds)
      PROVE  p.raw.clocks[r] <= RawClocks(p)[r]
  <2>1. RawClocks(p)[r] = Never
    BY <1>2, <1>3 DEF RawClocks, EvaluationTimestamp
  <2> QED
    BY <1>3, <1>8, <2>1
<1>10. ASSUME NEW i \in 1 .. n, NEW o \in 1 .. Len(NodeIds(spec, i))
       PROVE  p.nodes[i].clocks[o] <= ClocksOfParent(p, i)[o]
  <2> DEFINE stage  == spec.nodes[i].stage
             parent == spec.nodes[i].parent
             ids    == NodeIds(spec, parent)
  <2>1. /\ parent \in 0 .. n
        /\ IsStage(stage) /\ IsVector(ids) /\ ValidStage(stage, ids)
        /\ NodeIds(spec, i) = LayoutOf(stage)
    BY NodeOfSpec DEF n
  <2>2. ClocksOfParent(p, i) = StageClocks(stage, ids, NodeClocks(p, parent), Never)
    BY <1>2, <1>8 DEF ClocksOfParent
  <2>3. p.nodes[i].clocks[o] = Never
    <3>1. i \in 0 .. n /\ i # 0
      BY <1>1
    <3>2. NodeClocks(p, i) = [c \in 1 .. Len(NodeIds(spec, i)) |-> Never]
      BY <1>7, <3>1
    <3> QED
      BY <3>1, <3>2 DEF NodeClocks
  <2> HIDE DEF stage, parent
  <2>4. NodeClocks(p, parent) \in [1 .. Len(ids) -> Int]
        /\ \A c \in 1 .. Len(ids) : NodeClocks(p, parent)[c] = Never
    BY <1>7, <1>8, <2>1
  <2> HIDE DEF ids
  <2>5. \A k \in 1 .. Len(LayoutOf(stage)) :
          StageClocks(stage, ids, NodeClocks(p, parent), Never)[k] = Never
    BY <2>1, <2>4, StageClocksStart
  <2> QED
    BY <1>8, <2>1, <2>2, <2>3, <2>5
<1>11. \A i \in 0 .. n : NodeClocks(p, i) \in [1 .. Len(NodeIds(spec, i)) -> Int]
  BY <1>7, <1>8
<1> QED
  BY <1>6, <1>9, <1>10, <1>11 DEF ClocksFollow, n, p

(* What a step leaves in order, and does not set back. *)
Advances(p, q) == ClocksFollow(q, p.spec) /\ ClocksGrow(p, q, p.spec)

LEMMA StayingAdvances ==
  ASSUME NEW p, ClocksFollow(p, p.spec)
  PROVE  Advances(p, p)
<1>1. \A i \in 0 .. Len(p.spec.nodes) :
        NodeClocks(p, i) \in [1 .. Len(NodeIds(p.spec, i)) -> Int]
  BY DEF ClocksFollow
<1>2. ClocksGrow(p, p, p.spec)
  BY <1>1 DEF ClocksGrow
<1> QED
  BY <1>2 DEF Advances

LEMMA EventAdvances ==
  ASSUME NEW p, ClocksFollow(p, p.spec), NEW e \in Events
  PROVE  Advances(p, HandleEvent(p, e))
<1>1. CASE Accepts(p, e)
  <2> DEFINE q == Observed(p, e)
  <2>1. IsRuntime(p) /\ p.watermarks \in [Symbols -> Int] /\ p.max \in Int
    BY DEF ClocksFollow, IsRuntimeOf, IsRuntime
  <2>2. /\ IsRuntime(q) /\ q.spec = p.spec /\ q.timed = p.timed
        /\ q.watermarks = [p.watermarks EXCEPT ![e.symbol] = e.at]
        /\ q.max >= p.max
        /\ q.raw.clocks = p.raw.clocks /\ q.nodes = p.nodes
    BY <2>1, EventWrites
  <2>3. p.watermarks[e.symbol] <= e.at /\ q.max \in Int
    BY <1>1, <2>2 DEF Accepts, IsRuntime
  <2> HIDE DEF q
  <2>4. LaterMarket(p, q)
    <3>1. \A symbol \in Symbols : p.watermarks[symbol] <= q.watermarks[symbol]
      BY <2>1, <2>2, <2>3
    <3>2. p.max <= q.max
      BY <2>1, <2>2, <2>3
    <3> QED
      BY <2>2, <3>1, <3>2 DEF LaterMarket
  <2>5. Advances(p, Refresh(q, TRUE))
    BY <2>4, RefreshAdvances DEF Advances
  <2> QED
    BY <1>1, <2>5 DEF HandleEvent, q
<1>2. CASE ~ Accepts(p, e)
  BY <1>2, StayingAdvances DEF HandleEvent
<1> QED
  BY <1>1, <1>2

LEMMA ContextAdvances ==
  ASSUME NEW p, ClocksFollow(p, p.spec), NEW updates
  PROVE  Advances(p, UpdateContext(p, updates))
<1>1. CASE updates = <<>>
  BY <1>1, StayingAdvances DEF UpdateContext
<1>2. CASE updates # <<>>
  <2> DEFINE q == Supplied(p, updates)
  <2>1. IsRuntime(p) /\ p.watermarks \in [Symbols -> Int] /\ p.max \in Int
    BY DEF ClocksFollow, IsRuntimeOf, IsRuntime
  <2>2. /\ IsRuntime(q) /\ SameMarketTime(p, q)
        /\ q.raw.clocks = p.raw.clocks /\ q.nodes = p.nodes
    BY <2>1, SupplyWrites
  <2> HIDE DEF q
  <2>3. LaterMarket(p, q)
    BY <2>1, <2>2 DEF LaterMarket, SameMarketTime
  <2>4. Advances(p, Refresh(q, FALSE))
    BY <2>3, RefreshAdvances DEF Advances
  <2> QED
    BY <1>2, <2>4 DEF UpdateContext, q
<1> QED
  BY <1>1, <1>2

ClockInv == ClocksFollow(pipeline, pipeline.spec)

(* Every step of a replay is a call, and only a reset begins anew. *)
LEMMA CallAdvances ==
  ReplayInv /\ ClockInv /\ [ReplayNext]_replayVars
    => \/ Advances(pipeline, pipeline')
       \/ pipeline' = NewPipeline(pipeline.spec)
<1> SUFFICES ASSUME ReplayInv, ClockInv, [ReplayNext]_replayVars
             PROVE  \/ Advances(pipeline, pipeline')
                    \/ pipeline' = NewPipeline(pipeline.spec)
  OBVIOUS
<1>1. CASE pipeline' = pipeline
  BY <1>1, StayingAdvances DEF ClockInv
<1>2. ASSUME NEW e \in Events, Handle(e)
      PROVE  Advances(pipeline, pipeline')
  BY <1>2, EventAdvances DEF Handle, ClockInv
<1>3. ASSUME NEW updates, Update(updates)
      PROVE  Advances(pipeline, pipeline')
  BY <1>3, ContextAdvances DEF Update, ClockInv
<1>4. CASE Call
  <2>1. CASE \E symbol \in Symbols, value \in Values, at \in Times :
               Handle([symbol |-> symbol, value |-> value, at |-> at, fails |-> FALSE])
    <3>1. PICK symbol \in Symbols, value \in Values, at \in Times :
                 Handle([symbol |-> symbol, value |-> value, at |-> at, fails |-> FALSE])
      BY <2>1
    <3>2. [symbol |-> symbol, value |-> value, at |-> at, fails |-> FALSE] \in Events
      BY DEF Events
    <3> QED
      BY <1>2, <3>1, <3>2
  <2>2. CASE \E id \in Context, value \in Values : Update([supplied \in {id} |-> value])
    BY <1>3, <2>2
  <2>3. CASE Reset
    BY <2>3 DEF Reset
  <2> QED
    BY <1>4, <2>1, <2>2, <2>3 DEF Call, PipelineNext
<1>5. CASE \E rows \in Batches : Replay(rows)
  BY <1>1, <1>5 DEF Replay, pipelineVars
<1>6. CASE SupplyRow
  BY <1>3, <1>6 DEF SupplyRow
<1>7. CASE HandleRow
  <2>1. batch # <<>> /\ IsVector(batch)
    BY <1>7 DEF ReplayInv, HandleRow
  <2>2. Head(batch) = batch[1] /\ 1 \in 1 .. Len(batch)
    BY <2>1, TailIsVector, VectorFacts DEF IsVector
  <2>3. Head(batch).event \in Events
    BY <2>2 DEF ReplayInv, IsRow
  <2> QED
    BY <1>2, <1>7, <2>3 DEF HandleRow
<1>8. CASE UNCHANGED replayVars
  BY <1>1, <1>8 DEF replayVars
<1> QED
  BY <1>4, <1>5, <1>6, <1>7, <1>8 DEF ReplayNext

THEOREM ClockInvariance == ReplaySpec => []ClockInv
<1>1. ReplayInit => ClockInv
  <2> SUFFICES ASSUME ReplayInit
               PROVE  ClockInv
    OBVIOUS
  <2>1. PICK graph \in Graphs : pipeline = Build(SpecOf(graph))
    BY DEF ReplayInit, PipelineInit
  <2>2. SpecOf(graph) # InvalidPipeline /\ pipeline = NewPipeline(SpecOf(graph))
    BY <2>1 DEF ReplayInit, PipelineInit, Build
  <2>3. pipeline.spec = SpecOf(graph)
    BY <2>2, NewRuntime
  <2> QED
    BY <2>2, <2>3, SpecsAreWellFormed, NewClocksFollow DEF ClockInv
<1>2. ReplayInv /\ ClockInv /\ [ReplayNext]_replayVars => ClockInv'
  <2> SUFFICES ASSUME ReplayInv, ClockInv, [ReplayNext]_replayVars
               PROVE  ClockInv'
    OBVIOUS
  <2>1. CASE Advances(pipeline, pipeline')
    BY <2>1 DEF Advances, ClockInv, ClocksFollow, IsRuntimeOf
  <2>2. CASE pipeline' = NewPipeline(pipeline.spec)
    <3>1. WellFormed(pipeline.spec)
      BY DEF ClockInv, ClocksFollow, IsRuntimeOf
    <3>2. pipeline'.spec = pipeline.spec
      BY <2>2, NewRuntime
    <3> QED
      BY <2>2, <3>1, <3>2, NewClocksFollow DEF ClockInv
  <2> QED
    BY <2>1, <2>2, CallAdvances
<1> QED
  BY <1>1, <1>2, ReplayInvariance, PTL DEF ReplaySpec

(* The clock of a cell never goes back, whatever the order in which the     *)
(* timestamps of different symbols arrive and however stages combine them   *)
(* (refresh of pipeline.rs, and the clocks that stages.rs takes from the    *)
(* columns of an output); only a reset begins anew.                        *)
THEOREM ClocksStayInOrder == ReplaySpec => ClocksNeverRegress
<1> DEFINE Kept == \A i \in NodesOf(pipeline) :
                     \A o \in DOMAIN pipeline.nodes[i].clocks :
                       pipeline.nodes[i].clocks[o] <= pipeline'.nodes[i].clocks[o] \/ WasReset
<1>1. ReplayInv /\ ClockInv /\ [ReplayNext]_replayVars => [Kept]_pipelineVars
  <2> SUFFICES ASSUME ReplayInv, ClockInv, [ReplayNext]_replayVars
               PROVE  Kept
    OBVIOUS
  <2>1. CASE pipeline' = NewPipeline(pipeline.spec)
    BY <2>1 DEF WasReset
  <2>2. CASE Advances(pipeline, pipeline')
    <3> SUFFICES ASSUME NEW i \in NodesOf(pipeline), NEW o \in DOMAIN pipeline.nodes[i].clocks
                 PROVE  pipeline.nodes[i].clocks[o] <= pipeline'.nodes[i].clocks[o]
      OBVIOUS
    <3>1. i \in 1 .. Len(pipeline.spec.nodes) /\ Len(pipeline.spec.nodes) \in Nat
      BY VectorFacts DEF NodesOf, ClockInv, ClocksFollow, IsRuntimeOf
    <3>2. i # 0 /\ i \in 0 .. Len(pipeline.spec.nodes)
      BY <3>1
    <3>3. NodeClocks(pipeline, i) = pipeline.nodes[i].clocks
          /\ NodeClocks(pipeline', i) = pipeline'.nodes[i].clocks
      BY <3>2 DEF NodeClocks
    <3>4. o \in 1 .. Len(NodeIds(pipeline.spec, i))
      BY <3>2, <3>3 DEF ClockInv, ClocksFollow
    <3> QED
      BY <2>2, <3>2, <3>3, <3>4 DEF Advances, ClocksGrow
  <2> QED
    BY <2>1, <2>2, CallAdvances
<1>2. ClocksNeverRegress <=> [][Kept]_pipelineVars
  BY DEF ClocksNeverRegress
<1> QED
  BY <1>1, <1>2, ReplayInvariance, ClockInvariance, PTL DEF ReplaySpec

-----------------------------------------------------------------------------
(* Operations of scalar stages.  Whatever an operation computes, it keeps   *)
(* its input and the outputs that it is of.                                *)

OperationFields == {"outputs", "input", "history", "visible", "marked", "clock", "first", "finite"}

IsOperation(op) ==
  /\ op = [field \in OperationFields |-> op[field]]
  /\ op.outputs[1].kind \in ScalarKinds

SameOutputs(op, next) == next.outputs = op.outputs /\ next.input = op.input

(* Which of the operations it is. *)
LEMMA ApplyCases ==
  ASSUME NEW op, NEW in, op.outputs[1].kind \in ScalarKinds
  PROVE  LET output == op.outputs[1]
             kind   == output.kind
         IN  /\ kind = "Identity" => Apply(op, in) = ApplyIdentity(op, in)
             /\ kind = "StandardScale" => Apply(op, in) = ApplyScale(op, in)
             /\ kind = "Lagged" => Apply(op, in) = ApplyLagged(op, in)
             /\ kind \in ChangeKinds => Apply(op, in) = ApplyChange(op, in)
             /\ kind \in AverageKinds => Apply(op, in) = ApplyAverage(op, in)
             /\ kind \in TrajectoryKinds => Apply(op, in) = ApplyTrajectory(op, in)
             /\ kind \in StatisticKinds => Apply(op, in) = ApplyStatistics(op, in)
             /\ kind \in TimedLagKinds => Apply(op, in) = ApplyTimed(op, in)
             /\ kind \in AgeKinds => Apply(op, in) = ApplyAge(op, in, output)
             /\ kind \in StreakKinds \cup SinceKinds => Apply(op, in) = ApplyCount(op, in, output)
BY DEF Apply, ScalarKinds, ChangeKinds, AverageKinds, TrajectoryKinds, StatisticKinds,
       TimedLagKinds, StateKinds, StreakKinds, SinceKinds, AgeKinds

LEMMA ApplyKeepsOutputs ==
  ASSUME NEW op, IsOperation(op), NEW in
  PROVE  IsOperation(Apply(op, in)) /\ SameOutputs(op, Apply(op, in))
<1> DEFINE kind   == op.outputs[1].kind
           output == op.outputs[1]
           Kept(next) == IsOperation(next) /\ SameOutputs(op, next)
<1>1. Kept(ApplyIdentity(op, in))
  BY DEF ApplyIdentity, IsOperation, OperationFields, SameOutputs
<1>2. Kept(ApplyScale(op, in))
  BY DEF ApplyScale, IsOperation, OperationFields, SameOutputs
<1>3. Kept(ApplyLagged(op, in))
  BY DEF ApplyLagged, IsOperation, OperationFields, SameOutputs
<1>4. Kept(ApplyChange(op, in))
  BY DEF ApplyChange, Show, IsOperation, OperationFields, SameOutputs
<1>5. Kept(ApplyAverage(op, in))
  BY DEF ApplyAverage, Show, IsOperation, OperationFields, SameOutputs
<1>6. Kept(ApplyTrajectory(op, in))
  BY DEF ApplyTrajectory, Show, IsOperation, OperationFields, SameOutputs
<1>7. Kept(ApplyStatistics(op, in))
  BY DEF ApplyStatistics, Show, IsOperation, OperationFields, SameOutputs
<1>8. Kept(ApplyTimed(op, in))
  BY DEF ApplyTimed, Show, IsOperation, OperationFields, SameOutputs
<1>9. Kept(ApplyAge(op, in, output))
  BY DEF ApplyAge, Show, IsOperation, OperationFields, SameOutputs
<1>10. Kept(ApplyCount(op, in, output))
  BY DEF ApplyCount, Show, IsOperation, OperationFields, SameOutputs
<1>11. kind \in ScalarKinds
  BY DEF IsOperation
<1> HIDE DEF Kept
<1>12. Kept(Apply(op, in))
  BY <1>1, <1>2, <1>3, <1>4, <1>5, <1>6, <1>7, <1>8, <1>9, <1>10, <1>11, ApplyCases
  DEF ScalarKinds, StateKinds
<1> QED
  BY <1>12 DEF Kept

(* Two kinds write what they are given, in every refresh, and remember none *)
(* of it; all others show what they last wrote until they write again.     *)
DirectKinds == {"Identity", "StandardScale"}

DirectValue(op, value) ==
  IF op.outputs[1].kind = "Identity" THEN value
  ELSE IF Finite(value) THEN <<value[1] - op.outputs[1].parameter, op.outputs[1].scale>> ELSE <<>>

IsDirect(op, value) ==
  op.outputs[1].kind \in DirectKinds => op.visible = <<DirectValue(op, value)>>

LEMMA ApplyIsDirect ==
  ASSUME NEW op, IsOperation(op), NEW in
  PROVE  IsDirect(Apply(op, in), in.value)
<1>1. SameOutputs(op, Apply(op, in)) /\ op.outputs[1].kind \in ScalarKinds
  BY ApplyKeepsOutputs DEF IsOperation
<1>2. op.outputs[1].kind = "Identity" => Apply(op, in).visible = <<DirectValue(op, in.value)>>
  <2>1. op.outputs[1].kind = "Identity"
          => ApplyIdentity(op, in).visible = <<DirectValue(op, in.value)>>
    BY DEF ApplyIdentity, DirectValue, IsOperation, OperationFields
  <2> QED
    BY <1>1, <2>1, ApplyCases
<1>3. op.outputs[1].kind = "StandardScale"
        => Apply(op, in).visible = <<DirectValue(op, in.value)>>
  <2>1. op.outputs[1].kind = "StandardScale"
          => ApplyScale(op, in).visible = <<DirectValue(op, in.value)>>
    BY DEF ApplyScale, DirectValue, IsOperation, OperationFields
  <2> QED
    BY <1>1, <2>1, ApplyCases
<1> QED
  BY <1>1, <1>2, <1>3 DEF IsDirect, DirectValue, DirectKinds, SameOutputs

(* What an operation does not mark in a refresh after an event, it shows    *)
(* unchanged.                                                              *)
LEMMA UnmarkedKeepsVisible ==
  ASSUME NEW op, IsOperation(op), NEW in, IsDirect(op, in.value), ~ Apply(op, in).marked
  PROVE  Apply(op, in).visible = op.visible
<1> DEFINE kind   == op.outputs[1].kind
           output == op.outputs[1]
           Kept(next) == next.marked \/ next.visible = op.visible
<1>1. kind = "Identity" => Kept(ApplyIdentity(op, in))
  BY DEF ApplyIdentity, IsOperation, OperationFields, IsDirect, DirectValue, DirectKinds
<1>2. kind = "StandardScale" => Kept(ApplyScale(op, in))
  BY DEF ApplyScale, IsOperation, OperationFields, IsDirect, DirectValue, DirectKinds
<1>3. Kept(ApplyLagged(op, in))
  BY DEF ApplyLagged, IsOperation, OperationFields
<1>4. Kept(ApplyChange(op, in))
  BY DEF ApplyChange, Show, IsOperation, OperationFields
<1>5. Kept(ApplyAverage(op, in))
  BY DEF ApplyAverage, Show, IsOperation, OperationFields
<1>6. Kept(ApplyTrajectory(op, in))
  BY DEF ApplyTrajectory, Show, IsOperation, OperationFields
<1>7. Kept(ApplyStatistics(op, in))
  BY DEF ApplyStatistics, Show, IsOperation, OperationFields
<1>8. Kept(ApplyTimed(op, in))
  BY DEF ApplyTimed, Show, IsOperation, OperationFields
<1>9. Kept(ApplyAge(op, in, output))
  BY DEF ApplyAge, Show, IsOperation, OperationFields
<1>10. Kept(ApplyCount(op, in, output))
  BY DEF ApplyCount, Show, IsOperation, OperationFields
<1>11. kind \in ScalarKinds
  BY DEF IsOperation
<1> HIDE DEF Kept
<1>12. Kept(Apply(op, in))
  BY <1>1, <1>2, <1>3, <1>4, <1>5, <1>6, <1>7, <1>8, <1>9, <1>10, <1>11, ApplyCases
  DEF ScalarKinds, StateKinds
<1> QED
  BY <1>12 DEF Kept

(* Without an event, only the direct values are written. *)
LEMMA UnobservedKeepsOperation ==
  ASSUME NEW op, IsOperation(op), NEW in, in.observed = FALSE, in.advance = FALSE
  PROVE  Apply(op, in)
           = IF op.outputs[1].kind \in DirectKinds
               THEN [op EXCEPT !.marked = FALSE, !.visible = <<DirectValue(op, in.value)>>]
               ELSE [op EXCEPT !.marked = FALSE]
<1> DEFINE kind   == op.outputs[1].kind
           output == op.outputs[1]
           Kept   == [op EXCEPT !.marked = FALSE]
           Direct == [op EXCEPT !.marked = FALSE, !.visible = <<DirectValue(op, in.value)>>]
<1>1. kind = "Identity" => ApplyIdentity(op, in) = Direct
  BY DEF ApplyIdentity, IsOperation, OperationFields, DirectValue
<1>2. kind = "StandardScale" => ApplyScale(op, in) = Direct
  BY DEF ApplyScale, IsOperation, OperationFields, DirectValue
<1>3. ApplyLagged(op, in) = Kept
  BY DEF ApplyLagged
<1>4. ApplyChange(op, in) = Kept
  BY DEF ApplyChange, Show, IsOperation, OperationFields
<1>5. ApplyAverage(op, in) = Kept
  BY DEF ApplyAverage, Show, IsOperation, OperationFields
<1>6. ApplyTrajectory(op, in) = Kept
  BY DEF ApplyTrajectory, Show, IsOperation, OperationFields
<1>7. ApplyStatistics(op, in) = Kept
  BY DEF ApplyStatistics, TimeRefreshed
<1>8. ApplyTimed(op, in) = Kept
  BY DEF ApplyTimed, TimeRefreshed
<1>9. ApplyAge(op, in, output) = Kept
  BY DEF ApplyAge, TimeRefreshed
<1>10. ApplyCount(op, in, output) = Kept
  BY DEF ApplyCount, Show, IsOperation, OperationFields
<1>11. kind \in ScalarKinds
  BY DEF IsOperation
<1> HIDE DEF Kept, Direct
<1>12. CASE kind \in DirectKinds
  <2>1. Apply(op, in) = Direct
    BY <1>1, <1>2, <1>11, <1>12, ApplyCases DEF DirectKinds
  <2> QED
    BY <1>12, <2>1 DEF Direct
<1>13. CASE kind \notin DirectKinds
  <2>1. Apply(op, in) = Kept
    BY <1>3, <1>4, <1>5, <1>6, <1>7, <1>8, <1>9, <1>10, <1>11, <1>13, ApplyCases
    DEF ScalarKinds, StateKinds, DirectKinds
  <2> QED
    BY <1>13, <2>1 DEF Kept
<1> QED
  BY <1>12, <1>13

(* What a refresh leaves of an operation for the next one to go by. *)
Residue(op) ==
  [op EXCEPT !.marked = FALSE,
             !.visible = IF op.outputs[1].kind \in DirectKinds THEN <<>> ELSE @]

(* Operations that are the same but for their marks. *)
SameButMarks(a, b) ==
  /\ IsOperation(a) /\ IsOperation(b)
  /\ a.outputs = b.outputs /\ a.input = b.input /\ a.history = b.history
  /\ a.clock = b.clock /\ a.first = b.first /\ a.finite = b.finite
  /\ a.visible = b.visible

LEMMA LaggedIgnoresMarks ==
  ASSUME NEW a, NEW b, SameButMarks(a, b), NEW in
  PROVE  ApplyLagged(a, in) = ApplyLagged(b, in)
<1> DEFINE Shown(op) ==
             [i \in DOMAIN op.visible |->
                LET seen == PeekBackAt(op.history, op.outputs[i].window - 1)
                IN  IF seen = <<>> THEN op.visible[i] ELSE seen[1]]
           Next(op) ==
             IF ~ in.advance THEN [op EXCEPT !.marked = FALSE]
             ELSE [op EXCEPT !.history = PushBack(op.history, in.value), !.marked = TRUE,
                             !.visible = Shown(op)]
<1>1. Shown(a) = Shown(b)
  BY DEF SameButMarks
<1>2. ASSUME NEW op, IsOperation(op)
      PROVE  ApplyLagged(op, in) = Next(op)
  BY <1>2 DEF ApplyLagged, IsOperation, OperationFields
<1> HIDE DEF Shown
<1>3. Next(a) = Next(b)
  BY <1>1 DEF SameButMarks, IsOperation, OperationFields
<1> HIDE DEF Next
<1> QED
  BY <1>2, <1>3 DEF SameButMarks

LEMMA ChangeIgnoresMarks ==
  ASSUME NEW a, NEW b, SameButMarks(a, b), NEW in
  PROVE  ApplyChange(a, in) = ApplyChange(b, in)
<1> DEFINE Shown(op) ==
             [i \in DOMAIN op.visible |->
                LET previous == PeekBackAt(op.history, op.outputs[i].window - 1)
                IN  IF previous = <<>> THEN <<>>
                    ELSE Change(op.outputs[i].kind, in.value[1], previous[1])]
           Missing(op) == [i \in DOMAIN op.visible |-> <<>>]
           Next(op) ==
             IF in.observed /\ Finite(in.value)
               THEN [op EXCEPT !.marked = TRUE, !.visible = Shown(op),
                               !.history = PushBack(op.history, in.value[1])]
               ELSE [op EXCEPT !.marked = in.observed,
                               !.visible = IF in.observed THEN Missing(op) ELSE op.visible]
<1>1. Shown(a) = Shown(b) /\ Missing(a) = Missing(b)
  BY DEF SameButMarks
<1>2. ASSUME NEW op, IsOperation(op)
      PROVE  ApplyChange(op, in) = Next(op)
  BY <1>2 DEF ApplyChange, Show, NotANumber, IsOperation, OperationFields
<1> HIDE DEF Shown, Missing
<1>3. Next(a) = Next(b)
  BY <1>1 DEF SameButMarks, IsOperation, OperationFields
<1> HIDE DEF Next
<1> QED
  BY <1>2, <1>3 DEF SameButMarks

LEMMA AverageIgnoresMarks ==
  ASSUME NEW a, NEW b, SameButMarks(a, b), NEW in
  PROVE  ApplyAverage(a, in) = ApplyAverage(b, in)
<1> DEFINE Updated(op) == IF op.outputs[1].kind = "Ema"
                            THEN UpdateExponential(op.history, in.value[1])
                            ELSE UpdateMovingAverage(op.history, in.value[1])
           At(op, i) == IF op.outputs[1].kind = "Ema" THEN ExponentialAt(Updated(op), i)
                        ELSE MovingAverageAt(Updated(op), i)
           Shown(op) == [i \in DOMAIN op.visible |-> IF At(op, i) = <<>> THEN <<>> ELSE At(op, i)[1]]
           Missing(op) == [i \in DOMAIN op.visible |-> <<>>]
           Next(op) ==
             IF in.observed /\ Finite(in.value)
               THEN [op EXCEPT !.history = Updated(op), !.marked = TRUE, !.visible = Shown(op)]
               ELSE [op EXCEPT !.marked = in.observed,
                               !.visible = IF in.observed THEN Missing(op) ELSE op.visible]
<1>1. Updated(a) = Updated(b)
  BY DEF SameButMarks
<1>2. ASSUME NEW op, IsOperation(op)
      PROVE  ApplyAverage(op, in) = Next(op)
  BY <1>2 DEF ApplyAverage, Show, NotANumber, IsOperation, OperationFields
<1> HIDE DEF Updated
<1>3. Shown(a) = Shown(b) /\ Missing(a) = Missing(b)
  BY <1>1 DEF SameButMarks
<1> HIDE DEF Shown, Missing
<1>4. Next(a) = Next(b)
  BY <1>1, <1>3 DEF SameButMarks, IsOperation, OperationFields
<1> HIDE DEF Next
<1> QED
  BY <1>2, <1>4 DEF SameButMarks

LEMMA TrajectoryIgnoresMarks ==
  ASSUME NEW a, NEW b, SameButMarks(a, b), NEW in
  PROVE  ApplyTrajectory(a, in) = ApplyTrajectory(b, in)
<1> DEFINE Pushed(op) == IF in.observed /\ Finite(in.value)
                           THEN Push(op.history, TrajectoryOf(in.value[1]), FALSE)
                           ELSE op.history
           Value(history, output) ==
             IF Finite(in.value) /\ (history.len >= output.window \/ output.warmup = "FirstValue")
               THEN Measurement(Newest(history, Min({history.len, output.window})), output.kind)
               ELSE <<>>
           Shown(op) == [i \in DOMAIN op.visible |-> Value(Pushed(op), op.outputs[i])]
           Next(op) ==
             [op EXCEPT !.marked = in.observed,
                        !.visible = IF in.observed THEN Shown(op) ELSE op.visible,
                        !.history = Pushed(op)]
<1>1. Pushed(a) = Pushed(b)
  BY DEF SameButMarks
<1>2. ASSUME NEW op, IsOperation(op)
      PROVE  ApplyTrajectory(op, in) = Next(op)
  BY <1>2 DEF ApplyTrajectory, Show, IsOperation, OperationFields
<1> HIDE DEF Pushed, Value
<1>3. Shown(a) = Shown(b)
  BY <1>1 DEF SameButMarks
<1> HIDE DEF Shown
<1>4. Next(a) = Next(b)
  BY <1>1, <1>3 DEF SameButMarks, IsOperation, OperationFields
<1> HIDE DEF Next
<1> QED
  BY <1>2, <1>4 DEF SameButMarks

LEMMA StatisticsIgnoreMarks ==
  ASSUME NEW a, NEW b, SameButMarks(a, b), NEW in
  PROVE  ApplyStatistics(a, in) = ApplyStatistics(b, in)
<1> DEFINE aggregation(op) == op.outputs[1].aggregation
           refreshed(op) == IF aggregation(op) # Never THEN TimeRefreshed(op, in) ELSE in.observed
           seen      == in.observed /\ Finite(in.value)
           history(op) == IF seen THEN Summarized(op.history, aggregation(op), in) ELSE op.history
           first(op) == IF seen /\ op.first = Never THEN in.clock ELSE op.first
           finite(op) == IF in.observed THEN Finite(in.value) ELSE op.finite
           Value(h, f, n, output) ==
             LET window == InWindow(h, f, output, in.clock)
             IN  IF n /\ (window.ready \/ output.warmup = "FirstValue")
                   THEN Statistic(Newest(h.tree, window.count), output.kind)
                   ELSE <<>>
           Shown(op) ==
             [i \in DOMAIN op.visible |-> Value(history(op), first(op), finite(op), op.outputs[i])]
           Next(op) ==
             IF refreshed(op)
               THEN [op EXCEPT !.marked = TRUE, !.visible = Shown(op), !.history = history(op),
                               !.first = first(op), !.clock = in.clock, !.finite = finite(op)]
               ELSE [op EXCEPT !.marked = FALSE]
<1>1. /\ history(a) = history(b) /\ first(a) = first(b) /\ finite(a) = finite(b)
      /\ refreshed(a) <=> refreshed(b)
  BY DEF SameButMarks, TimeRefreshed
<1>2. ASSUME NEW op, IsOperation(op)
      PROVE  ApplyStatistics(op, in) = Next(op)
  BY <1>2 DEF ApplyStatistics, Show, IsOperation, OperationFields
<1> HIDE DEF history, first, finite, refreshed, Value
<1>3. Shown(a) = Shown(b)
  BY <1>1 DEF SameButMarks
<1> HIDE DEF Shown
<1>4. Next(a) = Next(b)
  BY <1>1, <1>3 DEF SameButMarks, IsOperation, OperationFields
<1> HIDE DEF Next
<1> QED
  BY <1>2, <1>4 DEF SameButMarks

LEMMA TimedIgnoresMarks ==
  ASSUME NEW a, NEW b, SameButMarks(a, b), NEW in
  PROVE  ApplyTimed(a, in) = ApplyTimed(b, in)
<1> DEFINE history(op) == IF in.observed /\ Finite(in.value)
                            THEN Append(op.history, [at |-> in.clock, value |-> in.value[1]])
                            ELSE op.history
           finite(op) == IF in.observed THEN Finite(in.value) ELSE op.finite
           Value(h, n, output) ==
             LET seen == AsOf(h, output.aggregation, in.clock - output.window)
             IN  IF ~ n \/ seen = <<>> THEN <<>>
                 ELSE IF output.kind = "LaggedTimed" THEN seen
                 ELSE Change(output.kind, h[Len(h)].value, seen[1])
           Shown(op) ==
             [i \in DOMAIN op.visible |-> Value(history(op), finite(op), op.outputs[i])]
           Next(op) ==
             IF TimeRefreshed(op, in)
               THEN [op EXCEPT !.marked = TRUE, !.visible = Shown(op), !.history = history(op),
                               !.clock = in.clock, !.finite = finite(op)]
               ELSE [op EXCEPT !.marked = FALSE]
<1>1. /\ history(a) = history(b) /\ finite(a) = finite(b)
      /\ TimeRefreshed(a, in) <=> TimeRefreshed(b, in)
  BY DEF SameButMarks, TimeRefreshed
<1>2. ASSUME NEW op, IsOperation(op)
      PROVE  ApplyTimed(op, in) = Next(op)
  BY <1>2 DEF ApplyTimed, Show, IsOperation, OperationFields
<1> HIDE DEF history, finite, Value
<1>3. Shown(a) = Shown(b)
  BY <1>1 DEF SameButMarks
<1> HIDE DEF Shown
<1>4. Next(a) = Next(b)
  BY <1>1, <1>3 DEF SameButMarks, IsOperation, OperationFields
<1> HIDE DEF Next
<1> QED
  BY <1>2, <1>4 DEF SameButMarks

LEMMA SameResidueAppliesSame ==
  ASSUME NEW a, IsOperation(a), NEW b, IsOperation(b), Residue(a) = Residue(b), NEW in
  PROVE  Apply(a, in) = Apply(b, in)
<1> DEFINE kind   == a.outputs[1].kind
           output == a.outputs[1]
<1>1. /\ a.outputs = b.outputs /\ a.input = b.input /\ a.history = b.history
      /\ a.clock = b.clock /\ a.first = b.first /\ a.finite = b.finite
      /\ kind \notin DirectKinds => a.visible = b.visible
  BY DEF Residue, IsOperation, OperationFields
<1>2. kind \in ScalarKinds
  BY DEF IsOperation
<1>3. CASE kind = "Identity"
  <2>1. ApplyIdentity(a, in) = ApplyIdentity(b, in)
    BY <1>1 DEF ApplyIdentity, IsOperation, OperationFields
  <2> QED
    BY <1>1, <1>2, <1>3, <2>1, ApplyCases
<1>4. CASE kind = "StandardScale"
  <2>1. ApplyScale(a, in) = ApplyScale(b, in)
    BY <1>1 DEF ApplyScale, IsOperation, OperationFields
  <2> QED
    BY <1>1, <1>2, <1>4, <2>1, ApplyCases
<1>5. CASE kind \notin DirectKinds
  <2>0. SameButMarks(a, b)
    BY <1>1, <1>5 DEF SameButMarks
  <2>1. ApplyAge(a, in, output) = ApplyAge(b, in, output)
    <3> DEFINE finite == IF in.observed THEN Finite(in.value) ELSE b.finite
               last   == IF /\ in.observed /\ Finite(in.value)
                            /\ Matches(output.kind, in.value[1], output.parameter)
                           THEN in.clock ELSE b.history.lastMatch
               age    == IF finite /\ last # Never THEN <<in.clock - last>> ELSE <<>>
               Next(op) ==
                 IF TimeRefreshed(op, in)
                   THEN [op EXCEPT !.clock = in.clock, !.finite = finite,
                                   !.history.lastMatch = last, !.visible = <<age>>,
                                   !.marked = TRUE]
                   ELSE [op EXCEPT !.marked = FALSE]
    <3>1. TimeRefreshed(a, in) = TimeRefreshed(b, in)
      BY <1>1 DEF TimeRefreshed
    <3>2. ApplyAge(b, in, output) = Next(b)
      BY DEF ApplyAge
    <3>3. ApplyAge(a, in, output) = Next(a)
      BY <1>1 DEF ApplyAge
    <3> HIDE DEF finite, last, age
    <3>4. [a EXCEPT !.marked = FALSE] = [b EXCEPT !.marked = FALSE]
      BY <1>1, <1>5 DEF IsOperation, OperationFields
    <3>5. [a EXCEPT !.clock = in.clock, !.finite = finite, !.history.lastMatch = last,
                    !.visible = <<age>>, !.marked = TRUE]
            = [b EXCEPT !.clock = in.clock, !.finite = finite, !.history.lastMatch = last,
                        !.visible = <<age>>, !.marked = TRUE]
      BY <1>1 DEF IsOperation, OperationFields
    <3> QED
      BY <3>1, <3>2, <3>3, <3>4, <3>5
  <2>2. ApplyCount(a, in, output) = ApplyCount(b, in, output)
    BY <1>1, <1>5 DEF ApplyCount, Show, IsOperation, OperationFields
  <2> QED
    BY <1>1, <1>2, <1>5, <2>0, <2>1, <2>2, LaggedIgnoresMarks, ChangeIgnoresMarks,
       AverageIgnoresMarks, TrajectoryIgnoresMarks, StatisticsIgnoreMarks, TimedIgnoresMarks,
       ApplyCases
    DEF ScalarKinds, StateKinds, DirectKinds
<1> QED
  BY <1>3, <1>4, <1>5 DEF DirectKinds

-----------------------------------------------------------------------------
(* Scalar stages.  Each slot is of one output of one operation.            *)

Owns(memory, slot, op, j) ==
  /\ op \in memory /\ j \in DOMAIN op.outputs /\ op.outputs[j].slot = slot
  /\ \A other \in memory :
       \A k \in DOMAIN other.outputs : other.outputs[k].slot = slot => other = op /\ k = j

InputsOfDefinitions(definitions) == {definitions[slot].input : slot \in DOMAIN definitions}

IsOperations(definitions, memory) ==
  /\ \A op \in memory : IsOperation(op) /\ op.input \in InputsOfDefinitions(definitions)
  /\ \A slot \in DOMAIN definitions : \E op \in memory : \E j : Owns(memory, slot, op, j)

LEMMA OutputIsOfOwner ==
  ASSUME NEW memory, NEW slot, NEW op, NEW j, Owns(memory, slot, op, j)
  PROVE  OutputAt(memory, slot) = [value |-> op.visible[j], observed |-> op.marked]
<1> DEFINE Of(other) == {[value |-> other.visible[i], observed |-> other.marked] :
                           i \in {k \in DOMAIN other.outputs : other.outputs[k].slot = slot}}
           all == UNION {Of(other) : other \in memory}
           own == [value |-> op.visible[j], observed |-> op.marked]
<1>1. own \in Of(op)
  BY DEF Owns
<1>2. ASSUME NEW other \in memory, NEW x \in Of(other)
      PROVE  x = own
  BY DEF Owns
<1> HIDE DEF Of
<1>3. own \in all /\ \A x \in all : x = own
  BY <1>1, <1>2 DEF Owns
<1>4. OutputAt(memory, slot) = CHOOSE x \in all : TRUE
  BY DEF OutputAt, Of
<1> HIDE DEF all, own
<1>5. OutputAt(memory, slot) = own
  BY <1>3, <1>4
<1> QED
  BY <1>5 DEF own

(* The operations after a refresh, of what the parent shows. *)
Given(ids, parent, advance, op) == InputOf(ids, parent, advance, op.input)

Applied(memory, ids, parent, advance) ==
  {Apply(op, Given(ids, parent, advance, op)) : op \in memory}

LEMMA AppliedKeepsOperations ==
  ASSUME NEW definitions, NEW memory, IsOperations(definitions, memory),
         NEW ids, NEW parent, NEW advance
  PROVE  LET next == Applied(memory, ids, parent, advance)
         IN  /\ IsOperations(definitions, next)
             /\ \A slot, op, j : Owns(memory, slot, op, j)
                  => Owns(next, slot, Apply(op, Given(ids, parent, advance, op)), j)
<1> DEFINE Next(op) == Apply(op, Given(ids, parent, advance, op))
           next     == {Next(op) : op \in memory}
<1>1. next = Applied(memory, ids, parent, advance)
  BY DEF Applied
<1>2. ASSUME NEW op \in memory
      PROVE  /\ IsOperation(Next(op)) /\ Next(op).outputs = op.outputs
             /\ Next(op).input = op.input
  BY ApplyKeepsOutputs DEF IsOperations, SameOutputs
<1> HIDE DEF Next
<1>3. \A op \in next : IsOperation(op) /\ op.input \in InputsOfDefinitions(definitions)
  BY <1>2 DEF IsOperations
<1>4. ASSUME NEW slot, NEW op, NEW j, Owns(memory, slot, op, j)
      PROVE  Owns(next, slot, Next(op), j)
  BY <1>2, <1>4 DEF Owns
<1>5. \A slot \in DOMAIN definitions : \E op \in next : \E j : Owns(next, slot, op, j)
  <2> TAKE slot \in DOMAIN definitions
  <2>1. PICK op \in memory : \E j : Owns(memory, slot, op, j)
    BY DEF IsOperations
  <2>2. PICK j : Owns(memory, slot, op, j)
    BY <2>1
  <2>3. Owns(next, slot, Next(op), j)
    BY <1>4, <2>2
  <2> QED
    BY <2>3 DEF Owns
<1>6. IsOperations(definitions, next)
  BY <1>3, <1>5 DEF IsOperations
<1> QED
  BY <1>1, <1>4, <1>6 DEF Next

(* Compilation collects the definitions of a key, in their order.          *)
CollectStep(c, outputs, slot) ==
  IF Key(c.definitions[slot], slot) = c.key
    THEN Append(outputs, OutputOf(c.definitions, slot)) ELSE outputs

Collecting == INSTANCE FoldLemmas WITH Step <- CollectStep

(* Of the slots up to k, those of the key. *)
CollectedUpTo(definitions, key, k, outputs) ==
  /\ IsVector(outputs)
  /\ \A j \in 1 .. Len(outputs) :
       /\ outputs[j].slot \in 1 .. k
       /\ outputs[j] = OutputOf(definitions, outputs[j].slot)
       /\ Key(definitions[outputs[j].slot], outputs[j].slot) = key
  /\ \A i, j \in 1 .. Len(outputs) : outputs[i].slot = outputs[j].slot => i = j
  /\ \A slot \in 1 .. k :
       Key(definitions[slot], slot) = key => \E j \in 1 .. Len(outputs) : outputs[j].slot = slot

LEMMA CollectKeepsOrder ==
  ASSUME NEW definitions, NEW key, NEW k \in Nat \ {0}, NEW outputs,
         CollectedUpTo(definitions, key, k - 1, outputs)
  PROVE  CollectedUpTo(definitions, key, k,
                       CollectStep([definitions |-> definitions, key |-> key], outputs, k))
<1> DEFINE Of(slot) == Key(definitions[slot], slot) = key
           output == OutputOf(definitions, k)
           more   == Append(outputs, output)
           n      == Len(outputs)
<1>1. output.slot = k /\ n \in Nat /\ IsVector(outputs)
  BY VectorFacts DEF OutputOf, CollectedUpTo
<1>2. CASE ~ Of(k)
  <2>1. CollectStep([definitions |-> definitions, key |-> key], outputs, k) = outputs
    BY <1>2 DEF CollectStep
  <2>2. \A slot \in 1 .. k - 1 : slot \in 1 .. k
    OBVIOUS
  <2>3. \A slot \in 1 .. k : slot = k \/ slot \in 1 .. k - 1
    OBVIOUS
  <2> QED
    BY <1>2, <2>1, <2>2, <2>3 DEF CollectedUpTo
<1>3. CASE Of(k)
  <2>1. CollectStep([definitions |-> definitions, key |-> key], outputs, k) = more
    BY <1>3 DEF CollectStep
  <2>2. /\ IsVector(more) /\ Len(more) = n + 1 /\ more[n + 1] = output
        /\ \A j \in 1 .. n : more[j] = outputs[j]
    BY <1>1, AppendIsVector
  <2> HIDE DEF more, n
  <2>3. \A j \in 1 .. n : more[j].slot \in 1 .. k - 1
    BY <2>2 DEF CollectedUpTo, n
  <2>4. \A j \in 1 .. n + 1 : j = n + 1 \/ j \in 1 .. n
    BY <1>1
  <2>5. \A slot \in 1 .. k : slot = k \/ slot \in 1 .. k - 1
    OBVIOUS
  <2>6. k \in 1 .. k /\ k \notin 1 .. k - 1 /\ \A slot \in 1 .. k - 1 : slot \in 1 .. k
    OBVIOUS
  <2>7. more[n + 1].slot = k /\ more[n + 1] = OutputOf(definitions, k)
    BY <1>1, <2>2
  <2>8. ASSUME NEW j \in 1 .. n + 1
        PROVE  more[j].slot \in 1 .. k /\ more[j] = OutputOf(definitions, more[j].slot)
               /\ Of(more[j].slot)
    BY <1>3, <2>2, <2>4, <2>6, <2>7 DEF CollectedUpTo, n
  <2>9. ASSUME NEW i \in 1 .. n + 1, NEW j \in 1 .. n + 1, more[i].slot = more[j].slot
        PROVE  i = j
    <3>1. i \in 1 .. n /\ j \in 1 .. n => i = j
      BY <2>2, <2>9 DEF CollectedUpTo, n
    <3>2. i = n + 1 <=> j = n + 1
      BY <2>3, <2>4, <2>6, <2>7, <2>9
    <3> QED
      BY <2>4, <3>1, <3>2
  <2>10. ASSUME NEW slot \in 1 .. k, Of(slot)
         PROVE  \E j \in 1 .. n + 1 : more[j].slot = slot
    <3>1. CASE slot = k
      <4>1. n + 1 \in 1 .. n + 1
        BY <1>1
      <4> QED
        BY <2>7, <3>1, <4>1
    <3>2. CASE slot \in 1 .. k - 1
      <4>1. PICK j \in 1 .. n : outputs[j].slot = slot
        BY <2>10, <3>2 DEF CollectedUpTo, n
      <4>2. j \in 1 .. n + 1
        BY <1>1
      <4> QED
        BY <2>2, <4>1, <4>2
    <3> QED
      BY <2>5, <3>1, <3>2
  <2>11. CollectedUpTo(definitions, key, k, more)
    BY <2>2, <2>8, <2>9, <2>10 DEF CollectedUpTo
  <2> QED
    BY <2>1, <2>11
<1> QED
  BY <1>2, <1>3

LEMMA OutputsAreCollected ==
  ASSUME NEW definitions, IsVector(definitions), NEW key
  PROVE  CollectedUpTo(definitions, key, Len(definitions), OutputsOf(definitions, key))
<1> DEFINE n     == Len(definitions)
           c     == [definitions |-> definitions, key |-> key]
           slots == [i \in DOMAIN definitions |-> i]
<1>1. n \in Nat /\ DOMAIN definitions = 1 .. n /\ DOMAIN slots = 1 .. n
  BY VectorFacts
<1>2. OutputsOf(definitions, key) = Collecting!LeftFold(c, <<>>, slots)
  BY DEF OutputsOf, FoldLeftDomain, CollectStep, Collecting!LeftFold, Collecting!FoldLeft,
         Collecting!MapThenFoldSet, Collecting!Max, FoldLeft, MapThenFoldSet, Max
<1>3. \A k \in 1 .. n : slots[k] = k
  BY <1>1
<1> HIDE DEF slots
<1>4. PICK run : Collecting!LeftRun(c, <<>>, slots, n, run)
  BY <1>1, Collecting!LeftFoldRuns
<1>5. /\ run[0] = <<>>
      /\ \A k \in 1 .. n : run[k] = CollectStep(c, run[k - 1], k)
      /\ OutputsOf(definitions, key) = run[n]
  BY <1>2, <1>3, <1>4 DEF Collecting!LeftRun
<1> DEFINE T == {k \in 0 .. n : CollectedUpTo(definitions, key, k, run[k])}
<1>6. 0 \in T
  <2>1. Len(<<>>) = 0
    OBVIOUS
  <2> QED
    BY <1>1, <1>5, <2>1, EmptyIsVector DEF CollectedUpTo
<1>7. ASSUME NEW k \in 1 .. n, k - 1 \in T
      PROVE  k \in T
  <2>1. k \in Nat \ {0} /\ k \in 0 .. n
    BY <1>1
  <2>2. CollectedUpTo(definitions, key, k - 1, run[k - 1])
    BY <1>7
  <2>3. CollectedUpTo(definitions, key, k, CollectStep(c, run[k - 1], k))
    BY <2>1, <2>2, CollectKeepsOrder
  <2> QED
    BY <1>5, <2>1, <2>3
<1> HIDE DEF T, n
<1>8. \A k \in 0 .. n : k \in T
  BY <1>1, <1>6, <1>7, UpwardInduction
<1>9. n \in T
  BY <1>1, <1>8
<1> QED
  BY <1>5, <1>9 DEF T, n

LEMMA NewOperationKeeps ==
  ASSUME NEW outputs, outputs[1].kind \in ScalarKinds
  PROVE  LET op == NewOperation(outputs)
         IN  IsOperation(op) /\ op.outputs = outputs /\ op.input = outputs[1].input
<1> DEFINE Sound(op) == IsOperation(op) /\ op.outputs = outputs /\ op.input = outputs[1].input
<1>1. ASSUME NEW history
      PROVE  Sound(Operation(outputs, history))
  BY DEF Operation, IsOperation, OperationFields
<1> HIDE DEF Sound
<1>2. /\ Sound(NewLagged(outputs)) /\ Sound(NewAverage(outputs)) /\ Sound(NewChange(outputs))
      /\ Sound(NewTimed(outputs)) /\ Sound(NewTrajectory(outputs)) /\ Sound(NewStatistics(outputs))
      /\ Sound(NewState(outputs)) /\ Sound(Operation(outputs, <<>>))
  BY <1>1 DEF NewLagged, NewAverage, NewChange, NewTimed, NewTrajectory, NewStatistics, NewState
<1>3. Sound(NewOperation(outputs))
  BY <1>2 DEF NewOperation, ScalarKinds
<1> QED
  BY <1>3 DEF Sound

LEMMA CompiledOperations ==
  ASSUME NEW definitions, IsVector(definitions),
         \A slot \in DOMAIN definitions : definitions[slot].kind \in ScalarKinds
  PROVE  IsOperations(definitions, Compile(definitions))
<1> DEFINE KeyAt(slot) == Key(definitions[slot], slot)
           Of(key)     == OutputsOf(definitions, key)
           memory      == {NewOperation(Of(KeyAt(slot))) : slot \in DOMAIN definitions}
           n           == Len(definitions)
<1>1. memory = Compile(definitions) /\ DOMAIN definitions = 1 .. n /\ n \in Nat
  BY VectorFacts DEF Compile
<1>2. ASSUME NEW key
      PROVE  /\ DOMAIN Of(key) = 1 .. Len(Of(key)) /\ Len(Of(key)) \in Nat
             /\ \A j \in 1 .. Len(Of(key)) :
                  /\ Of(key)[j].slot \in 1 .. n
                  /\ Of(key)[j] = OutputOf(definitions, Of(key)[j].slot)
                  /\ KeyAt(Of(key)[j].slot) = key
             /\ \A i, j \in 1 .. Len(Of(key)) : Of(key)[i].slot = Of(key)[j].slot => i = j
             /\ \A slot \in 1 .. n :
                  KeyAt(slot) = key => \E j \in 1 .. Len(Of(key)) : Of(key)[j].slot = slot
  BY OutputsAreCollected, VectorFacts DEF CollectedUpTo
<1> HIDE DEF Of, KeyAt
<1>3. ASSUME NEW slot \in DOMAIN definitions
      PROVE  LET op == NewOperation(Of(KeyAt(slot)))
             IN  /\ IsOperation(op) /\ op.outputs = Of(KeyAt(slot))
                 /\ op.input \in InputsOfDefinitions(definitions)
  <2> DEFINE outputs == Of(KeyAt(slot))
  <2>1. PICK j \in 1 .. Len(outputs) : outputs[j].slot = slot
    BY <1>1, <1>2
  <2>2. 1 \in 1 .. Len(outputs)
    BY <1>2, <2>1
  <2>3. /\ outputs[1].slot \in DOMAIN definitions
        /\ outputs[1] = OutputOf(definitions, outputs[1].slot)
    BY <1>1, <1>2, <2>2
  <2> HIDE DEF outputs
  <2>4. \A k : /\ OutputOf(definitions, k).kind = definitions[k].kind
               /\ OutputOf(definitions, k).input = definitions[k].input
    BY DEF OutputOf
  <2>5. outputs[1].kind \in ScalarKinds /\ outputs[1].input \in InputsOfDefinitions(definitions)
    BY <2>3, <2>4 DEF InputsOfDefinitions
  <2>6. /\ IsOperation(NewOperation(outputs)) /\ NewOperation(outputs).outputs = outputs
        /\ NewOperation(outputs).input = outputs[1].input
    BY <2>5, NewOperationKeeps
  <2> QED
    BY <2>5, <2>6 DEF outputs
<1>4. ASSUME NEW slot \in DOMAIN definitions
      PROVE  \E op \in memory : \E j : Owns(memory, slot, op, j)
  <2> DEFINE op == NewOperation(Of(KeyAt(slot)))
  <2>1. op \in memory /\ op.outputs = Of(KeyAt(slot))
    BY <1>3
  <2>2. PICK j \in 1 .. Len(Of(KeyAt(slot))) : Of(KeyAt(slot))[j].slot = slot
    BY <1>1, <1>2
  <2>3. ASSUME NEW other \in memory, NEW k \in DOMAIN other.outputs, other.outputs[k].slot = slot
        PROVE  other = op /\ k = j
    <3>1. PICK from \in DOMAIN definitions : other = NewOperation(Of(KeyAt(from)))
      OBVIOUS
    <3>2. other.outputs = Of(KeyAt(from))
      BY <1>3, <3>1
    <3>3. KeyAt(from) = KeyAt(slot)
      BY <1>2, <2>3, <3>2
    <3>4. k \in 1 .. Len(Of(KeyAt(slot))) /\ Of(KeyAt(slot))[k].slot = Of(KeyAt(slot))[j].slot
      BY <1>2, <2>2, <2>3, <3>2, <3>3
    <3>5. k = j
      BY <1>2, <2>2, <3>4
    <3> QED
      BY <3>1, <3>3, <3>5
  <2>4. j \in DOMAIN op.outputs /\ op.outputs[j].slot = slot
    BY <1>2, <2>1, <2>2
  <2> HIDE DEF op, memory
  <2>5. Owns(memory, slot, op, j)
    BY <2>1, <2>3, <2>4 DEF Owns
  <2> QED
    BY <2>1, <2>5
<1>5. \A op \in memory : IsOperation(op) /\ op.input \in InputsOfDefinitions(definitions)
  BY <1>3
<1> HIDE DEF memory
<1> QED
  BY <1>1, <1>4, <1>5 DEF IsOperations

-----------------------------------------------------------------------------
(* What stages remember, and the shape of what they show.                  *)

SignatureFields == {"window", "warmup", "history", "visible"}

IsMemory(stage, memory) ==
  CASE stage.kind = "Scalar" -> IsOperations(stage.definitions, memory)
    [] stage.kind = "RollingPathSignature" ->
         memory = [field \in SignatureFields |-> memory[field]]
    [] OTHER -> memory = {}

IsColumn(f, n) == f = [c \in 1 .. n |-> f[c]]

IsShown(shown, n) == IsColumn(shown.values, n) /\ IsColumn(shown.observed, n)

LEMMA NewMemoryIsMemory ==
  ASSUME NEW stage, IsStage(stage)
  PROVE  IsMemory(stage, NewMemory(stage))
<1>1. CASE stage.kind = "Scalar"
  BY <1>1, CompiledOperations DEF IsStage, IsMemory, NewMemory, ColumnKinds
<1>2. CASE stage.kind = "RollingPathSignature"
  BY <1>2 DEF IsMemory, NewMemory, NewPathSignature, SignatureFields
<1>3. CASE stage.kind # "Scalar" /\ stage.kind # "RollingPathSignature"
  BY <1>3 DEF IsMemory, NewMemory
<1> QED
  BY <1>1, <1>2, <1>3

(* The values that a stage shows, given what it remembers by then. *)
ValuesOf(stage, memory, values) ==
  CASE stage.kind = "Scalar" -> [o \in DOMAIN stage.definitions |-> OutputAt(memory, o).value]
    [] stage.kind = "RollingPathSignature" ->
         [o \in 1 .. 6 |-> IF memory.visible = <<>> THEN <<>> ELSE <<memory.visible[o]>>]
    [] OTHER -> Transformed(stage, values)

MarksOf(stage, memory, ids, parent, advance) ==
  CASE stage.kind = "Scalar" -> [o \in DOMAIN stage.definitions |-> OutputAt(memory, o).observed]
    [] stage.kind = "RollingPathSignature" ->
         [o \in 1 .. 6 |-> advance /\ parent.observed[Position(ids, stage.input)]]
    [] OTHER -> [o \in DOMAIN stage.outputs |-> MarkOf(stage, o, parent.observed)]

MemoryAfter(stage, memory, ids, parent, advance) ==
  CASE stage.kind = "Scalar" -> Applied(memory, ids, parent, advance)
    [] stage.kind = "RollingPathSignature" ->
         ApplyPathSignature(memory, parent.values[Position(ids, stage.input)],
                            advance /\ parent.observed[Position(ids, stage.input)])
    [] OTHER -> memory

LEMMA StageShows ==
  ASSUME NEW stage, NEW memory, NEW ids, NEW parent, NEW global, NEW advance
  PROVE  LET after == MemoryAfter(stage, memory, ids, parent, advance)
         IN  ApplyStage(stage, memory, ids, parent, global, advance)
               = [memory |-> after, values |-> ValuesOf(stage, after, parent.values),
                  observed |-> MarksOf(stage, after, ids, parent, advance),
                  clocks |-> StageClocks(stage, ids, parent.clocks, global)]
<1>1. CASE stage.kind = "RollingPathSignature"
  BY <1>1 DEF ApplyStage, ApplySignature, ShownBySignature, StageClocks, ValuesOf, MarksOf,
              MemoryAfter
<1>2. CASE stage.kind = "Scalar"
  <2> DEFINE after == Applied(memory, ids, parent, advance)
  <2>1. ApplyScalar(stage, memory, ids, parent, global, advance)
          = ShownByScalar(stage, after, ids, parent, global)
    BY DEF ApplyScalar, ApplyAll, Applied, Given
  <2> HIDE DEF after
  <2>2. ShownByScalar(stage, after, ids, parent, global)
          = [memory |-> after, values |-> ValuesOf(stage, after, parent.values),
             observed |-> MarksOf(stage, after, ids, parent, advance),
             clocks |-> StageClocks(stage, ids, parent.clocks, global)]
    BY <1>2 DEF ShownByScalar, InheritedClock, StageClocks, ValuesOf, MarksOf
  <2> QED
    BY <1>2, <2>1, <2>2 DEF ApplyStage, MemoryAfter, after
<1>3. CASE stage.kind # "RollingPathSignature" /\ stage.kind # "Scalar"
  BY <1>3 DEF ApplyStage, ClockOf, StageClocks, ValuesOf, MarksOf, MemoryAfter
<1> QED
  BY <1>1, <1>2, <1>3

(* The shape of what a stage without memory computes. *)
Joined(a, b) == a \o b

IsJoined(c, a, m, b, n) ==
  /\ IsColumn(c, m + n)
  /\ \A o \in 1 .. m + n : (o <= m => c[o] = a[o]) /\ (~ (o <= m) => c[o] = b[o - m])

LEMMA JoinedColumns ==
  ASSUME NEW a, NEW m \in Nat, IsColumn(a, m), NEW b, NEW n \in Nat, IsColumn(b, n)
  PROVE  IsJoined(Joined(a, b), a, m, b, n)
<1> DEFINE S == {a[c] : c \in 1 .. m} \cup {b[c] : c \in 1 .. n}
<1>1. /\ \A c \in 1 .. m : a[c] \in S
      /\ \A c \in 1 .. n : b[c] \in S
  OBVIOUS
<1> HIDE DEF S
<1>2. a \in Seq(S) /\ Len(a) = m
  BY <1>1, IsASeq DEF IsColumn
<1>3. b \in Seq(S) /\ Len(b) = n
  BY <1>1, IsASeq DEF IsColumn
<1>4. a \o b \in Seq(S) /\ Len(a \o b) = m + n
  BY <1>2, <1>3
<1>5. \A o \in 1 .. m + n : (a \o b)[o] = IF o <= m THEN a[o] ELSE b[o - m]
  BY <1>2, <1>3
<1> QED
  BY <1>4, <1>5 DEF IsColumn, IsJoined, Joined

LEMMA TransformedIsColumn ==
  ASSUME NEW stage, IsStage(stage), NEW ids, IsVector(ids), ValidStage(stage, ids),
         stage.kind # "Scalar", stage.kind # "RollingPathSignature",
         NEW values, IsColumn(values, Len(ids))
  PROVE  IsColumn(Transformed(stage, values), Len(LayoutOf(stage)))
<1>1. Len(ids) \in Nat /\ DOMAIN ids = 1 .. Len(ids) /\ DOMAIN values = 1 .. Len(ids)
  BY VectorFacts DEF IsColumn
<1>2. CASE stage.kind \in ColumnKinds
  <2>1. LayoutOf(stage) = ids
    BY <1>2 DEF LayoutOf, ValidStage, ColumnKinds
  <2> QED
    BY <1>1, <1>2, <2>1 DEF Transformed, IsColumn, ColumnKinds
<1>3. CASE stage.kind = "Select"
  <2>1. LayoutOf(stage) = stage.outputs /\ IsVector(stage.indices)
        /\ Len(stage.outputs) = Len(stage.indices)
    BY <1>3 DEF IsStage, LayoutOf, ValidStage, ColumnKinds
  <2>2. DOMAIN stage.indices = 1 .. Len(LayoutOf(stage))
    BY <2>1, VectorFacts
  <2> QED
    BY <1>3, <2>2 DEF Transformed, IsColumn, ColumnKinds
<1>4. CASE stage.kind = "SimpleImpute"
  <2>1. /\ LayoutOf(stage) = stage.outputs
        /\ IsVector(stage.retained) /\ IsVector(stage.indicators)
        /\ Len(stage.outputs) = Len(stage.retained) + Len(stage.indicators)
    BY <1>4 DEF IsStage, LayoutOf, ValidStage, ValidImpute, ColumnKinds
  <2>2. /\ DOMAIN stage.retained = 1 .. Len(stage.retained) /\ Len(stage.retained) \in Nat
        /\ DOMAIN stage.indicators = 1 .. Len(stage.indicators) /\ Len(stage.indicators) \in Nat
    BY <2>1, VectorFacts
  <2> DEFINE first == [i \in DOMAIN stage.retained |->
                         IF Finite(values[stage.retained[i]]) THEN values[stage.retained[i]]
                         ELSE <<stage.replacement[i]>>]
             second == [i \in DOMAIN stage.indicators |->
                          IF Finite(values[stage.indicators[i]]) THEN <<0>> ELSE <<1>>]
  <2>3. /\ IsColumn(first, Len(stage.retained)) /\ IsColumn(second, Len(stage.indicators))
        /\ Transformed(stage, values) = Joined(first, second)
    BY <1>4, <2>2 DEF Transformed, Imputed, IsColumn, ColumnKinds, Joined
  <2> HIDE DEF first, second
  <2>4. IsColumn(Joined(first, second), Len(stage.retained) + Len(stage.indicators))
    BY ONLY <2>2, <2>3, JoinedColumns DEF IsJoined
  <2> QED
    BY <2>1, <2>3, <2>4
<1>5. CASE stage.kind = "Pca"
  <2>1. LayoutOf(stage) = stage.outputs /\ IsVector(stage.components)
        /\ Len(stage.components) = Len(stage.outputs)
    BY <1>5 DEF IsStage, LayoutOf, ValidStage, ValidPca, ColumnKinds
  <2>2. DOMAIN stage.components = 1 .. Len(LayoutOf(stage))
    BY <2>1, VectorFacts
  <2> QED
    BY <1>5, <2>2 DEF Transformed, Projected, IsColumn, ColumnKinds
<1> QED
  BY <1>2, <1>3, <1>4, <1>5 DEF IsStage

LEMMA VectorIsColumn ==
  ASSUME NEW s, IsVector(s)
  PROVE  IsColumn(s, Len(s))
BY DEF IsVector, IsColumn

(* An output is of its columns, and of no other ones. *)
LEMMA TransformedOfColumns ==
  ASSUME NEW stage, IsStage(stage), NEW ids, IsVector(ids), ValidStage(stage, ids),
         stage.kind # "Scalar", stage.kind # "RollingPathSignature",
         NEW v, IsColumn(v, Len(ids)), NEW w, IsColumn(w, Len(ids)),
         NEW o \in 1 .. Len(LayoutOf(stage)), \A c \in ColumnsOf(stage, o) : v[c] = w[c]
  PROVE  Transformed(stage, v)[o] = Transformed(stage, w)[o]
<1>1. Len(ids) \in Nat /\ DOMAIN ids = 1 .. Len(ids) /\ DOMAIN v = DOMAIN w
      /\ DOMAIN v = 1 .. Len(ids)
  BY VectorFacts DEF IsColumn
<1>2. CASE stage.kind \in ColumnKinds
  <2>1. LayoutOf(stage) = ids
    BY <1>2 DEF LayoutOf, ValidStage, ColumnKinds
  <2>2. v[o] = w[o] /\ o \in DOMAIN v /\ o \in DOMAIN w
    BY <1>1, <1>2, <2>1 DEF ColumnsOf, ColumnKinds
  <2> QED
    BY <1>2, <2>2 DEF Transformed, ColumnKinds, StandardScaled, MinMaxScaled, PowerTransformed,
                      QuantileTransformed, Number
<1>3. CASE stage.kind = "Select"
  <2>1. LayoutOf(stage) = stage.outputs /\ IsVector(stage.indices)
        /\ Len(stage.outputs) = Len(stage.indices)
    BY <1>3 DEF IsStage, LayoutOf, ValidStage, ColumnKinds
  <2>2. DOMAIN stage.indices = 1 .. Len(LayoutOf(stage))
    BY <2>1, VectorFacts
  <2>3. v[stage.indices[o]] = w[stage.indices[o]]
    BY <1>3 DEF ColumnsOf, ColumnKinds
  <2> QED
    BY <1>3, <2>2, <2>3 DEF Transformed, ColumnKinds
<1>4. CASE stage.kind = "SimpleImpute"
  <2>1. /\ LayoutOf(stage) = stage.outputs
        /\ IsVector(stage.retained) /\ IsVector(stage.indicators)
        /\ Len(stage.outputs) = Len(stage.retained) + Len(stage.indicators)
    BY <1>4 DEF IsStage, LayoutOf, ValidStage, ValidImpute, ColumnKinds
  <2> DEFINE m == Len(stage.retained)
             n == Len(stage.indicators)
             first(x) == [i \in DOMAIN stage.retained |->
                            IF Finite(x[stage.retained[i]]) THEN x[stage.retained[i]]
                            ELSE <<stage.replacement[i]>>]
             second(x) == [i \in DOMAIN stage.indicators |->
                             IF Finite(x[stage.indicators[i]]) THEN <<0>> ELSE <<1>>]
  <2>2. /\ DOMAIN stage.retained = 1 .. m /\ m \in Nat
        /\ DOMAIN stage.indicators = 1 .. n /\ n \in Nat
    BY <2>1, VectorFacts
  <2> DEFINE columns == Joined(stage.retained, stage.indicators)
  <2>3. o \in 1 .. m + n /\ v[columns[o]] = w[columns[o]]
    BY <1>4, <2>1 DEF ColumnsOf, ColumnKinds, Joined
  <2>4. IsJoined(columns, stage.retained, m, stage.indicators, n)
    BY <2>1, <2>2, VectorIsColumn, JoinedColumns
  <2>5. ASSUME NEW x
        PROVE  /\ IsJoined(Transformed(stage, x), first(x), m, second(x), n)
    <3> DEFINE a == first(x)
               b == second(x)
    <3>1. IsColumn(a, m) /\ IsColumn(b, n) /\ Transformed(stage, x) = Joined(a, b)
      BY <1>4, <2>2 DEF Transformed, Imputed, IsColumn, ColumnKinds, Joined
    <3> HIDE DEF a, b, m, n
    <3>2. IsJoined(Joined(a, b), a, m, b, n)
      BY ONLY <2>2, <3>1, JoinedColumns
    <3> QED
      BY <3>1, <3>2 DEF a, b
  <2> HIDE DEF columns, m, n
  <2>6. CASE o <= m
    <3>1. o \in DOMAIN stage.retained
      BY <2>2, <2>3, <2>6
    <3>2. v[stage.retained[o]] = w[stage.retained[o]]
      BY <2>3, <2>4, <2>6 DEF IsJoined
    <3>3. first(v)[o] = first(w)[o]
      BY <3>1, <3>2
    <3> HIDE DEF first, second
    <3>4. Transformed(stage, v)[o] = first(v)[o] /\ Transformed(stage, w)[o] = first(w)[o]
      BY <2>3, <2>5, <2>6 DEF IsJoined
    <3> QED
      BY <3>3, <3>4
  <2>7. CASE ~ (o <= m)
    <3>1. o - m \in DOMAIN stage.indicators
      BY <2>2, <2>3, <2>7
    <3>2. v[stage.indicators[o - m]] = w[stage.indicators[o - m]]
      BY <2>3, <2>4, <2>7 DEF IsJoined
    <3>3. second(v)[o - m] = second(w)[o - m]
      BY <3>1, <3>2
    <3> HIDE DEF first, second
    <3>4. /\ Transformed(stage, v)[o] = second(v)[o - m]
          /\ Transformed(stage, w)[o] = second(w)[o - m]
      BY <2>3, <2>5, <2>7 DEF IsJoined
    <3> QED
      BY <3>3, <3>4
  <2> QED
    BY <2>6, <2>7
<1>5. CASE stage.kind = "Pca"
  <2>1. LayoutOf(stage) = stage.outputs /\ IsVector(stage.components)
        /\ Len(stage.components) = Len(stage.outputs)
        /\ IsVector(stage.mean) /\ Len(stage.mean) = Len(ids)
    BY <1>5 DEF IsStage, LayoutOf, ValidStage, ValidPca, ColumnKinds
  <2>2. ColumnsOf(stage, o) = 1 .. Len(ids)
    BY <1>5, <2>1, VectorFacts DEF ColumnsOf, ColumnKinds
  <2>3. v = w
    BY <2>2 DEF IsColumn
  <2> QED
    BY <2>3
<1> QED
  BY <1>2, <1>3, <1>4, <1>5 DEF IsStage

(* The columns of the parent that a stage reads at all. *)
UsedColumns(stage, ids) ==
  CASE stage.kind = "Scalar" ->
         {Position(ids, input) : input \in InputsOfDefinitions(stage.definitions)}
    [] stage.kind = "RollingPathSignature" -> {Position(ids, stage.input)}
    [] stage.kind = "Select" -> {stage.indices[o] : o \in DOMAIN stage.indices}
    [] OTHER -> 1 .. Len(ids)

SameColumn(v, w, columns) == \A c \in columns : v[c] = w[c]

LEMMA TransformedOfUsed ==
  ASSUME NEW stage, IsStage(stage), NEW ids, IsVector(ids), ValidStage(stage, ids),
         stage.kind # "Scalar", stage.kind # "RollingPathSignature",
         NEW v, IsColumn(v, Len(ids)), NEW w, IsColumn(w, Len(ids)),
         SameColumn(v, w, UsedColumns(stage, ids))
  PROVE  Transformed(stage, v) = Transformed(stage, w)
<1>1. CASE stage.kind = "Select"
  BY <1>1 DEF Transformed, UsedColumns, SameColumn, ColumnKinds
<1>2. CASE stage.kind # "Select"
  <2>1. v = w
    BY <1>2 DEF UsedColumns, SameColumn, IsColumn
  <2> QED
    BY <2>1
<1> QED
  BY <1>1, <1>2

LEMMA UsedColumnsExist ==
  ASSUME NEW stage, IsStage(stage), NEW ids, IsVector(ids), ValidStage(stage, ids)
  PROVE  /\ UsedColumns(stage, ids) \subseteq 1 .. Len(ids)
         /\ stage.kind = "Scalar" \/ stage.kind = "RollingPathSignature"
            \/ \A o \in 1 .. Len(LayoutOf(stage)) : ColumnsOf(stage, o) \subseteq UsedColumns(stage, ids)
<1>1. IsVector(LayoutOf(stage)) /\ DOMAIN LayoutOf(stage) = 1 .. Len(LayoutOf(stage))
  BY ValidColumns, VectorFacts
<1>2. CASE stage.kind = "Scalar"
  <2>1. ValidDefinitions(stage.definitions, ToSet(ids))
    BY <1>2 DEF ValidStage
  <2>2. \A input \in InputsOfDefinitions(stage.definitions) : input \in ToSet(ids)
    BY <2>1 DEF ValidDefinitions, InputsOfDefinitions
  <2> QED
    BY <1>2, <2>2, PositionIsColumn DEF UsedColumns
<1>3. CASE stage.kind = "RollingPathSignature"
  <2>1. stage.input \in ToSet(ids)
    BY <1>3 DEF ValidStage
  <2> QED
    BY <1>3, <2>1, PositionIsColumn DEF UsedColumns
<1>4. CASE stage.kind = "Select"
  <2>1. LayoutOf(stage) = stage.outputs /\ IsVector(stage.indices)
        /\ Len(stage.outputs) = Len(stage.indices)
    BY <1>4 DEF IsStage, LayoutOf, ValidStage, ColumnKinds
  <2>2. DOMAIN stage.indices = 1 .. Len(LayoutOf(stage))
    BY <2>1, VectorFacts
  <2>3. \A o : ClockColumns(stage, ids, o) = {stage.indices[o]}
               /\ ColumnsOf(stage, o) = {stage.indices[o]}
    BY <1>4 DEF ClockColumns, ColumnsOf, ColumnKinds
  <2>4. UsedColumns(stage, ids) = {stage.indices[o] : o \in 1 .. Len(LayoutOf(stage))}
    BY <1>4, <2>2 DEF UsedColumns
  <2>5. \A o \in 1 .. Len(LayoutOf(stage)) : stage.indices[o] \in 1 .. Len(ids)
    BY <2>3, ValidColumns
  <2> QED
    BY <2>3, <2>4, <2>5
<1>5. CASE stage.kind \notin {"Scalar", "RollingPathSignature", "Select"}
  <2>1. UsedColumns(stage, ids) = 1 .. Len(ids)
    BY <1>5 DEF UsedColumns
  <2>2. \A o : ClockColumns(stage, ids, o) = ColumnsOf(stage, o)
    BY <1>5 DEF ClockColumns
  <2> QED
    BY <2>1, <2>2, ValidColumns
<1> QED
  BY <1>2, <1>3, <1>4, <1>5

(* A stage shows as many columns as its layout has. *)
LEMMA StageKeepsShape ==
  ASSUME NEW stage, IsStage(stage), NEW ids, IsVector(ids), ValidStage(stage, ids),
         NEW memory, IsMemory(stage, memory), NEW parent, IsShown(parent, Len(ids)),
         NEW global, NEW advance
  PROVE  LET shown == ApplyStage(stage, memory, ids, parent, global, advance)
         IN  IsMemory(stage, shown.memory) /\ IsShown(shown, Len(LayoutOf(stage)))
<1> DEFINE after == MemoryAfter(stage, memory, ids, parent, advance)
           width == Len(LayoutOf(stage))
<1>1. IsVector(LayoutOf(stage)) /\ DOMAIN LayoutOf(stage) = 1 .. width
  BY LayoutIsVector, VectorFacts
<1>2. IsMemory(stage, after)
  <2>1. CASE stage.kind = "Scalar"
    BY <2>1, AppliedKeepsOperations DEF IsMemory, MemoryAfter
  <2>2. CASE stage.kind = "RollingPathSignature"
    BY <2>2 DEF IsMemory, MemoryAfter, ApplyPathSignature, SignatureFields
  <2>3. CASE stage.kind # "RollingPathSignature" /\ stage.kind # "Scalar"
    BY <2>3 DEF IsMemory, MemoryAfter
  <2> QED
    BY <2>1, <2>2, <2>3
<1> HIDE DEF after
<1>3. IsColumn(ValuesOf(stage, after, parent.values), width)
  <2>1. CASE stage.kind = "Scalar"
    <3>1. DOMAIN stage.definitions = 1 .. width
      BY <1>1, <2>1 DEF LayoutOf
    <3> QED
      BY <2>1, <3>1 DEF ValuesOf, IsColumn
  <2>2. CASE stage.kind = "RollingPathSignature"
    <3>1. width = 6
      BY <2>2 DEF ValidStage
    <3> QED
      BY <2>2, <3>1 DEF ValuesOf, IsColumn
  <2>3. CASE stage.kind # "RollingPathSignature" /\ stage.kind # "Scalar"
    BY <2>3, TransformedIsColumn DEF ValuesOf, IsShown
  <2> QED
    BY <2>1, <2>2, <2>3
<1>4. IsColumn(MarksOf(stage, after, ids, parent, advance), width)
  <2>1. CASE stage.kind = "Scalar"
    <3>1. DOMAIN stage.definitions = 1 .. width
      BY <1>1, <2>1 DEF LayoutOf
    <3> QED
      BY <2>1, <3>1 DEF MarksOf, IsColumn
  <2>2. CASE stage.kind = "RollingPathSignature"
    <3>1. width = 6
      BY <2>2 DEF ValidStage
    <3> QED
      BY <2>2, <3>1 DEF MarksOf, IsColumn
  <2>3. CASE stage.kind # "RollingPathSignature" /\ stage.kind # "Scalar"
    <3>1. DOMAIN stage.outputs = 1 .. width
      BY <1>1, <2>3 DEF LayoutOf
    <3> QED
      BY <2>3, <3>1 DEF MarksOf, IsColumn
  <2> QED
    BY <2>1, <2>2, <2>3
<1>5. ApplyStage(stage, memory, ids, parent, global, advance)
        = [memory |-> after, values |-> ValuesOf(stage, after, parent.values),
           observed |-> MarksOf(stage, after, ids, parent, advance),
           clocks |-> StageClocks(stage, ids, parent.clocks, global)]
  BY StageShows DEF after
<1> QED
  BY <1>2, <1>3, <1>4, <1>5 DEF IsShown

-----------------------------------------------------------------------------
(* A refresh of a stage.                                                   *)

(* Operations that show their input as it is show that of the last refresh. *)
IsCurrent(stage, ids, memory, values) ==
  stage.kind = "Scalar" =>
    \A op \in memory : IsDirect(op, values[Position(ids, op.input)])

LEMMA DirectMarks ==
  ASSUME NEW op, IsOperation(op), NEW in, op.outputs[1].kind \in DirectKinds
  PROVE  Apply(op, in).marked = in.observed
<1>1. op.outputs[1].kind \in ScalarKinds
  BY DEF IsOperation
<1>2. ApplyIdentity(op, in).marked = in.observed /\ ApplyScale(op, in).marked = in.observed
  BY DEF ApplyIdentity, ApplyScale, IsOperation, OperationFields
<1> QED
  BY <1>1, <1>2, ApplyCases DEF DirectKinds

LEMMA StageIsCurrent ==
  ASSUME NEW stage, NEW ids, NEW memory, IsMemory(stage, memory), NEW parent, NEW global,
         NEW advance
  PROVE  LET shown == ApplyStage(stage, memory, ids, parent, global, advance)
         IN  /\ IsCurrent(stage, ids, shown.memory, parent.values)
             /\ shown.values = ValuesOf(stage, shown.memory, parent.values)
<1> DEFINE after == MemoryAfter(stage, memory, ids, parent, advance)
<1>1. ApplyStage(stage, memory, ids, parent, global, advance)
        = [memory |-> after, values |-> ValuesOf(stage, after, parent.values),
           observed |-> MarksOf(stage, after, ids, parent, advance),
           clocks |-> StageClocks(stage, ids, parent.clocks, global)]
  BY StageShows
<1>2. IsCurrent(stage, ids, after, parent.values)
  <2> SUFFICES ASSUME stage.kind = "Scalar", NEW next \in after
               PROVE  IsDirect(next, parent.values[Position(ids, next.input)])
    BY DEF IsCurrent
  <2>1. PICK op \in memory : next = Apply(op, Given(ids, parent, advance, op))
    BY DEF MemoryAfter, Applied
  <2> DEFINE in == Given(ids, parent, advance, op)
  <2>2. IsOperation(op) /\ in.value = parent.values[Position(ids, op.input)]
    BY DEF IsMemory, IsOperations, Given, InputOf
  <2> HIDE DEF in
  <2>3. next.input = op.input /\ IsDirect(next, in.value)
    BY <2>1, <2>2, ApplyIsDirect, ApplyKeepsOutputs DEF SameOutputs, in
  <2> QED
    BY <2>2, <2>3
<1> HIDE DEF after
<1> QED
  BY <1>1, <1>2

(* What changes is marked, if so it is at the parent. *)
LEMMA StageMarksChanges ==
  ASSUME NEW stage, IsStage(stage), NEW ids, IsVector(ids), ValidStage(stage, ids),
         NEW memory, IsMemory(stage, memory),
         NEW values, IsColumn(values, Len(ids)), IsCurrent(stage, ids, memory, values),
         NEW parent, IsShown(parent, Len(ids)),
         \A c \in 1 .. Len(ids) : values[c] # parent.values[c] => parent.observed[c],
         NEW global, NEW o \in 1 .. Len(LayoutOf(stage))
  PROVE  LET shown == ApplyStage(stage, memory, ids, parent, global, TRUE)
         IN  ValuesOf(stage, memory, values)[o] # shown.values[o] => shown.observed[o]
<1> DEFINE after == MemoryAfter(stage, memory, ids, parent, TRUE)
           Sound == \/ ValuesOf(stage, memory, values)[o] = ValuesOf(stage, after, parent.values)[o]
                    \/ MarksOf(stage, after, ids, parent, TRUE)[o]
<1> SUFFICES Sound
  <2> DEFINE shown == ApplyStage(stage, memory, ids, parent, global, TRUE)
  <2>1. shown = [memory |-> after, values |-> ValuesOf(stage, after, parent.values),
                 observed |-> MarksOf(stage, after, ids, parent, TRUE),
                 clocks |-> StageClocks(stage, ids, parent.clocks, global)]
    BY StageShows
  <2> HIDE DEF after, shown
  <2>2. /\ shown.values = ValuesOf(stage, after, parent.values)
        /\ shown.observed = MarksOf(stage, after, ids, parent, TRUE)
    BY <2>1
  <2> QED
    BY <2>2, Zenon DEF shown
<1>1. DOMAIN LayoutOf(stage) = 1 .. Len(LayoutOf(stage))
  BY LayoutIsVector, VectorFacts
<1>2. UsedColumns(stage, ids) \subseteq 1 .. Len(ids)
  BY UsedColumnsExist
<1>3. CASE stage.kind = "Scalar"
  <2>1. o \in DOMAIN stage.definitions
    BY <1>1, <1>3 DEF LayoutOf
  <2>2. IsOperations(stage.definitions, memory)
    BY <1>3 DEF IsMemory
  <2>3. PICK op, j : Owns(memory, o, op, j)
    BY <2>1, <2>2 DEF IsOperations
  <2> DEFINE in   == Given(ids, parent, TRUE, op)
             next == Apply(op, in)
             at   == Position(ids, op.input)
  <2>4. IsOperation(op) /\ op.input \in InputsOfDefinitions(stage.definitions) /\ op \in memory
    BY <2>2, <2>3 DEF IsOperations, Owns
  <2>5. at \in 1 .. Len(ids)
    BY <1>2, <1>3, <2>4 DEF UsedColumns
  <2>6. in.value = parent.values[at] /\ in.observed = parent.observed[at]
    BY DEF Given, InputOf
  <2>7. after = Applied(memory, ids, parent, TRUE)
    BY <1>3 DEF MemoryAfter
  <2>8. Owns(after, o, next, j)
    BY <2>2, <2>3, <2>7, AppliedKeepsOperations
  <2> HIDE DEF after, next, in, at
  <2>9. next.visible = op.visible \/ next.marked
    <3>1. CASE op.outputs[1].kind \in DirectKinds /\ ~ in.observed
      <4>1. values[at] = in.value
        BY <2>5, <2>6, <3>1
      <4>2. IsDirect(op, in.value)
        BY <1>3, <2>4, <4>1 DEF IsCurrent, at
      <4> QED
        BY <2>4, <4>2, UnmarkedKeepsVisible DEF next
    <3>2. CASE op.outputs[1].kind \in DirectKinds /\ in.observed
      BY <2>4, <3>2, DirectMarks DEF next
    <3>3. CASE op.outputs[1].kind \notin DirectKinds
      <4>1. IsDirect(op, in.value)
        BY <3>3 DEF IsDirect
      <4> QED
        BY <2>4, <4>1, UnmarkedKeepsVisible DEF next
    <3> QED
      BY <3>1, <3>2, <3>3
  <2>10. /\ OutputAt(memory, o).value = op.visible[j]
         /\ OutputAt(after, o).value = next.visible[j]
         /\ OutputAt(after, o).observed = next.marked
    BY <2>3, <2>8, OutputIsOfOwner
  <2>11. /\ ValuesOf(stage, memory, values)[o] = OutputAt(memory, o).value
         /\ ValuesOf(stage, after, parent.values)[o] = OutputAt(after, o).value
         /\ MarksOf(stage, after, ids, parent, TRUE)[o] = OutputAt(after, o).observed
    BY <1>3, <2>1 DEF ValuesOf, MarksOf
  <2>12. /\ ValuesOf(stage, memory, values)[o] = op.visible[j]
         /\ ValuesOf(stage, after, parent.values)[o] = next.visible[j]
         /\ MarksOf(stage, after, ids, parent, TRUE)[o] = next.marked
    BY <2>10, <2>11
  <2> QED
    BY <2>9, <2>12 DEF after
<1>4. CASE stage.kind = "RollingPathSignature"
  <2> DEFINE refreshed == parent.observed[Position(ids, stage.input)]
  <2>1. o \in 1 .. 6
    BY <1>4 DEF ValidStage
  <2>2. ~ refreshed => after.visible = memory.visible
    BY <1>4 DEF MemoryAfter, ApplyPathSignature, IsMemory, SignatureFields
  <2> HIDE DEF after
  <2>3. MarksOf(stage, after, ids, parent, TRUE)[o] <=> refreshed
    BY <1>4, <2>1 DEF MarksOf
  <2>4. ~ refreshed => ValuesOf(stage, memory, values)[o] = ValuesOf(stage, after, parent.values)[o]
    BY <1>4, <2>1, <2>2 DEF ValuesOf
  <2> QED
    BY <2>3, <2>4
<1>5. CASE stage.kind # "Scalar" /\ stage.kind # "RollingPathSignature"
  <2>1. ColumnsOf(stage, o) \subseteq 1 .. Len(ids)
    BY <1>2, <1>5, UsedColumnsExist
  <2>2. /\ ValuesOf(stage, memory, values)[o] = Transformed(stage, values)[o]
        /\ ValuesOf(stage, after, parent.values)[o] = Transformed(stage, parent.values)[o]
    BY <1>5 DEF ValuesOf
  <2>3. MarksOf(stage, after, ids, parent, TRUE)[o] = MarkOf(stage, o, parent.observed)
    BY <1>1, <1>5 DEF MarksOf, LayoutOf
  <2> HIDE DEF after
  <2>4. CASE \A c \in ColumnsOf(stage, o) : values[c] = parent.values[c]
    <3> DEFINE later == parent.values
    <3>1. IsColumn(later, Len(ids)) /\ \A c \in ColumnsOf(stage, o) : values[c] = later[c]
      BY <2>4 DEF IsShown
    <3> HIDE DEF later
    <3>2. Transformed(stage, values)[o] = Transformed(stage, later)[o]
      BY <1>5, <3>1, TransformedOfColumns
    <3> QED
      BY <2>2, <3>2 DEF later
  <2>5. CASE ~ \A c \in ColumnsOf(stage, o) : values[c] = parent.values[c]
    <3>1. PICK c \in ColumnsOf(stage, o) : values[c] # parent.values[c]
      BY <2>5
    <3>2. c \in 1 .. Len(ids)
      BY <2>1
    <3>3. parent.observed[c]
      BY <3>1, <3>2, Zenon
    <3>4. MarkOf(stage, o, parent.observed)
      BY <3>3, Zenon DEF MarkOf
    <3> QED
      BY <2>3, <3>4
  <2> QED
    BY <2>4, <2>5
<1> QED
  BY <1>3, <1>4, <1>5

(* What a stage has for the next refresh to go by. *)
ResidueOf(stage, memory) ==
  IF stage.kind = "Scalar" THEN {Residue(op) : op \in memory} ELSE memory

Quiet(parent, n) == \A c \in 1 .. n : parent.observed[c] = FALSE

LEMMA InputsAreColumns ==
  ASSUME NEW stage, IsStage(stage), NEW ids, IsVector(ids), ValidStage(stage, ids),
         stage.kind = "Scalar", NEW memory, IsMemory(stage, memory), NEW op \in memory
  PROVE  /\ IsOperation(op)
         /\ Position(ids, op.input) \in UsedColumns(stage, ids)
         /\ Position(ids, op.input) \in 1 .. Len(ids)
<1>1. IsOperation(op) /\ op.input \in InputsOfDefinitions(stage.definitions)
  BY DEF IsMemory, IsOperations
<1>2. Position(ids, op.input) \in UsedColumns(stage, ids)
  BY <1>1 DEF UsedColumns
<1> QED
  BY <1>1, <1>2, UsedColumnsExist

LEMMA QuietKeepsResidue ==
  ASSUME NEW op, IsOperation(op), NEW in, in.observed = FALSE, in.advance = FALSE
  PROVE  Residue(Apply(op, in)) = Residue(op) /\ Apply(op, in).marked = FALSE
<1> DEFINE next == Apply(op, in)
<1>1. next = IF op.outputs[1].kind \in DirectKinds
               THEN [op EXCEPT !.marked = FALSE, !.visible = <<DirectValue(op, in.value)>>]
               ELSE [op EXCEPT !.marked = FALSE]
  BY UnobservedKeepsOperation
<1>2. IsOperation(next) /\ next.outputs = op.outputs
  BY ApplyKeepsOutputs DEF SameOutputs
<1> HIDE DEF next
<1>3. next.marked = FALSE
  BY <1>1 DEF IsOperation, OperationFields
<1>4. CASE op.outputs[1].kind \in DirectKinds
  <2>1. Residue(next) = [next EXCEPT !.marked = FALSE, !.visible = <<>>]
        /\ Residue(op) = [op EXCEPT !.marked = FALSE, !.visible = <<>>]
    BY <1>2, <1>4 DEF Residue
  <2> QED
    BY <1>1, <1>3, <1>4, <2>1 DEF IsOperation, OperationFields, next
<1>5. CASE op.outputs[1].kind \notin DirectKinds
  <2>1. Residue(next) = [next EXCEPT !.marked = FALSE, !.visible = next.visible]
        /\ Residue(op) = [op EXCEPT !.marked = FALSE, !.visible = op.visible]
    BY <1>2, <1>5 DEF Residue
  <2> QED
    BY <1>1, <1>3, <1>5, <2>1 DEF IsOperation, OperationFields, next
<1> QED
  BY <1>3, <1>4, <1>5 DEF next

(* A refresh without an event observes nothing. *)
LEMMA QuietStage ==
  ASSUME NEW stage, IsStage(stage), NEW ids, IsVector(ids), ValidStage(stage, ids),
         NEW memory, IsMemory(stage, memory), NEW parent, Quiet(parent, Len(ids)), NEW global
  PROVE  LET shown == ApplyStage(stage, memory, ids, parent, global, FALSE)
         IN  /\ Quiet(shown, Len(LayoutOf(stage)))
             /\ ResidueOf(stage, shown.memory) = ResidueOf(stage, memory)
<1> DEFINE after == MemoryAfter(stage, memory, ids, parent, FALSE)
           marks == MarksOf(stage, after, ids, parent, FALSE)
           width == Len(LayoutOf(stage))
<1>1. DOMAIN LayoutOf(stage) = 1 .. width
  BY LayoutIsVector, VectorFacts
<1>2. /\ \A o \in 1 .. width : marks[o] = FALSE
      /\ ResidueOf(stage, after) = ResidueOf(stage, memory)
  <2>1. CASE stage.kind = "Scalar"
    <3> DEFINE In(op)   == Given(ids, parent, FALSE, op)
               Next(op) == Apply(op, In(op))
    <3>0. after = Applied(memory, ids, parent, FALSE)
      BY <2>1 DEF MemoryAfter
    <3>1. after = {Next(op) : op \in memory}
      BY <3>0 DEF Applied
    <3>2. IsOperations(stage.definitions, memory)
      BY <2>1 DEF IsMemory
    <3>3. ASSUME NEW op \in memory
          PROVE  Residue(Next(op)) = Residue(op) /\ Next(op).marked = FALSE
      <4> DEFINE in == In(op)
      <4>1. /\ in.observed = parent.observed[Position(ids, op.input)]
            /\ in.advance = FALSE
        BY DEF Given, InputOf
      <4>2. IsOperation(op) /\ in.observed = FALSE
        BY <2>1, <4>1, InputsAreColumns DEF Quiet
      <4> HIDE DEF in
      <4>3. Residue(Apply(op, in)) = Residue(op) /\ Apply(op, in).marked = FALSE
        BY <4>1, <4>2, QuietKeepsResidue
      <4> QED
        BY <4>3 DEF in
    <3> HIDE DEF after
    <3>4. \A o, op, j : Owns(memory, o, op, j) => Owns(after, o, Next(op), j)
      BY <3>0, <3>2, AppliedKeepsOperations
    <3> HIDE DEF Next
    <3>5. ResidueOf(stage, after) = ResidueOf(stage, memory)
      BY <2>1, <3>1, <3>3 DEF ResidueOf
    <3>6. ASSUME NEW o \in 1 .. width
          PROVE  marks[o] = FALSE
      <4>1. o \in DOMAIN stage.definitions
        BY <1>1, <2>1 DEF LayoutOf
      <4>2. PICK op, j : Owns(memory, o, op, j)
        BY <3>2, <4>1 DEF IsOperations
      <4>3. op \in memory /\ Owns(after, o, Next(op), j)
        BY <3>4, <4>2 DEF Owns
      <4>4. OutputAt(after, o).observed = Next(op).marked
        BY <4>3, OutputIsOfOwner
      <4>5. marks[o] = OutputAt(after, o).observed
        BY <2>1, <4>1 DEF MarksOf
      <4> QED
        BY <3>3, <4>3, <4>4, <4>5
    <3> QED
      BY <3>5, <3>6
  <2>2. CASE stage.kind = "RollingPathSignature"
    <3>1. width = 6
      BY <2>2 DEF ValidStage
    <3>2. after = memory
      BY <2>2 DEF MemoryAfter, ApplyPathSignature, IsMemory, SignatureFields
    <3>3. \A o \in 1 .. width : marks[o] = FALSE
      BY <2>2, <3>1 DEF MarksOf
    <3> QED
      BY <3>2, <3>3
  <2>3. CASE stage.kind # "Scalar" /\ stage.kind # "RollingPathSignature"
    <3>1. after = memory
      BY <2>3 DEF MemoryAfter
    <3>2. ASSUME NEW o \in 1 .. width
          PROVE  marks[o] = FALSE
      <4>1. ColumnsOf(stage, o) \subseteq 1 .. Len(ids)
        BY <2>3, UsedColumnsExist
      <4>2. marks[o] = MarkOf(stage, o, parent.observed)
        BY <1>1, <2>3 DEF MarksOf, LayoutOf
      <4>3. MarkOf(stage, o, parent.observed) = FALSE
        BY <4>1 DEF MarkOf, Quiet
      <4> QED
        BY <4>2, <4>3
    <3> QED
      BY <3>1, <3>2
  <2> QED
    BY <2>1, <2>2, <2>3
<1> DEFINE shown == ApplyStage(stage, memory, ids, parent, global, FALSE)
<1>3. shown = [memory |-> after, values |-> ValuesOf(stage, after, parent.values),
               observed |-> marks, clocks |-> StageClocks(stage, ids, parent.clocks, global)]
  BY StageShows
<1> HIDE DEF after, marks, shown
<1>4. shown.memory = after /\ shown.observed = marks
  BY <1>3
<1>5. Quiet(shown, width) /\ ResidueOf(stage, shown.memory) = ResidueOf(stage, memory)
  BY <1>2, <1>4 DEF Quiet
<1> QED
  BY <1>5 DEF shown

ShowsStill(stage, memory, values, shown) ==
  /\ shown.values = ValuesOf(stage, memory, values)
  /\ Remembered(stage, shown.memory) = Remembered(stage, memory)

(* It shows what it showed, if what it reads of its parent is as it was. *)
LEMMA QuietStageStays ==
  ASSUME NEW stage, IsStage(stage), NEW ids, IsVector(ids), ValidStage(stage, ids),
         NEW memory, IsMemory(stage, memory), NEW parent, Quiet(parent, Len(ids)),
         IsShown(parent, Len(ids)), NEW values, IsColumn(values, Len(ids)),
         SameColumn(values, parent.values, UsedColumns(stage, ids)),
         IsCurrent(stage, ids, memory, values), NEW global
  PROVE  ShowsStill(stage, memory, values,
                    ApplyStage(stage, memory, ids, parent, global, FALSE))
<1> DEFINE after == MemoryAfter(stage, memory, ids, parent, FALSE)
<1>1. /\ ValuesOf(stage, after, parent.values) = ValuesOf(stage, memory, values)
      /\ Remembered(stage, after) = Remembered(stage, memory)
  <2>1. CASE stage.kind = "Scalar"
    <3> DEFINE Next(op)  == Apply(op, Given(ids, parent, FALSE, op))
               Rest(op)  == [op EXCEPT !.marked = FALSE]
    <3>0. after = Applied(memory, ids, parent, FALSE)
      BY <2>1 DEF MemoryAfter
    <3>1. after = {Next(op) : op \in memory}
      BY <3>0 DEF Applied
    <3>2. IsOperations(stage.definitions, memory)
      BY <2>1 DEF IsMemory
    <3> HIDE DEF after
    <3>3. ASSUME NEW op \in memory
          PROVE  Next(op).visible = op.visible /\ Rest(Next(op)) = Rest(op)
      <4> DEFINE in   == Given(ids, parent, FALSE, op)
                 at   == Position(ids, op.input)
                 next == Apply(op, in)
      <4>1. in.observed = parent.observed[at] /\ in.advance = FALSE /\ in.value = parent.values[at]
        BY DEF Given, InputOf
      <4>2. IsOperation(op) /\ in.observed = FALSE /\ in.value = values[at]
        BY <2>1, <4>1, InputsAreColumns DEF Quiet, SameColumn
      <4>3. IsDirect(op, in.value)
        BY <2>1, <4>2 DEF IsCurrent
      <4> HIDE DEF in
      <4>4. next = IF op.outputs[1].kind \in DirectKinds
                     THEN [op EXCEPT !.marked = FALSE, !.visible = <<DirectValue(op, in.value)>>]
                     ELSE [op EXCEPT !.marked = FALSE]
        BY <4>1, <4>2, UnobservedKeepsOperation
      <4> HIDE DEF next
      <4>5. next = Rest(op)
        <5>1. CASE op.outputs[1].kind \in DirectKinds
          <6>1. op.visible = <<DirectValue(op, in.value)>>
            BY <4>3, <5>1 DEF IsDirect
          <6>2. next = [op EXCEPT !.marked = FALSE, !.visible = op.visible]
            BY <4>4, <5>1, <6>1
          <6> QED
            BY <4>2, <6>2 DEF IsOperation, OperationFields
        <5>2. CASE op.outputs[1].kind \notin DirectKinds
          BY <4>4, <5>2
        <5> QED
          BY <5>1, <5>2
      <4>6. next.visible = op.visible /\ Rest(next) = Rest(op)
        BY <4>2, <4>5 DEF IsOperation, OperationFields
      <4> QED
        BY <4>6 DEF next, in
    <3>4. \A o, op, j : Owns(memory, o, op, j) => Owns(after, o, Next(op), j)
      BY <3>0, <3>2, AppliedKeepsOperations
    <3> HIDE DEF Next
    <3>5. Remembered(stage, after) = Remembered(stage, memory)
      <4>1. /\ Remembered(stage, after) = {Rest(op) : op \in after}
            /\ Remembered(stage, memory) = {Rest(op) : op \in memory}
        BY <2>1 DEF Remembered
      <4> HIDE DEF Rest
      <4> QED
        BY <3>1, <3>3, <4>1
    <3>6. ASSUME NEW o \in DOMAIN stage.definitions
          PROVE  OutputAt(after, o).value = OutputAt(memory, o).value
      <4>1. PICK op, j : Owns(memory, o, op, j)
        BY <3>2 DEF IsOperations
      <4>2. op \in memory /\ Owns(after, o, Next(op), j)
        BY <3>4, <4>1 DEF Owns
      <4>3. OutputAt(after, o).value = Next(op).visible[j] /\ OutputAt(memory, o).value = op.visible[j]
        BY <4>1, <4>2, OutputIsOfOwner
      <4> QED
        BY <3>3, <4>2, <4>3
    <3> QED
      BY <2>1, <3>5, <3>6 DEF ValuesOf
  <2>2. CASE stage.kind = "RollingPathSignature"
    <3>1. after = memory
      BY <2>2 DEF MemoryAfter, ApplyPathSignature, IsMemory, SignatureFields
    <3> HIDE DEF after
    <3> QED
      BY <2>2, <3>1 DEF ValuesOf
  <2>3. CASE stage.kind # "Scalar" /\ stage.kind # "RollingPathSignature"
    <3> DEFINE later == parent.values
    <3>1. after = memory
      BY <2>3 DEF MemoryAfter
    <3>2. IsColumn(later, Len(ids)) /\ SameColumn(values, later, UsedColumns(stage, ids))
      BY DEF IsShown
    <3> HIDE DEF later, after
    <3>3. Transformed(stage, values) = Transformed(stage, later)
      BY <2>3, <3>2, TransformedOfUsed
    <3> QED
      BY <2>3, <3>1, <3>3 DEF ValuesOf, later
  <2> QED
    BY <2>1, <2>2, <2>3
<1> DEFINE shown == ApplyStage(stage, memory, ids, parent, global, FALSE)
           marks == MarksOf(stage, after, ids, parent, FALSE)
<1>2. shown = [memory |-> after, values |-> ValuesOf(stage, after, parent.values),
               observed |-> marks, clocks |-> StageClocks(stage, ids, parent.clocks, global)]
  BY StageShows
<1> HIDE DEF after, marks, shown
<1>3. shown.memory = after /\ shown.values = ValuesOf(stage, after, parent.values)
  BY <1>2
<1> QED
  BY <1>1, <1>3 DEF ShowsStill, shown

(* Stages that remember the same and read the same show the same. *)
SameShown(p, q, columns) ==
  /\ SameColumn(p.values, q.values, columns)
  /\ SameColumn(p.observed, q.observed, columns)
  /\ SameColumn(p.clocks, q.clocks, columns)

LEMMA SameStagesShowTheSame ==
  ASSUME NEW stage, IsStage(stage), NEW ids, IsVector(ids), ValidStage(stage, ids),
         NEW a, IsMemory(stage, a), NEW b, IsMemory(stage, b),
         ResidueOf(stage, a) = ResidueOf(stage, b),
         NEW p, IsShown(p, Len(ids)), NEW q, IsShown(q, Len(ids)),
         SameShown(p, q, UsedColumns(stage, ids)),
         NEW global, NEW advance
  PROVE  ApplyStage(stage, a, ids, p, global, advance)
           = ApplyStage(stage, b, ids, q, global, advance)
<1> DEFINE next == MemoryAfter(stage, a, ids, p, advance)
           other == MemoryAfter(stage, b, ids, q, advance)
<1>1. next = other
  <2>1. CASE stage.kind = "Scalar"
    <3> DEFINE In(op) == Given(ids, p, advance, op)
               Of(op) == Given(ids, q, advance, op)
    <3>1. next = {Apply(op, In(op)) : op \in a} /\ other = {Apply(op, Of(op)) : op \in b}
      BY <2>1 DEF MemoryAfter, Applied
    <3>2. {Residue(op) : op \in a} = {Residue(op) : op \in b}
      BY <2>1 DEF ResidueOf
    <3>3. ASSUME NEW x \in a, NEW y \in b, Residue(x) = Residue(y)
          PROVE  Apply(x, In(x)) = Apply(y, Of(y))
      <4>1. /\ IsOperation(x) /\ IsOperation(y)
            /\ Position(ids, x.input) \in UsedColumns(stage, ids)
        BY <2>1, InputsAreColumns
      <4>2. x.input = y.input
        BY <3>3, <4>1 DEF Residue, IsOperation, OperationFields
      <4>3. In(x) = Of(y)
        BY <4>1, <4>2 DEF Given, InputOf, SameShown, SameColumn
      <4> HIDE DEF In, Of
      <4>4. Apply(x, In(x)) = Apply(y, In(x))
        BY <3>3, <4>1, SameResidueAppliesSame
      <4> QED
        BY <4>3, <4>4
    <3> HIDE DEF In, Of, next, other
    <3>4. \A x \in a : \E y \in b : Residue(x) = Residue(y)
      BY <3>2
    <3>5. ASSUME NEW y \in b
          PROVE  \E x \in a : Residue(x) = Residue(y)
      <4>1. Residue(y) \in {Residue(op) : op \in a}
        BY <3>2
      <4> QED
        BY <4>1
    <3> QED
      BY <3>1, <3>3, <3>4, <3>5
  <2>2. CASE stage.kind = "RollingPathSignature"
    <3>1. Position(ids, stage.input) \in UsedColumns(stage, ids) /\ a = b
      BY <2>2 DEF UsedColumns, ResidueOf
    <3> QED
      BY <2>2, <3>1 DEF MemoryAfter, SameShown, SameColumn
  <2>3. CASE stage.kind # "Scalar" /\ stage.kind # "RollingPathSignature"
    BY <2>3 DEF MemoryAfter, ResidueOf
  <2> QED
    BY <2>1, <2>2, <2>3
<1> HIDE DEF next
<1>2. ValuesOf(stage, next, p.values) = ValuesOf(stage, next, q.values)
  <2>1. CASE stage.kind = "Scalar" \/ stage.kind = "RollingPathSignature"
    BY <2>1 DEF ValuesOf
  <2>2. CASE stage.kind # "Scalar" /\ stage.kind # "RollingPathSignature"
    <3> DEFINE v == p.values
               w == q.values
    <3>1. IsColumn(v, Len(ids)) /\ IsColumn(w, Len(ids)) /\ SameColumn(v, w, UsedColumns(stage, ids))
      BY DEF IsShown, SameShown
    <3> HIDE DEF v, w
    <3>2. Transformed(stage, v) = Transformed(stage, w)
      BY <2>2, <3>1, TransformedOfUsed
    <3> QED
      BY <2>2, <3>2 DEF ValuesOf, v, w
  <2> QED
    BY <2>1, <2>2
<1>3. MarksOf(stage, next, ids, p, advance) = MarksOf(stage, next, ids, q, advance)
  <2>1. CASE stage.kind = "Scalar"
    BY <2>1 DEF MarksOf
  <2>2. CASE stage.kind = "RollingPathSignature"
    <3>1. Position(ids, stage.input) \in UsedColumns(stage, ids)
      BY <2>2 DEF UsedColumns
    <3> QED
      BY <2>2, <3>1 DEF MarksOf, SameShown, SameColumn
  <2>3. CASE stage.kind # "Scalar" /\ stage.kind # "RollingPathSignature"
    <3>1. DOMAIN LayoutOf(stage) = 1 .. Len(LayoutOf(stage)) /\ LayoutOf(stage) = stage.outputs
      BY <2>3, LayoutIsVector, VectorFacts DEF LayoutOf
    <3>2. ASSUME NEW o \in DOMAIN stage.outputs
          PROVE  MarkOf(stage, o, p.observed) = MarkOf(stage, o, q.observed)
      <4>1. ColumnsOf(stage, o) \subseteq UsedColumns(stage, ids)
        BY <2>3, <3>1, UsedColumnsExist
      <4> QED
        BY <4>1 DEF MarkOf, SameShown, SameColumn
    <3> QED
      BY <2>3, <3>2 DEF MarksOf
  <2> QED
    BY <2>1, <2>2, <2>3
<1>4. StageClocks(stage, ids, p.clocks, global) = StageClocks(stage, ids, q.clocks, global)
  <2>1. CASE stage.kind = "Scalar"
    <3>1. \A o \in DOMAIN stage.definitions :
            Position(ids, stage.definitions[o].input) \in UsedColumns(stage, ids)
      BY <2>1 DEF UsedColumns, InputsOfDefinitions
    <3> QED
      BY <2>1, <3>1 DEF StageClocks, SameShown, SameColumn
  <2>2. CASE stage.kind = "RollingPathSignature"
    <3>1. Position(ids, stage.input) \in UsedColumns(stage, ids)
      BY <2>2 DEF UsedColumns
    <3> QED
      BY <2>2, <3>1 DEF StageClocks, SameShown, SameColumn
  <2>3. CASE stage.kind # "Scalar" /\ stage.kind # "RollingPathSignature"
    <3>1. DOMAIN LayoutOf(stage) = 1 .. Len(LayoutOf(stage)) /\ LayoutOf(stage) = stage.outputs
      BY <2>3, LayoutIsVector, VectorFacts DEF LayoutOf
    <3> DEFINE Of(clocks, o) == {clocks[c] : c \in ColumnsOf(stage, o)}
    <3>2. ASSUME NEW o \in DOMAIN stage.outputs
          PROVE  Of(p.clocks, o) = Of(q.clocks, o)
      <4>1. ColumnsOf(stage, o) \subseteq UsedColumns(stage, ids)
        BY <2>3, <3>1, UsedColumnsExist
      <4>2. \A c \in ColumnsOf(stage, o) : p.clocks[c] = q.clocks[c]
        BY <4>1 DEF SameShown, SameColumn
      <4> QED
        BY <4>2
    <3>3. \A clocks : StageClocks(stage, ids, clocks, global)
                        = [o \in DOMAIN stage.outputs |-> Max(Of(clocks, o))]
      BY <2>3 DEF StageClocks
    <3> HIDE DEF Of
    <3> QED
      BY <3>2, <3>3
  <2> QED
    BY <2>1, <2>2, <2>3
<1> DEFINE Shown(memory, values, observed, clocks) ==
             [memory |-> memory, values |-> values, observed |-> observed, clocks |-> clocks]
<1>5. /\ ApplyStage(stage, a, ids, p, global, advance)
           = Shown(next, ValuesOf(stage, next, p.values), MarksOf(stage, next, ids, p, advance),
                   StageClocks(stage, ids, p.clocks, global))
      /\ ApplyStage(stage, b, ids, q, global, advance)
           = Shown(other, ValuesOf(stage, other, q.values),
                   MarksOf(stage, other, ids, q, advance),
                   StageClocks(stage, ids, q.clocks, global))
  BY StageShows DEF next
<1> HIDE DEF other, Shown
<1> QED
  BY <1>1, <1>2, <1>3, <1>4, <1>5

-----------------------------------------------------------------------------
(* A refresh of a graph.  A runtime has as many columns as its layouts, and *)
(* operations for the definitions of its scalar stages.                    *)

Structured(p, spec) ==
  /\ IsRuntimeOf(p, spec)
  /\ \A i \in 0 .. Len(spec.nodes) : IsShown(NodeShown(p, i), Len(NodeIds(spec, i)))
  /\ \A i \in 1 .. Len(spec.nodes) : IsMemory(spec.nodes[i].stage, p.nodes[i].memory)

(* Each node shows what its stage makes of what its parent shows. *)
Current(p, spec) ==
  \A i \in 1 .. Len(spec.nodes) :
    LET n      == spec.nodes[i]
        memory == p.nodes[i].memory
        values == NodeShown(p, n.parent).values
    IN  /\ p.nodes[i].values = ValuesOf(n.stage, memory, values)
        /\ IsCurrent(n.stage, NodeIds(spec, n.parent), memory, values)

(* A runtime that is about to be refreshed: its raw cells may be new. *)
Observing(p, q, spec) == Structured(p, spec) /\ Structured(q, spec) /\ q.nodes = p.nodes

LEMMA NewIsStructured ==
  ASSUME NEW spec, WellFormed(spec)
  PROVE  Structured(NewPipeline(spec), spec)
<1> DEFINE p == NewPipeline(spec)
           n == Len(spec.nodes)
<1>1. n \in Nat /\ DOMAIN spec.nodes = 1 .. n
  BY VectorFacts DEF WellFormed
<1>2. IsRuntimeOf(p, spec)
  BY NewClocksFollow DEF ClocksFollow
<1>3. /\ p.raw = Blank(RawIds)
      /\ \A i \in 1 .. n : /\ p.nodes[i].values = Blank(NodeIds(spec, i)).values
                           /\ p.nodes[i].observed = Blank(NodeIds(spec, i)).observed
                           /\ p.nodes[i].memory = NewMemory(spec.nodes[i].stage)
  BY <1>1 DEF NewPipeline
<1> HIDE DEF p
<1>4. ASSUME NEW ids, IsVector(ids)
      PROVE  /\ IsColumn(Blank(ids).values, Len(ids))
             /\ IsColumn(Blank(ids).observed, Len(ids))
  BY <1>4, VectorFacts DEF Blank, IsColumn
<1>5. ASSUME NEW i \in 0 .. n
      PROVE  IsShown(NodeShown(p, i), Len(NodeIds(spec, i)))
  <2>1. IsVector(NodeIds(spec, i))
    BY LayoutsAreVectors
  <2>2. CASE i = 0
    BY <1>3, <1>4, <2>1, <2>2 DEF NodeShown, NodeIds, IsShown
  <2>3. CASE i # 0
    <3>1. i \in 1 .. n
      BY <1>1, <2>3
    <3> QED
      BY <1>3, <1>4, <2>1, <2>3, <3>1 DEF NodeShown, IsShown
  <2> QED
    BY <2>2, <2>3
<1>6. ASSUME NEW i \in 1 .. n
      PROVE  IsMemory(spec.nodes[i].stage, p.nodes[i].memory)
  BY <1>3, NewMemoryIsMemory DEF WellFormed
<1> QED
  BY <1>2, <1>5, <1>6 DEF Structured, p

LEMMA RefreshIsStructured ==
  ASSUME NEW p, NEW spec, Structured(p, spec), NEW advance
  PROVE  Structured(Refresh(p, advance), spec) /\ Current(Refresh(p, advance), spec)
<1> DEFINE q == Refresh(p, advance)
           n == Len(spec.nodes)
           Sound(i) == /\ IsShown(NodeShown(q, i), Len(NodeIds(spec, i)))
                       /\ i # 0 => IsMemory(spec.nodes[i].stage, q.nodes[i].memory)
           T == {k \in 0 .. n : \A i \in 0 .. k : Sound(i)}
<1>1. /\ IsRuntimeOf(p, spec) /\ IsRuntime(p) /\ WellFormed(spec) /\ n \in Nat
  BY VectorFacts DEF Structured, IsRuntimeOf, WellFormed
<1>2. /\ IsRuntimeOf(q, spec) /\ q.raw = RefreshedRaw(p)
      /\ \A i \in 1 .. n :
           q.nodes[i] = ApplyStage(spec.nodes[i].stage, p.nodes[i].memory,
                                   NodeIds(spec, spec.nodes[i].parent),
                                   NodeShown(q, spec.nodes[i].parent), GlobalClock(p), advance)
  BY <1>1, RefreshNodes
<1> HIDE DEF q
<1>3. 0 \in T
  <2>1. IsShown(p.raw, Len(NodeIds(spec, 0)))
    BY <1>1 DEF Structured, NodeShown
  <2>2. NodeShown(q, 0).values = p.raw.values /\ NodeShown(q, 0).observed = p.raw.observed
    BY <1>1, <1>2, RefreshedRawShows DEF NodeShown
  <2>3. Sound(0)
    BY <2>1, <2>2 DEF IsShown
  <2>4. \A i \in 0 .. 0 : i = 0
    OBVIOUS
  <2> HIDE DEF Sound
  <2> QED
    BY <1>1, <2>3, <2>4
<1>4. ASSUME NEW k \in 1 .. n, k - 1 \in T
      PROVE  k \in T
  <2> DEFINE stage  == spec.nodes[k].stage
             parent == spec.nodes[k].parent
             ids    == NodeIds(spec, parent)
             memory == p.nodes[k].memory
             shown  == NodeShown(q, parent)
             next   == ApplyStage(stage, memory, ids, shown, GlobalClock(p), advance)
  <2>1. /\ parent \in 0 .. k - 1
        /\ IsStage(stage) /\ IsVector(ids) /\ ValidStage(stage, ids)
        /\ NodeIds(spec, k) = LayoutOf(stage)
    BY <1>1, NodeOfSpec
  <2>2. IsShown(shown, Len(ids)) /\ IsMemory(stage, memory)
    BY <1>4, <2>1 DEF Structured
  <2>3. q.nodes[k] = next /\ k # 0
    BY <1>1, <1>2
  <2> HIDE DEF stage, ids, memory, shown
  <2>4. IsMemory(stage, next.memory) /\ IsShown(next, Len(LayoutOf(stage)))
    BY <2>1, <2>2, StageKeepsShape
  <2> HIDE DEF next
  <2>5. Sound(k)
    BY <2>1, <2>3, <2>4 DEF NodeShown, stage
  <2>6. \A i \in 0 .. k : i = k \/ i \in 0 .. k - 1
    BY <1>1
  <2> HIDE DEF Sound
  <2> QED
    BY <1>1, <1>4, <2>5, <2>6
<1> HIDE DEF T, n
<1>5. \A k \in 0 .. n : k \in T
  BY <1>1, <1>3, <1>4, UpwardInduction
<1>6. \A i \in 0 .. n : Sound(i)
  <2>1. n \in T
    BY <1>1, <1>5
  <2> QED
    BY <2>1 DEF T
<1>7. \A i \in 1 .. n : i \in 0 .. n /\ i # 0
  BY <1>1
<1>8. Structured(q, spec)
  BY <1>2, <1>6, <1>7 DEF Structured, n
<1>9. ASSUME NEW i \in 1 .. n
      PROVE  LET node == spec.nodes[i]
                 values == NodeShown(q, node.parent).values
             IN  /\ q.nodes[i].values = ValuesOf(node.stage, q.nodes[i].memory, values)
                 /\ IsCurrent(node.stage, NodeIds(spec, node.parent), q.nodes[i].memory, values)
  BY <1>2, StageIsCurrent DEF Structured, n
<1>10. Current(q, spec)
  BY <1>9 DEF Current, n
<1> QED
  BY <1>8, <1>10 DEF q

(* What changed among n columns is marked. *)
MarksChanges(before, after, n) ==
  \A o \in 1 .. n : before.values[o] # after.values[o] => after.observed[o]

(* What a refresh reads when the raw cells of a runtime are new.            *)
FollowsRefresh(r, p, q, spec, advance) ==
  /\ r.raw = RefreshedRaw(q) /\ Structured(r, spec)
  /\ \A i \in 1 .. Len(spec.nodes) :
       r.nodes[i] = ApplyStage(spec.nodes[i].stage, p.nodes[i].memory,
                               NodeIds(spec, spec.nodes[i].parent),
                               NodeShown(r, spec.nodes[i].parent), GlobalClock(q), advance)

LEMMA ObservedRefresh ==
  ASSUME NEW p, NEW q, NEW spec, Observing(p, q, spec), NEW advance
  PROVE  FollowsRefresh(Refresh(q, advance), p, q, spec, advance)
<1> DEFINE r == Refresh(q, advance)
<1>1. IsRuntimeOf(q, spec) /\ Structured(q, spec) /\ q.nodes = p.nodes
  BY DEF Observing, Structured
<1>2. Structured(r, spec)
  BY <1>1, RefreshIsStructured
<1>3. /\ r.raw = RefreshedRaw(q)
      /\ \A i \in 1 .. Len(spec.nodes) :
           r.nodes[i] = ApplyStage(spec.nodes[i].stage, q.nodes[i].memory,
                                   NodeIds(spec, spec.nodes[i].parent),
                                   NodeShown(r, spec.nodes[i].parent), GlobalClock(q), advance)
  BY <1>1, RefreshNodes
<1> HIDE DEF r
<1>4. FollowsRefresh(r, p, q, spec, advance)
  BY <1>1, <1>2, <1>3, Zenon DEF FollowsRefresh
<1> QED
  BY <1>4 DEF r

(* A refresh after an event marks what it changes, node after node. *)
LEMMA RefreshMarksChanges ==
  ASSUME NEW p, NEW q, NEW spec, Observing(p, q, spec), Current(p, spec),
         MarksChanges(p.raw, q.raw, Len(RawIds))
  PROVE  LET r == Refresh(q, TRUE)
         IN  \A i \in 0 .. Len(spec.nodes) :
               MarksChanges(NodeShown(p, i), NodeShown(r, i), Len(NodeIds(spec, i)))
<1> DEFINE r == Refresh(q, TRUE)
           n == Len(spec.nodes)
           Marked(i) == MarksChanges(NodeShown(p, i), NodeShown(r, i), Len(NodeIds(spec, i)))
           T == {k \in 0 .. n : \A i \in 0 .. k : Marked(i)}
<1>1. /\ IsRuntimeOf(q, spec) /\ IsRuntime(q) /\ WellFormed(spec) /\ n \in Nat
      /\ Structured(p, spec) /\ q.nodes = p.nodes
  BY VectorFacts DEF Observing, Structured, IsRuntimeOf, WellFormed
<1>2. /\ r.raw = RefreshedRaw(q) /\ Structured(r, spec)
      /\ \A i \in 1 .. n :
           r.nodes[i] = ApplyStage(spec.nodes[i].stage, p.nodes[i].memory,
                                   NodeIds(spec, spec.nodes[i].parent),
                                   NodeShown(r, spec.nodes[i].parent), GlobalClock(q), TRUE)
  <2>1. FollowsRefresh(r, p, q, spec, TRUE)
    BY ObservedRefresh
  <2> QED
    BY <2>1 DEF FollowsRefresh
<1> HIDE DEF r
<1>3. 0 \in T
  <2>1. NodeShown(r, 0).values = q.raw.values /\ NodeShown(r, 0).observed = q.raw.observed
    BY <1>1, <1>2, RefreshedRawShows DEF NodeShown
  <2>2. Marked(0)
    BY <2>1, Zenon DEF NodeShown, NodeIds, MarksChanges
  <2>3. \A i \in 0 .. 0 : i = 0
    OBVIOUS
  <2> HIDE DEF Marked
  <2> QED
    BY <1>1, <2>2, <2>3
<1>4. ASSUME NEW k \in 1 .. n, k - 1 \in T
      PROVE  k \in T
  <2> DEFINE stage  == spec.nodes[k].stage
             parent == spec.nodes[k].parent
             ids    == NodeIds(spec, parent)
             memory == p.nodes[k].memory
             shown  == NodeShown(r, parent)
             values == NodeShown(p, parent).values
             next   == ApplyStage(stage, memory, ids, shown, GlobalClock(q), TRUE)
  <2>1. /\ parent \in 0 .. k - 1 /\ parent \in 0 .. n
        /\ IsStage(stage) /\ IsVector(ids) /\ ValidStage(stage, ids)
        /\ NodeIds(spec, k) = LayoutOf(stage)
    BY <1>1, NodeOfSpec
  <2>2. /\ IsShown(shown, Len(ids)) /\ IsColumn(values, Len(ids)) /\ IsMemory(stage, memory)
    BY <1>1, <1>2, <2>1 DEF Structured, IsShown
  <2>3. \A c \in 1 .. Len(ids) : values[c] # shown.values[c] => shown.observed[c]
    BY <1>4, <2>1, Zenon DEF MarksChanges
  <2>4. /\ p.nodes[k].values = ValuesOf(stage, memory, values)
        /\ IsCurrent(stage, ids, memory, values)
    BY DEF Current
  <2>5. r.nodes[k] = next
    BY <1>2, Zenon
  <2>9. k # 0
    BY <1>1
  <2> HIDE DEF stage, ids, memory, shown, values
  <2>6. \A o \in 1 .. Len(LayoutOf(stage)) :
          ValuesOf(stage, memory, values)[o] # next.values[o] => next.observed[o]
    BY <2>1, <2>2, <2>3, <2>4, StageMarksChanges, Zenon
  <2> HIDE DEF next
  <2>7. Marked(k)
    <3>1. NodeShown(p, k).values = ValuesOf(stage, memory, values) /\ NodeShown(r, k) = next
      BY <2>4, <2>5, <2>9 DEF NodeShown
    <3> QED
      BY <2>1, <2>6, <3>1, Zenon DEF stage, MarksChanges
  <2>8. \A i \in 0 .. k : i = k \/ i \in 0 .. k - 1
    BY <1>1
  <2> HIDE DEF Marked
  <2> QED
    BY <1>1, <1>4, <2>7, <2>8
<1> HIDE DEF T, n
<1>5. \A k \in 0 .. n : k \in T
  BY <1>1, <1>3, <1>4, UpwardInduction
<1>6. \A i \in 0 .. n : Marked(i)
  <2>1. n \in T
    BY <1>1, <1>5
  <2> QED
    BY <2>1 DEF T
<1> QED
  BY <1>6, Zenon DEF r, n

KeepsResidues(p, r, spec) ==
  \A i \in 1 .. Len(spec.nodes) :
    ResidueOf(spec.nodes[i].stage, r.nodes[i].memory)
      = ResidueOf(spec.nodes[i].stage, p.nodes[i].memory)

(* A refresh without an event marks nothing. *)
LEMMA RefreshIsQuiet ==
  ASSUME NEW p, NEW q, NEW spec, Observing(p, q, spec), Quiet(q.raw, Len(RawIds))
  PROVE  LET r == Refresh(q, FALSE)
         IN  /\ \A i \in 0 .. Len(spec.nodes) : Quiet(NodeShown(r, i), Len(NodeIds(spec, i)))
             /\ KeepsResidues(p, r, spec)
<1> DEFINE r == Refresh(q, FALSE)
           n == Len(spec.nodes)
           Still(i) == Quiet(NodeShown(r, i), Len(NodeIds(spec, i)))
           Kept(i)  == ResidueOf(spec.nodes[i].stage, r.nodes[i].memory)
                         = ResidueOf(spec.nodes[i].stage, p.nodes[i].memory)
           T == {k \in 0 .. n : \A i \in 0 .. k : Still(i) /\ (i # 0 => Kept(i))}
<1>1. /\ IsRuntimeOf(q, spec) /\ IsRuntime(q) /\ WellFormed(spec) /\ n \in Nat
      /\ Structured(p, spec) /\ q.nodes = p.nodes
  BY VectorFacts DEF Observing, Structured, IsRuntimeOf, WellFormed
<1>2. /\ r.raw = RefreshedRaw(q)
      /\ \A i \in 1 .. n :
           r.nodes[i] = ApplyStage(spec.nodes[i].stage, p.nodes[i].memory,
                                   NodeIds(spec, spec.nodes[i].parent),
                                   NodeShown(r, spec.nodes[i].parent), GlobalClock(q), FALSE)
  <2>1. FollowsRefresh(r, p, q, spec, FALSE)
    BY ObservedRefresh
  <2> QED
    BY <2>1 DEF FollowsRefresh
<1> HIDE DEF r
<1>3. 0 \in T
  <2>1. NodeShown(r, 0).observed = q.raw.observed
    BY <1>1, <1>2, RefreshedRawShows DEF NodeShown
  <2>2. Still(0)
    BY <2>1 DEF Quiet, NodeIds
  <2>3. \A i \in 0 .. 0 : i = 0
    OBVIOUS
  <2> HIDE DEF Still, Kept
  <2> QED
    BY <1>1, <2>2, <2>3
<1>4. ASSUME NEW k \in 1 .. n, k - 1 \in T
      PROVE  k \in T
  <2> DEFINE stage  == spec.nodes[k].stage
             parent == spec.nodes[k].parent
             ids    == NodeIds(spec, parent)
             memory == p.nodes[k].memory
             shown  == NodeShown(r, parent)
             next   == ApplyStage(stage, memory, ids, shown, GlobalClock(q), FALSE)
  <2>1. /\ parent \in 0 .. k - 1
        /\ IsStage(stage) /\ IsVector(ids) /\ ValidStage(stage, ids)
        /\ NodeIds(spec, k) = LayoutOf(stage)
    BY <1>1, NodeOfSpec
  <2>2. Quiet(shown, Len(ids)) /\ IsMemory(stage, memory)
    BY <1>1, <1>4, <2>1 DEF Structured
  <2>3. r.nodes[k] = next
    BY <1>2, Zenon
  <2>9. k # 0
    BY <1>1
  <2> HIDE DEF stage, ids, memory, shown
  <2>4. Quiet(next, Len(LayoutOf(stage))) /\ ResidueOf(stage, next.memory) = ResidueOf(stage, memory)
    BY <2>1, <2>2, QuietStage
  <2> HIDE DEF next
  <2>5. Still(k) /\ Kept(k)
    BY <2>1, <2>3, <2>4, <2>9 DEF NodeShown, stage, memory
  <2>6. \A i \in 0 .. k : i = k \/ i \in 0 .. k - 1
    BY <1>1
  <2> HIDE DEF Still, Kept
  <2> QED
    BY <1>1, <1>4, <2>5, <2>6
<1> HIDE DEF T, n, Still, Kept
<1>5. \A k \in 0 .. n : k \in T
  BY <1>1, <1>3, <1>4, UpwardInduction
<1>6. \A i \in 0 .. n : Still(i) /\ (i # 0 => Kept(i))
  <2>1. n \in T
    BY <1>1, <1>5
  <2> QED
    BY <2>1 DEF T
<1>7. \A i \in 1 .. n : i \in 0 .. n /\ i # 0
  BY <1>1
<1>8. (\A i \in 0 .. n : Still(i)) /\ \A i \in 1 .. n : Kept(i)
  BY <1>6, <1>7
<1> QED
  BY <1>8 DEF KeepsResidues, r, n, Still, Kept

-----------------------------------------------------------------------------
(* Every call.  An event observes the cells of its symbol, a context update *)
(* none, and both leave the nodes to the refresh.                          *)

EventValues(values, e) ==
  [c \in DOMAIN values |-> IF RawIds[c] = e.symbol THEN e.value ELSE values[c]]

EventMarks(observed, e) == [c \in DOMAIN observed |-> RawIds[c] = e.symbol]

LEMMA EventObserves ==
  ASSUME NEW p, IsRuntime(p), NEW e
  PROVE  LET q == Observed(p, e)
         IN  /\ q.raw.values = EventValues(p.raw.values, e)
             /\ q.raw.observed = EventMarks(p.raw.observed, e)
             /\ q.max = Max({p.max, e.at})
<1> DEFINE q      == Observed(p, e)
           values == [i \in DOMAIN p.raw.values |->
                        IF RawIds[i] = e.symbol THEN e.value ELSE p.raw.values[i]]
           first  == [p.raw EXCEPT !.values = values]
           marks  == [i \in DOMAIN first.observed |-> RawIds[i] = e.symbol]
           raw    == [first EXCEPT !.observed = marks]
<1>1. q.raw = raw
  BY DEF Observed, IsRuntime, RuntimeFields
<1>2. q.max = Max({p.max, e.at})
  BY DEF Observed, IsRuntime, RuntimeFields
<1>3. /\ first = [field \in CellFields |-> first[field]]
      /\ first.observed = p.raw.observed /\ first.values = values
  BY DEF IsRuntime, CellFields
<1>4. marks = [i \in DOMAIN p.raw.observed |-> RawIds[i] = e.symbol]
  BY <1>3
<1> HIDE DEF q, first, marks, values
<1>5. raw.values = values /\ raw.observed = marks
  BY <1>3 DEF CellFields
<1> QED
  BY <1>1, <1>2, <1>4, <1>5 DEF q, values, EventValues, EventMarks

ContextValues(values, updates) ==
  [c \in DOMAIN values |->
     IF RawIds[c] \in DOMAIN updates THEN updates[RawIds[c]] ELSE values[c]]

LEMMA SupplyObserves ==
  ASSUME NEW p, IsRuntime(p), NEW updates
  PROVE  LET q == Supplied(p, updates)
         IN  /\ q.raw.values = ContextValues(p.raw.values, updates)
             /\ q.raw.observed = [i \in DOMAIN p.raw.observed |-> FALSE]
<1> DEFINE q      == Supplied(p, updates)
           values == [i \in DOMAIN p.raw.values |->
                        IF RawIds[i] \in DOMAIN updates THEN updates[RawIds[i]]
                        ELSE p.raw.values[i]]
           first  == [p.raw EXCEPT !.values = values]
           marks  == [i \in DOMAIN first.observed |-> FALSE]
           raw    == [first EXCEPT !.observed = marks]
<1>1. q.raw = raw
  BY DEF Supplied, IsRuntime, RuntimeFields
<1>2. /\ first = [field \in CellFields |-> first[field]]
      /\ first.observed = p.raw.observed /\ first.values = values
  BY DEF IsRuntime, CellFields
<1>3. marks = [i \in DOMAIN p.raw.observed |-> FALSE]
  BY <1>2
<1> HIDE DEF q, first, marks, values
<1>4. raw.values = values /\ raw.observed = marks
  BY <1>2 DEF CellFields
<1> QED
  BY <1>1, <1>3, <1>4 DEF q, values, ContextValues

(* New raw cells make a structured runtime of a structured one. *)
LEMMA NewCellsAreObserving ==
  ASSUME NEW p, NEW spec, Structured(p, spec), NEW q, IsRuntime(q), q.spec = p.spec,
         q.nodes = p.nodes, q.raw.clocks = p.raw.clocks, IsShown(q.raw, Len(RawIds))
  PROVE  Observing(p, q, spec)
<1>1. IsRuntimeOf(q, spec)
  BY DEF Structured, IsRuntimeOf
<1>2. ASSUME NEW i \in 0 .. Len(spec.nodes)
      PROVE  IsShown(NodeShown(q, i), Len(NodeIds(spec, i)))
  <2>1. IsShown(NodeShown(p, i), Len(NodeIds(spec, i)))
    BY DEF Structured
  <2> QED
    BY <2>1 DEF NodeShown, NodeIds
<1>3. \A i \in 1 .. Len(spec.nodes) : IsMemory(spec.nodes[i].stage, q.nodes[i].memory)
  BY DEF Structured
<1> QED
  BY <1>1, <1>2, <1>3 DEF Structured, Observing

LEMMA RawIsShown ==
  ASSUME NEW p, NEW spec, Structured(p, spec)
  PROVE  /\ IsRuntime(p) /\ p.spec = spec /\ WellFormed(spec)
         /\ IsShown(p.raw, Len(RawIds))
         /\ DOMAIN p.raw.values = 1 .. Len(RawIds)
         /\ DOMAIN p.raw.observed = 1 .. Len(RawIds)
<1>1. IsRuntime(p) /\ p.spec = spec /\ WellFormed(spec) /\ Len(spec.nodes) \in Nat
  BY VectorFacts DEF Structured, IsRuntimeOf, WellFormed
<1>2. 0 \in 0 .. Len(spec.nodes)
  BY <1>1
<1>3. IsShown(p.raw, Len(RawIds))
  BY <1>2 DEF Structured, NodeShown, NodeIds
<1> QED
  BY <1>1, <1>3 DEF IsShown, IsColumn

LEMMA ObservedIsObserving ==
  ASSUME NEW p, NEW spec, Structured(p, spec), NEW e \in Events
  PROVE  LET q == Observed(p, e)
         IN  /\ Observing(p, q, spec)
             /\ MarksChanges(p.raw, q.raw, Len(RawIds))
<1> DEFINE q == Observed(p, e)
<1>1. /\ IsRuntime(p) /\ DOMAIN p.raw.values = 1 .. Len(RawIds)
      /\ DOMAIN p.raw.observed = 1 .. Len(RawIds)
  BY RawIsShown
<1>2. /\ IsRuntime(q) /\ q.spec = p.spec
      /\ q.nodes = p.nodes /\ q.raw.clocks = p.raw.clocks
  BY <1>1, EventWrites
<1>3. /\ q.raw.values = [c \in 1 .. Len(RawIds) |->
                           IF RawIds[c] = e.symbol THEN e.value ELSE p.raw.values[c]]
      /\ q.raw.observed = [c \in 1 .. Len(RawIds) |-> RawIds[c] = e.symbol]
  <2>1. /\ q.raw.values = EventValues(p.raw.values, e)
        /\ q.raw.observed = EventMarks(p.raw.observed, e)
    BY <1>1, EventObserves
  <2> HIDE DEF q
  <2> QED
    BY <1>1, <2>1 DEF EventValues, EventMarks
<1> HIDE DEF q
<1>4. IsShown(q.raw, Len(RawIds))
  BY <1>3 DEF IsShown, IsColumn
<1>5. Observing(p, q, spec)
  BY <1>2, <1>4, NewCellsAreObserving
<1>6. MarksChanges(p.raw, q.raw, Len(RawIds))
  BY <1>3 DEF MarksChanges
<1> QED
  BY <1>5, <1>6 DEF q

LEMMA SuppliedIsObserving ==
  ASSUME NEW p, NEW spec, Structured(p, spec), NEW updates
  PROVE  LET q == Supplied(p, updates)
         IN  Observing(p, q, spec) /\ Quiet(q.raw, Len(RawIds))
<1> DEFINE q == Supplied(p, updates)
<1>1. /\ IsRuntime(p) /\ DOMAIN p.raw.values = 1 .. Len(RawIds)
      /\ DOMAIN p.raw.observed = 1 .. Len(RawIds)
  BY RawIsShown
<1>2. /\ IsRuntime(q) /\ q.spec = p.spec
      /\ q.nodes = p.nodes /\ q.raw.clocks = p.raw.clocks
  BY <1>1, SupplyWrites DEF SameMarketTime
<1>3. /\ q.raw.values = ContextValues(p.raw.values, updates)
      /\ q.raw.observed = [c \in 1 .. Len(RawIds) |-> FALSE]
  BY <1>1, SupplyObserves
<1> HIDE DEF q
<1>4. IsShown(q.raw, Len(RawIds))
  BY <1>1, <1>3 DEF ContextValues, IsShown, IsColumn
<1>5. Observing(p, q, spec)
  BY <1>2, <1>4, NewCellsAreObserving
<1>6. Quiet(q.raw, Len(RawIds))
  BY <1>3 DEF Quiet
<1> QED
  BY <1>5, <1>6 DEF q

(* What a step of a replay does to the runtime and the accepted events. *)
LEMMA CallCases ==
  ReplayInv /\ [ReplayNext]_replayVars
    => \/ UNCHANGED pipelineVars
       \/ \E e \in Events : Handle(e)
       \/ \E updates : DOMAIN updates \subseteq Context /\ Update(updates)
       \/ Reset
<1> DEFINE Sound == \/ UNCHANGED pipelineVars
                    \/ \E e \in Events : Handle(e)
                    \/ \E updates : DOMAIN updates \subseteq Context /\ Update(updates)
                    \/ Reset
<1> SUFFICES ASSUME ReplayInv, [ReplayNext]_replayVars
             PROVE  Sound
  OBVIOUS
<1>1. CASE Call
  <2>1. CASE \E symbol \in Symbols, value \in Values, at \in Times :
               Handle([symbol |-> symbol, value |-> value, at |-> at, fails |-> FALSE])
    <3>1. PICK symbol \in Symbols, value \in Values, at \in Times :
                 Handle([symbol |-> symbol, value |-> value, at |-> at, fails |-> FALSE])
      BY <2>1
    <3>2. [symbol |-> symbol, value |-> value, at |-> at, fails |-> FALSE] \in Events
      BY DEF Events
    <3> QED
      BY <3>1, <3>2
  <2>2. CASE \E id \in Context, value \in Values : Update([supplied \in {id} |-> value])
    <3>1. PICK id \in Context, value \in Values : Update([supplied \in {id} |-> value])
      BY <2>2
    <3>2. DOMAIN [supplied \in {id} |-> value] \subseteq Context
      OBVIOUS
    <3> QED
      BY <3>1, <3>2
  <2>3. CASE Reset
    BY <2>3
  <2> QED
    BY <1>1, <2>1, <2>2, <2>3 DEF Call, PipelineNext
<1>2. ASSUME batch # <<>>
      PROVE  IsRow(Head(batch))
  <2>1. IsVector(batch)
    BY DEF ReplayInv
  <2>2. Head(batch) = batch[1] /\ 1 \in 1 .. Len(batch)
    BY <1>2, <2>1, TailIsVector, VectorFacts DEF IsVector
  <2> QED
    BY <2>2 DEF ReplayInv
<1>3. CASE \E rows \in Batches : Replay(rows)
  BY <1>3 DEF Replay
<1>4. CASE SupplyRow
  BY <1>2, <1>4 DEF SupplyRow, IsRow
<1>5. CASE HandleRow
  BY <1>2, <1>5 DEF HandleRow, IsRow
<1>6. CASE UNCHANGED replayVars
  BY <1>6 DEF replayVars, pipelineVars
<1> QED
  BY <1>1, <1>3, <1>4, <1>5, <1>6 DEF ReplayNext

(* Once an event was accepted, nodes show what their stages make of what    *)
(* their parents show.                                                     *)
Settled(p, events) ==
  Structured(p, p.spec) /\ (events # <<>> => Current(p, p.spec))

GraphInv == Settled(pipeline, accepted)

LEMMA EventSettles ==
  ASSUME NEW p, Structured(p, p.spec), NEW e \in Events, Accepts(p, e)
  PROVE  LET r == HandleEvent(p, e)
         IN  r.spec = p.spec /\ Structured(r, r.spec) /\ Current(r, r.spec)
<1> DEFINE q == Observed(p, e)
           r == HandleEvent(p, e)
<1>1. Structured(q, p.spec)
  BY ObservedIsObserving DEF Observing
<1>2. r = Refresh(q, TRUE)
  BY DEF HandleEvent
<1> HIDE DEF q, r
<1>3. Structured(r, p.spec) /\ Current(r, p.spec)
  BY <1>1, <1>2, RefreshIsStructured
<1>4. r.spec = p.spec
  BY <1>3, RawIsShown
<1> QED
  BY <1>3, <1>4 DEF r

LEMMA ContextSettles ==
  ASSUME NEW p, Structured(p, p.spec), NEW updates, updates # <<>>
  PROVE  LET r == UpdateContext(p, updates)
         IN  r.spec = p.spec /\ Structured(r, r.spec) /\ Current(r, r.spec)
<1> DEFINE q == Supplied(p, updates)
           r == UpdateContext(p, updates)
<1>1. Structured(q, p.spec)
  BY SuppliedIsObserving DEF Observing
<1>2. r = Refresh(q, FALSE)
  BY DEF UpdateContext
<1> HIDE DEF q, r
<1>3. Structured(r, p.spec) /\ Current(r, p.spec)
  BY <1>1, <1>2, RefreshIsStructured
<1>4. r.spec = p.spec
  BY <1>3, RawIsShown
<1> QED
  BY <1>3, <1>4 DEF r

THEOREM GraphInvariance == ReplaySpec => []GraphInv
<1>1. ReplayInit => GraphInv
  <2> SUFFICES ASSUME ReplayInit
               PROVE  GraphInv
    OBVIOUS
  <2>1. PICK graph \in Graphs : pipeline = Build(SpecOf(graph))
    BY DEF ReplayInit, PipelineInit
  <2>2. SpecOf(graph) # InvalidPipeline /\ pipeline = NewPipeline(SpecOf(graph))
    BY <2>1 DEF ReplayInit, PipelineInit, Build
  <2>3. pipeline.spec = SpecOf(graph) /\ accepted = <<>>
    BY <2>2, NewRuntime DEF ReplayInit, PipelineInit
  <2> QED
    BY <2>2, <2>3, SpecsAreWellFormed, NewIsStructured DEF GraphInv, Settled
<1>2. ReplayInv /\ GraphInv /\ [ReplayNext]_replayVars => GraphInv'
  <2> SUFFICES ASSUME ReplayInv, GraphInv, [ReplayNext]_replayVars
               PROVE  GraphInv'
    OBVIOUS
  <2>1. Structured(pipeline, pipeline.spec)
    BY DEF GraphInv, Settled
  <2>2. CASE UNCHANGED pipelineVars
    BY <2>2 DEF pipelineVars, GraphInv, Settled
  <2>3. ASSUME NEW e \in Events, Handle(e)
        PROVE  GraphInv'
    <3>1. CASE Accepts(pipeline, e)
      <4>1. pipeline' = HandleEvent(pipeline, e)
        BY <2>3 DEF Handle
      <4> QED
        BY <2>1, <3>1, <4>1, EventSettles DEF GraphInv, Settled
    <3>2. CASE ~ Accepts(pipeline, e)
      BY <2>3, <3>2 DEF Handle, HandleEvent, GraphInv, Settled
    <3> QED
      BY <3>1, <3>2
  <2>4. ASSUME NEW updates, Update(updates)
        PROVE  GraphInv'
    <3>1. CASE updates # <<>>
      BY <2>1, <2>4, <3>1, ContextSettles DEF Update, GraphInv, Settled
    <3>2. CASE updates = <<>>
      BY <2>4, <3>2 DEF Update, UpdateContext, GraphInv, Settled
    <3> QED
      BY <3>1, <3>2
  <2>5. CASE Reset
    <3>1. WellFormed(pipeline.spec)
      BY <2>1, RawIsShown
    <3>2. /\ pipeline' = NewPipeline(pipeline.spec) /\ accepted' = <<>>
          /\ pipeline'.spec = pipeline.spec
      BY <2>5, NewRuntime DEF Reset
    <3> QED
      BY <3>1, <3>2, NewIsStructured DEF GraphInv, Settled
  <2> QED
    BY <2>2, <2>3, <2>4, <2>5, CallCases
<1> QED
  BY <1>1, <1>2, ReplayInvariance, PTL DEF ReplaySpec

(* A value that an event changes is marked as observed at every node, so    *)
(* that stages downstream, which update on marks, miss none (refresh of     *)
(* pipeline.rs and apply of stages.rs): what a stage shows is a function of *)
(* what its parent shows, as soon as one event was accepted.               *)
THEOREM MarksFollowChanges == ReplaySpec => ChangesAreMarked
<1> DEFINE Marked == accepted' # accepted /\ accepted # <<>> /\ ~ WasReset =>
                       \A i \in NodesOf(pipeline) :
                         \A o \in DOMAIN pipeline.nodes[i].values :
                           pipeline.nodes[i].values[o] # pipeline'.nodes[i].values[o]
                             => pipeline'.nodes[i].observed[o]
<1>1. ReplayInv /\ GraphInv /\ [ReplayNext]_replayVars => [Marked]_pipelineVars
  <2> SUFFICES ASSUME ReplayInv, GraphInv, [ReplayNext]_replayVars,
                      accepted' # accepted, accepted # <<>>, ~ WasReset,
                      NEW i \in NodesOf(pipeline),
                      NEW o \in DOMAIN pipeline.nodes[i].values,
                      pipeline.nodes[i].values[o] # pipeline'.nodes[i].values[o]
               PROVE  pipeline'.nodes[i].observed[o]
    BY Zenon
  <2>1. Structured(pipeline, pipeline.spec) /\ Current(pipeline, pipeline.spec)
    BY DEF GraphInv, Settled
  <2>2. PICK e \in Events : Handle(e)
    BY CallCases DEF pipelineVars, Update, Reset, WasReset
  <2>3. Accepts(pipeline, e) /\ pipeline' = Refresh(Observed(pipeline, e), TRUE)
    BY <2>2 DEF Handle, HandleEvent
  <2> DEFINE n == Len(pipeline.spec.nodes)
  <2>4. n \in Nat /\ i \in 1 .. n
    BY <2>1, VectorFacts DEF Structured, IsRuntimeOf, NodesOf
  <2>5. i \in 0 .. n /\ i # 0
    BY <2>4
  <2>6. NodeShown(pipeline, i) = pipeline.nodes[i] /\ NodeShown(pipeline', i) = pipeline'.nodes[i]
    BY <2>5 DEF NodeShown
  <2>7. o \in 1 .. Len(NodeIds(pipeline.spec, i))
    <3>1. IsShown(NodeShown(pipeline, i), Len(NodeIds(pipeline.spec, i)))
      BY <2>1, <2>5 DEF Structured
    <3> QED
      BY <2>6, <3>1 DEF IsShown, IsColumn
  <2> DEFINE q == Observed(pipeline, e)
  <2>8. /\ Observing(pipeline, q, pipeline.spec)
        /\ MarksChanges(pipeline.raw, q.raw, Len(RawIds))
    BY <2>1, ObservedIsObserving
  <2> HIDE DEF q
  <2>9. \A k \in 0 .. Len(pipeline.spec.nodes) :
          MarksChanges(NodeShown(pipeline, k), NodeShown(Refresh(q, TRUE), k),
                       Len(NodeIds(pipeline.spec, k)))
    BY <2>1, <2>8, RefreshMarksChanges
  <2>10. pipeline' = Refresh(q, TRUE)
    BY <2>3 DEF q
  <2> QED
    BY <2>5, <2>6, <2>7, <2>9, <2>10, Zenon DEF MarksChanges
<1>2. ChangesAreMarked <=> [][Marked]_pipelineVars
  BY DEF ChangesAreMarked
<1> QED
  BY <1>1, <1>2, ReplayInvariance, GraphInvariance, PTL DEF ReplaySpec

-----------------------------------------------------------------------------
(* The market's nodes.  A node reads the context if its stage reads a cell  *)
(* of the context, or its parent reads the context.                        *)

ReadsFromParent(spec, reads, i) ==
  IF spec.nodes[i].parent = 0
    THEN InputsOf(spec.nodes[i].stage, RawIds) \cap Context # {}
    ELSE reads[spec.nodes[i].parent]

Reads(spec, reads) == reads = [i \in 1 .. Len(spec.nodes) |-> ReadsFromParent(spec, reads, i)]

(* There is such a function, as no node is its own ancestor. *)
LEMMA ReadsExists ==
  ASSUME NEW spec, WellFormed(spec)
  PROVE  \E reads : Reads(spec, reads)
<1> DEFINE n == Len(spec.nodes)
           Upto(k, reads) == /\ reads = [i \in 1 .. n |-> reads[i]]
                             /\ \A i \in 1 .. k : reads[i] = ReadsFromParent(spec, reads, i)
           T == {k \in 0 .. n : \E reads : Upto(k, reads)}
<1>1. n \in Nat /\ \A i \in 1 .. n : spec.nodes[i].parent \in 0 .. i - 1
  BY VectorFacts DEF WellFormed
<1>2. 0 \in T
  <2> DEFINE reads == [i \in 1 .. n |-> 0]
  <2>1. reads = [i \in 1 .. n |-> reads[i]] /\ \A i \in 1 .. 0 : FALSE
    BY <1>1
  <2> HIDE DEF reads
  <2>2. Upto(0, reads)
    BY <2>1
  <2> QED
    BY <1>1, <2>2
<1>3. ASSUME NEW k \in 1 .. n, k - 1 \in T
      PROVE  k \in T
  <2>1. PICK reads : Upto(k - 1, reads)
    BY <1>3
  <2> DEFINE read == ReadsFromParent(spec, reads, k)
             next == [reads EXCEPT ![k] = read]
  <2>2. /\ next = [i \in 1 .. n |-> next[i]]
        /\ next[k] = read
        /\ \A i \in 1 .. n : i # k => next[i] = reads[i]
    <3>1. DOMAIN reads = 1 .. n
      BY <2>1
    <3> HIDE DEF read, n
    <3> QED
      BY <3>1
  <2> HIDE DEF next
  <2>3. ASSUME NEW i \in 1 .. k
        PROVE  ReadsFromParent(spec, next, i) = ReadsFromParent(spec, reads, i)
    <3>1. CASE spec.nodes[i].parent = 0
      BY <3>1 DEF ReadsFromParent
    <3>2. CASE spec.nodes[i].parent # 0
      <4>1. i \in 1 .. n /\ spec.nodes[i].parent \in 0 .. i - 1
        BY <1>1
      <4>2. spec.nodes[i].parent \in 1 .. n /\ spec.nodes[i].parent # k
        BY <1>1, <3>2, <4>1
      <4>3. next[spec.nodes[i].parent] = reads[spec.nodes[i].parent]
        BY <2>2, <4>2
      <4> QED
        BY <4>3 DEF ReadsFromParent
    <3> QED
      BY <3>1, <3>2
  <2>4. ASSUME NEW i \in 1 .. k
        PROVE  next[i] = ReadsFromParent(spec, next, i)
    <3>1. CASE i = k
      BY <2>2, <2>3, <3>1
    <3>2. CASE i # k
      <4>1. i \in 1 .. k - 1 /\ i \in 1 .. n
        BY <1>1, <3>2
      <4> QED
        BY <2>1, <2>2, <2>3, <3>2, <4>1
    <3> QED
      BY <3>1, <3>2
  <2>5. Upto(k, next)
    BY <2>2, <2>4
  <2> HIDE DEF Upto
  <2> QED
    BY <1>1, <2>5
<1> HIDE DEF T, n
<1>4. \A k \in 0 .. n : k \in T
  BY <1>1, <1>2, <1>3, UpwardInduction
<1>5. n \in T
  BY <1>1, <1>4
<1>6. PICK reads : Upto(n, reads)
  BY <1>5 DEF T
<1>7. reads = [i \in 1 .. n |-> ReadsFromParent(spec, reads, i)]
  BY <1>6
<1> QED
  BY <1>7 DEF Reads, n

(* The columns of its parent that a node uses. *)
ColumnsOfNode(spec, i) ==
  UsedColumns(spec.nodes[i].stage, NodeIds(spec, spec.nodes[i].parent))

OfMarket(c) == RawIds[c] \notin Context

LEMMA InputsAreUsed ==
  ASSUME NEW stage, IsStage(stage), ValidStage(stage, RawIds), NEW c \in UsedColumns(stage, RawIds)
  PROVE  RawIds[c] \in InputsOf(stage, RawIds)
<1>1. IsVector(RawIds)
  BY PipelineParameters
<1>2. DOMAIN RawIds = 1 .. Len(RawIds)
  BY <1>1, VectorFacts
<1>3. ASSUME NEW id \in ToSet(RawIds)
      PROVE  RawIds[Position(RawIds, id)] = id
  <2>1. \E i \in DOMAIN RawIds : RawIds[i] = id
    BY DEF ToSet
  <2> QED
    BY <2>1 DEF Position
<1>4. CASE stage.kind = "Scalar"
  <2>1. ValidDefinitions(stage.definitions, ToSet(RawIds))
    BY <1>4 DEF ValidStage
  <2>2. PICK slot \in DOMAIN stage.definitions : c = Position(RawIds, stage.definitions[slot].input)
    BY <1>4 DEF UsedColumns, InputsOfDefinitions
  <2>3. stage.definitions[slot].input \in ToSet(RawIds)
    BY <2>1 DEF ValidDefinitions
  <2> QED
    BY <1>3, <1>4, <2>2, <2>3 DEF InputsOf
<1>5. CASE stage.kind = "RollingPathSignature"
  <2>1. stage.input \in ToSet(RawIds) /\ c = Position(RawIds, stage.input)
    BY <1>5 DEF ValidStage, UsedColumns
  <2> QED
    BY <1>3, <1>5, <2>1 DEF InputsOf
<1>6. CASE stage.kind = "Select"
  <2>1. stage.outputs = [i \in DOMAIN stage.indices |-> RawIds[stage.indices[i]]]
    BY <1>6 DEF ValidStage, LayoutOf
  <2>2. PICK o \in DOMAIN stage.indices : c = stage.indices[o]
    BY <1>6 DEF UsedColumns
  <2>3. o \in DOMAIN stage.outputs /\ stage.outputs[o] = RawIds[c]
    BY <2>1, <2>2
  <2> QED
    BY <1>6, <2>3 DEF InputsOf, ToSet
<1>7. CASE stage.kind \notin {"Scalar", "RollingPathSignature", "Select"}
  <2>1. c \in DOMAIN RawIds
    BY <1>2, <1>7 DEF UsedColumns
  <2> QED
    BY <1>7, <2>1 DEF InputsOf, ToSet
<1> QED
  BY <1>4, <1>5, <1>6, <1>7

LEMMA MarketNodes ==
  ASSUME NEW spec, WellFormed(spec), NEW i \in 1 .. Len(spec.nodes), i \notin ReadsContext(spec)
  PROVE  /\ spec.nodes[i].parent = 0 => \A c \in ColumnsOfNode(spec, i) : OfMarket(c)
         /\ spec.nodes[i].parent # 0 => spec.nodes[i].parent \notin ReadsContext(spec)
<1> DEFINE reads  == CHOOSE reads : Reads(spec, reads)
           parent == spec.nodes[i].parent
           stage  == spec.nodes[i].stage
<1>1. DOMAIN spec.nodes = 1 .. Len(spec.nodes)
  BY VectorFacts DEF WellFormed
<1>2. Reads(spec, reads)
  BY ReadsExists
<1>3. ReadsContext(spec) = {k \in DOMAIN spec.nodes : reads[k]}
  BY DEF ReadsContext, Reads, ReadsFromParent
<1> HIDE DEF reads
<1>4. ~ reads[i] /\ reads[i] = ReadsFromParent(spec, reads, i)
  BY <1>1, <1>2, <1>3 DEF Reads
<1>5. CASE parent = 0
  <2>1. InputsOf(stage, RawIds) \cap Context = {}
    BY <1>4, <1>5 DEF ReadsFromParent
  <2>2. /\ IsStage(stage) /\ ValidStage(stage, RawIds)
        /\ ColumnsOfNode(spec, i) = UsedColumns(stage, RawIds)
    BY <1>5, NodeOfSpec DEF NodeIds, ColumnsOfNode
  <2> HIDE DEF stage
  <2>3. \A c \in UsedColumns(stage, RawIds) : RawIds[c] \in InputsOf(stage, RawIds)
    BY <2>2, InputsAreUsed
  <2> QED
    BY <1>5, <2>1, <2>2, <2>3 DEF OfMarket
<1>6. CASE parent # 0
  <2>1. ~ reads[parent]
    BY <1>4, <1>6 DEF ReadsFromParent
  <2> QED
    BY <1>3, <1>6, <2>1
<1> QED
  BY <1>5, <1>6

(* The columns that a node of the market reads of another, or of the       *)
(* extractor.                                                              *)
Steady(spec, i) ==
  IF i = 0 THEN {c \in 1 .. Len(RawIds) : OfMarket(c)} ELSE 1 .. Len(NodeIds(spec, i))

Market(spec) == (1 .. Len(spec.nodes)) \ ReadsContext(spec)

LEMMA UsedAreSteady ==
  ASSUME NEW spec, WellFormed(spec), NEW i \in Market(spec)
  PROVE  /\ spec.nodes[i].parent = 0 \/ spec.nodes[i].parent \in Market(spec)
         /\ ColumnsOfNode(spec, i) \subseteq Steady(spec, spec.nodes[i].parent)
<1> DEFINE parent == spec.nodes[i].parent
           n      == Len(spec.nodes)
<1>1. i \in 1 .. n /\ i \notin ReadsContext(spec) /\ n \in Nat
  BY VectorFacts DEF Market, WellFormed
<1>2. /\ parent \in 0 .. n /\ IsStage(spec.nodes[i].stage) /\ IsVector(NodeIds(spec, parent))
      /\ ValidStage(spec.nodes[i].stage, NodeIds(spec, parent))
  BY <1>1, NodeOfSpec
<1>3. ColumnsOfNode(spec, i) \subseteq 1 .. Len(NodeIds(spec, parent))
  BY <1>2, UsedColumnsExist DEF ColumnsOfNode
<1>4. /\ parent = 0 => \A c \in ColumnsOfNode(spec, i) : OfMarket(c)
      /\ parent # 0 => parent \notin ReadsContext(spec)
  BY <1>1, MarketNodes
<1> HIDE DEF parent, n
<1>5. CASE parent = 0
  <2>1. ColumnsOfNode(spec, i) \subseteq 1 .. Len(RawIds)
    BY <1>3, <1>5 DEF NodeIds
  <2> QED
    BY <1>4, <1>5, <2>1 DEF Steady, parent
<1>6. CASE parent # 0
  <2>1. parent \in 1 .. n
    BY <1>1, <1>2, <1>6
  <2> QED
    BY <1>3, <1>4, <1>6, <2>1 DEF Steady, Market, parent, n
<1> QED
  BY <1>5, <1>6

(* The same nodes of the market, apart from marks. *)
Agree(p, q, spec) ==
  \A i \in Market(spec) :
    /\ p.nodes[i].values = q.nodes[i].values
    /\ Remembered(spec.nodes[i].stage, p.nodes[i].memory)
         = Remembered(spec.nodes[i].stage, q.nodes[i].memory)

(* A refresh without an event changes no node of the market, if the cells   *)
(* of the market are the same.                                             *)
LEMMA RefreshStays ==
  ASSUME NEW p, NEW q, NEW spec, Observing(p, q, spec), Current(p, spec),
         Quiet(q.raw, Len(RawIds)), SameColumn(p.raw.values, q.raw.values, Steady(spec, 0))
  PROVE  Agree(Refresh(q, FALSE), p, spec)
<1> DEFINE r == Refresh(q, FALSE)
           n == Len(spec.nodes)
           Same(i) == SameColumn(NodeShown(p, i).values, NodeShown(r, i).values, Steady(spec, i))
           Kept(i) ==
             /\ r.nodes[i].values = p.nodes[i].values
             /\ Remembered(spec.nodes[i].stage, r.nodes[i].memory)
                  = Remembered(spec.nodes[i].stage, p.nodes[i].memory)
           Sound(i) == /\ i = 0 \/ i \in Market(spec) => Same(i)
                       /\ i \in Market(spec) => Kept(i)
           T == {k \in 0 .. n : \A i \in 0 .. k : Sound(i)}
<1>1. /\ IsRuntimeOf(q, spec) /\ IsRuntime(q) /\ WellFormed(spec) /\ n \in Nat
      /\ Structured(p, spec) /\ q.nodes = p.nodes
  BY VectorFacts DEF Observing, Structured, IsRuntimeOf, WellFormed
<1>2. /\ r.raw = RefreshedRaw(q) /\ Structured(r, spec)
      /\ \A i \in 1 .. n :
           r.nodes[i] = ApplyStage(spec.nodes[i].stage, p.nodes[i].memory,
                                   NodeIds(spec, spec.nodes[i].parent),
                                   NodeShown(r, spec.nodes[i].parent), GlobalClock(q), FALSE)
  <2>1. FollowsRefresh(r, p, q, spec, FALSE)
    BY ObservedRefresh
  <2> QED
    BY <2>1 DEF FollowsRefresh
<1>3. \A i \in 0 .. n : Quiet(NodeShown(r, i), Len(NodeIds(spec, i)))
  BY RefreshIsQuiet
<1> HIDE DEF r
<1>4. 0 \notin Market(spec) /\ Market(spec) \subseteq 1 .. n
  BY <1>1 DEF Market
<1>5. 0 \in T
  <2>1. NodeShown(r, 0).values = q.raw.values /\ NodeShown(p, 0) = p.raw
    BY <1>1, <1>2, RefreshedRawShows DEF NodeShown
  <2>2. Sound(0)
    BY <1>4, <2>1
  <2>3. \A i \in 0 .. 0 : i = 0
    OBVIOUS
  <2> HIDE DEF Sound
  <2> QED
    BY <1>1, <2>2, <2>3
<1>6. ASSUME NEW k \in 1 .. n, k - 1 \in T
      PROVE  k \in T
  <2>1. ASSUME k \in Market(spec)
        PROVE  Sound(k)
    <3> DEFINE stage  == spec.nodes[k].stage
               parent == spec.nodes[k].parent
               ids    == NodeIds(spec, parent)
               memory == p.nodes[k].memory
               shown  == NodeShown(r, parent)
               values == NodeShown(p, parent).values
               next   == ApplyStage(stage, memory, ids, shown, GlobalClock(q), FALSE)
    <3>1. /\ parent \in 0 .. k - 1 /\ parent \in 0 .. n
          /\ IsStage(stage) /\ IsVector(ids) /\ ValidStage(stage, ids)
          /\ NodeIds(spec, k) = LayoutOf(stage)
      BY <1>1, NodeOfSpec
    <3>2. /\ parent = 0 \/ parent \in Market(spec)
          /\ UsedColumns(stage, ids) \subseteq Steady(spec, parent)
      BY <1>1, <2>1, UsedAreSteady DEF ColumnsOfNode
    <3>3. /\ IsShown(shown, Len(ids)) /\ IsColumn(values, Len(ids)) /\ IsMemory(stage, memory)
          /\ Quiet(shown, Len(ids))
      BY <1>1, <1>2, <1>3, <3>1 DEF Structured, IsShown
    <3>4. SameColumn(values, shown.values, UsedColumns(stage, ids))
      <4>1. Same(parent)
        BY <1>6, <3>1, <3>2
      <4> QED
        BY <3>2, <4>1 DEF SameColumn
    <3>5. /\ p.nodes[k].values = ValuesOf(stage, memory, values)
          /\ IsCurrent(stage, ids, memory, values)
      BY DEF Current
    <3>6. r.nodes[k] = next
      BY <1>2, Zenon
    <3>7. k # 0
      BY <1>1
    <3> HIDE DEF stage, ids, memory, shown, values
    <3>8. ShowsStill(stage, memory, values, next)
      BY <3>1, <3>3, <3>4, <3>5, QuietStageStays
    <3> HIDE DEF next
    <3>9. Kept(k)
      BY <3>5, <3>6, <3>8 DEF ShowsStill, stage, memory
    <3>10. NodeShown(p, k).values = NodeShown(r, k).values
      BY <3>7, <3>9 DEF NodeShown
    <3>11. Same(k)
      BY <3>10 DEF SameColumn
    <3> HIDE DEF Same, Kept
    <3> QED
      BY <2>1, <3>7, <3>9, <3>11
  <2>2. Sound(k)
    <3>1. k # 0
      BY <1>1
    <3>2. CASE k \notin Market(spec)
      BY <3>1, <3>2
    <3>3. CASE k \in Market(spec)
      BY <2>1, <3>3
    <3> QED
      BY <3>2, <3>3
  <2>3. \A i \in 0 .. k : i = k \/ i \in 0 .. k - 1
    BY <1>1
  <2> HIDE DEF Sound
  <2> QED
    BY <1>1, <1>6, <2>2, <2>3
<1> HIDE DEF T, n
<1>7. \A k \in 0 .. n : k \in T
  BY <1>1, <1>5, <1>6, UpwardInduction
<1>8. \A i \in 0 .. n : Sound(i)
  <2>1. n \in T
    BY <1>1, <1>7
  <2> QED
    BY <2>1 DEF T
<1>9. \A i \in Market(spec) : i \in 0 .. n
  BY <1>1, <1>4
<1>10. \A i \in Market(spec) : Kept(i)
  BY <1>8, <1>9
<1> QED
  BY <1>10 DEF Agree, r

(* What a refresh makes of the nodes of the market: those of two runtimes   *)
(* that saw the same market become the same.                               *)
SameTime(p, q) == p.timed = q.timed /\ p.max = q.max /\ p.watermarks = q.watermarks

SameResidues(p, q, spec) ==
  \A i \in Market(spec) : ResidueOf(spec.nodes[i].stage, p.nodes[i].memory)
                            = ResidueOf(spec.nodes[i].stage, q.nodes[i].memory)

SameMarketNodes(p, q, spec) == \A i \in Market(spec) : p.nodes[i] = q.nodes[i]

LEMMA RefreshSame ==
  ASSUME NEW p, NEW q, NEW spec, Structured(p, spec), Structured(q, spec), SameTime(p, q),
         SameColumn(p.raw.values, q.raw.values, Steady(spec, 0)),
         SameColumn(p.raw.observed, q.raw.observed, Steady(spec, 0)),
         SameResidues(p, q, spec), NEW advance
  PROVE  SameMarketNodes(Refresh(p, advance), Refresh(q, advance), spec)
<1> DEFINE r == Refresh(p, advance)
           s == Refresh(q, advance)
           n == Len(spec.nodes)
           global == GlobalClock(p)
           Same(i) == SameShown(NodeShown(r, i), NodeShown(s, i), Steady(spec, i))
           Sound(i) == /\ i = 0 \/ i \in Market(spec) => Same(i)
                       /\ i \in Market(spec) => r.nodes[i] = s.nodes[i]
           T == {k \in 0 .. n : \A i \in 0 .. k : Sound(i)}
<1>1. /\ IsRuntimeOf(p, spec) /\ IsRuntime(p) /\ IsRuntimeOf(q, spec) /\ IsRuntime(q)
      /\ WellFormed(spec) /\ n \in Nat
  BY VectorFacts DEF Structured, IsRuntimeOf, WellFormed
<1>2. RawClocks(p) = RawClocks(q) /\ GlobalClock(q) = global
  <2>1. DOMAIN p.raw.clocks = 1 .. Len(RawIds) /\ DOMAIN q.raw.clocks = 1 .. Len(RawIds)
    BY <1>1, VectorFacts DEF IsRuntimeOf
  <2>2. \A id : EvaluationTimestamp(p, id) = EvaluationTimestamp(q, id)
    BY DEF EvaluationTimestamp, SameTime
  <2> QED
    BY <2>1, <2>2 DEF RawClocks, GlobalClock, SameTime
<1>3. /\ r.raw = RefreshedRaw(p) /\ Structured(r, spec)
      /\ \A i \in 1 .. n :
           r.nodes[i] = ApplyStage(spec.nodes[i].stage, p.nodes[i].memory,
                                   NodeIds(spec, spec.nodes[i].parent),
                                   NodeShown(r, spec.nodes[i].parent), global, advance)
  BY <1>1, RefreshNodes, RefreshIsStructured
<1>4. /\ s.raw = RefreshedRaw(q) /\ Structured(s, spec)
      /\ \A i \in 1 .. n :
           s.nodes[i] = ApplyStage(spec.nodes[i].stage, q.nodes[i].memory,
                                   NodeIds(spec, spec.nodes[i].parent),
                                   NodeShown(s, spec.nodes[i].parent), GlobalClock(q), advance)
  BY <1>1, RefreshNodes, RefreshIsStructured
<1> HIDE DEF r, s, global
<1>5. 0 \notin Market(spec) /\ Market(spec) \subseteq 1 .. n
  BY <1>1 DEF Market
<1>6. 0 \in T
  <2>1. /\ NodeShown(r, 0).values = p.raw.values /\ NodeShown(s, 0).values = q.raw.values
        /\ NodeShown(r, 0).observed = p.raw.observed
        /\ NodeShown(s, 0).observed = q.raw.observed
        /\ NodeShown(r, 0).clocks = RawClocks(p) /\ NodeShown(s, 0).clocks = RawClocks(q)
    BY <1>1, <1>3, <1>4, RefreshedRawShows DEF NodeShown
  <2>2. Same(0)
    BY <1>2, <2>1 DEF SameShown, SameColumn
  <2>3. Sound(0)
    <3> HIDE DEF Same
    <3> QED
      BY <1>5, <2>2
  <2>4. \A i \in 0 .. 0 : i = 0
    OBVIOUS
  <2> HIDE DEF Sound
  <2> QED
    BY <1>1, <2>3, <2>4
<1>7. ASSUME NEW k \in 1 .. n, k - 1 \in T
      PROVE  k \in T
  <2>1. ASSUME k \in Market(spec)
        PROVE  Sound(k)
    <3> DEFINE stage  == spec.nodes[k].stage
               parent == spec.nodes[k].parent
               ids    == NodeIds(spec, parent)
               a      == p.nodes[k].memory
               b      == q.nodes[k].memory
               x      == NodeShown(r, parent)
               y      == NodeShown(s, parent)
    <3>1. /\ parent \in 0 .. k - 1 /\ parent \in 0 .. n
          /\ IsStage(stage) /\ IsVector(ids) /\ ValidStage(stage, ids)
      BY <1>1, NodeOfSpec
    <3>2. /\ parent = 0 \/ parent \in Market(spec)
          /\ UsedColumns(stage, ids) \subseteq Steady(spec, parent)
      BY <1>1, <2>1, UsedAreSteady DEF ColumnsOfNode
    <3>3. /\ IsShown(x, Len(ids)) /\ IsShown(y, Len(ids))
          /\ IsMemory(stage, a) /\ IsMemory(stage, b)
      BY <1>3, <1>4, <3>1 DEF Structured
    <3>4. SameShown(x, y, UsedColumns(stage, ids))
      <4>1. Same(parent)
        BY <1>7, <3>1, <3>2
      <4> QED
        BY <3>2, <4>1 DEF SameShown, SameColumn
    <3>5. ResidueOf(stage, a) = ResidueOf(stage, b)
      BY <2>1 DEF SameResidues
    <3>6. r.nodes[k] = ApplyStage(stage, a, ids, x, global, advance)
      BY <1>3, Zenon
    <3>7. s.nodes[k] = ApplyStage(stage, b, ids, y, global, advance)
      BY <1>2, <1>4, Zenon
    <3>8. k # 0
      BY <1>1
    <3> HIDE DEF stage, ids, a, b, x, y
    <3>9. r.nodes[k] = s.nodes[k]
      BY <3>1, <3>3, <3>4, <3>5, <3>6, <3>7, SameStagesShowTheSame
    <3>10. Same(k)
      BY <3>8, <3>9 DEF NodeShown, SameShown, SameColumn
    <3> HIDE DEF Same
    <3> QED
      BY <2>1, <3>8, <3>9, <3>10
  <2>2. Sound(k)
    <3>1. k # 0
      BY <1>1
    <3>2. CASE k \notin Market(spec)
      BY <3>1, <3>2
    <3>3. CASE k \in Market(spec)
      BY <2>1, <3>3
    <3> QED
      BY <3>2, <3>3
  <2>3. \A i \in 0 .. k : i = k \/ i \in 0 .. k - 1
    BY <1>1
  <2> HIDE DEF Sound
  <2> QED
    BY <1>1, <1>7, <2>2, <2>3
<1> HIDE DEF T, n
<1>8. \A k \in 0 .. n : k \in T
  BY <1>1, <1>6, <1>7, UpwardInduction
<1>9. \A i \in 0 .. n : Sound(i)
  <2>1. n \in T
    BY <1>1, <1>8
  <2> QED
    BY <2>1 DEF T
<1>10. \A i \in Market(spec) : i \in 0 .. n
  BY <1>1, <1>5
<1> QED
  BY <1>9, <1>10 DEF SameMarketNodes, r, s

-----------------------------------------------------------------------------
(* A replay of the accepted events alone is a fold over them, event by      *)
(* event.                                                                  *)

HandleStep(none, p, e) == HandleEvent(p, e)

EventFold == INSTANCE FoldLemmas WITH Step <- HandleStep

LEMMA ReplayedIsFold ==
  ASSUME NEW spec, NEW events
  PROVE  Replayed(spec, events) = EventFold!LeftFold({}, NewPipeline(spec), events)
BY DEF EventFold!LeftFold, EventFold!FoldLeft, EventFold!MapThenFoldSet, EventFold!Max,
       FoldLeft, MapThenFoldSet, Max, HandleStep, Replayed

LEMMA ReplayedNothing ==
  ASSUME NEW spec
  PROVE  Replayed(spec, <<>>) = NewPipeline(spec)
<1>1. DOMAIN <<>> = 1 .. 0 /\ 0 \in Nat
  BY EmptyIsVector, VectorFacts
<1>2. PICK run : EventFold!LeftRun({}, NewPipeline(spec), <<>>, 0, run)
  BY <1>1, EventFold!LeftFoldRuns
<1>3. /\ run[0] = NewPipeline(spec)
      /\ EventFold!LeftFold({}, NewPipeline(spec), <<>>) = run[0]
  BY <1>2 DEF EventFold!LeftRun
<1> QED
  BY <1>3, ReplayedIsFold

LEMMA ReplayedNext ==
  ASSUME NEW spec, NEW events, IsVector(events), NEW e
  PROVE  /\ IsVector(Append(events, e))
         /\ Replayed(spec, Append(events, e)) = HandleEvent(Replayed(spec, events), e)
<1> DEFINE n    == Len(events)
           more == Append(events, e)
           base == NewPipeline(spec)
<1>1. n \in Nat /\ n + 1 \in Nat /\ DOMAIN events = 1 .. n
  BY VectorFacts
<1>2. IsVector(more) /\ Len(more) = n + 1 /\ more[n + 1] = e /\ \A k \in 1 .. n : more[k] = events[k]
  BY AppendIsVector
<1> HIDE DEF more, base
<1>3. DOMAIN more = 1 .. n + 1
  BY <1>2, VectorFacts
<1> HIDE DEF n
<1>4. PICK run : EventFold!LeftRun({}, base, events, n, run)
  BY <1>1, EventFold!LeftFoldRuns
<1>5. PICK longer : EventFold!LeftRun({}, base, more, n + 1, longer)
  BY <1>1, <1>3, EventFold!LeftFoldRuns
<1>6. /\ run[0] = base
      /\ \A k \in 1 .. n : run[k] = HandleEvent(run[k - 1], events[k])
      /\ EventFold!LeftFold({}, base, events) = run[n]
  BY <1>4 DEF EventFold!LeftRun, HandleStep
<1>7. /\ longer[0] = base
      /\ \A k \in 1 .. n + 1 : longer[k] = HandleEvent(longer[k - 1], more[k])
      /\ EventFold!LeftFold({}, base, more) = longer[n + 1]
  BY <1>5 DEF EventFold!LeftRun, HandleStep
<1> DEFINE T == {k \in 0 .. n : longer[k] = run[k]}
<1>8. 0 \in T
  BY <1>1, <1>6, <1>7
<1>9. ASSUME NEW k \in 1 .. n, k - 1 \in T
      PROVE  k \in T
  <2>1. k \in 1 .. n + 1 /\ k \in 0 .. n /\ longer[k - 1] = run[k - 1]
    BY <1>1, <1>9
  <2>2. longer[k] = HandleEvent(longer[k - 1], more[k])
    BY <1>7, <2>1
  <2>3. run[k] = HandleEvent(run[k - 1], events[k])
    BY <1>6
  <2> QED
    BY <1>2, <2>1, <2>2, <2>3
<1> HIDE DEF T
<1>10. \A k \in 0 .. n : k \in T
  BY <1>1, <1>8, <1>9, UpwardInduction
<1>11. longer[n] = run[n]
  <2>1. n \in T
    BY <1>1, <1>10
  <2> QED
    BY <2>1 DEF T
<1>12. longer[n + 1] = HandleEvent(longer[n], more[n + 1])
  <2>1. n + 1 \in 1 .. n + 1 /\ (n + 1) - 1 = n
    BY <1>1
  <2>2. longer[n + 1] = HandleEvent(longer[(n + 1) - 1], more[n + 1])
    BY <1>7, <2>1
  <2> QED
    BY <2>1, <2>2
<1>13. /\ Replayed(spec, events) = EventFold!LeftFold({}, base, events)
       /\ Replayed(spec, more) = EventFold!LeftFold({}, base, more)
  BY ReplayedIsFold DEF base
<1> QED
  BY <1>2, <1>6, <1>7, <1>11, <1>12, <1>13 DEF more

(* A runtime that went through other calls follows one that went through    *)
(* the accepted events alone: it saw the same market, and its histories are *)
(* the same.                                                               *)
Follows(p, q, spec) ==
  /\ Structured(q, spec)
  /\ SameTime(p, q)
  /\ SameColumn(p.raw.values, q.raw.values, Steady(spec, 0))
  /\ SameResidues(p, q, spec)

LEMMA RefreshKeepsCells ==
  ASSUME NEW p, NEW spec, Structured(p, spec), NEW advance
  PROVE  LET r == Refresh(p, advance)
         IN  Structured(r, spec) /\ SameMarketTime(p, r) /\ r.raw.values = p.raw.values
<1> DEFINE r == Refresh(p, advance)
<1>1. IsRuntimeOf(p, spec) /\ IsRuntime(p)
  BY DEF Structured, IsRuntimeOf
<1>2. r.raw = RefreshedRaw(p) /\ SameMarketTime(p, r)
  BY <1>1, RefreshNodes
<1>3. Structured(r, spec)
  BY RefreshIsStructured
<1> HIDE DEF r
<1>4. r.raw.values = p.raw.values
  BY <1>1, <1>2, RefreshedRawShows
<1> QED
  BY <1>2, <1>3, <1>4 DEF r

LEMMA QuietKeepsResidues ==
  ASSUME NEW p, NEW q, NEW spec, Observing(p, q, spec), Quiet(q.raw, Len(RawIds))
  PROVE  SameResidues(Refresh(q, FALSE), p, spec)
<1> DEFINE r == Refresh(q, FALSE)
<1>1. KeepsResidues(p, r, spec)
  BY RefreshIsQuiet
<1> HIDE DEF r
<1>2. SameResidues(r, p, spec)
  BY <1>1 DEF KeepsResidues, SameResidues, Market
<1> QED
  BY <1>2 DEF r

LEMMA EventFollows ==
  ASSUME NEW p, NEW q, NEW spec, Structured(p, spec), Follows(p, q, spec),
         NEW e \in Events, Accepts(p, e)
  PROVE  /\ Follows(HandleEvent(p, e), HandleEvent(q, e), spec)
         /\ Agree(HandleEvent(p, e), HandleEvent(q, e), spec)
<1> DEFINE x == Observed(p, e)
           y == Observed(q, e)
           r == Refresh(x, TRUE)
           s == Refresh(y, TRUE)
<1>1. HandleEvent(p, e) = r /\ HandleEvent(q, e) = s
  <2>1. Accepts(q, e)
    BY DEF Accepts, Follows, SameTime
  <2> QED
    BY <2>1 DEF HandleEvent
<1>2. /\ IsRuntime(p) /\ DOMAIN p.raw.values = 1 .. Len(RawIds)
      /\ DOMAIN p.raw.observed = 1 .. Len(RawIds)
      /\ IsRuntime(q) /\ DOMAIN q.raw.values = 1 .. Len(RawIds)
      /\ DOMAIN q.raw.observed = 1 .. Len(RawIds)
      /\ Structured(q, spec) /\ Structured(x, spec) /\ Structured(y, spec)
      /\ Len(spec.nodes) \in Nat
  BY RawIsShown, ObservedIsObserving, VectorFacts DEF Follows, Observing, WellFormed
<1>3. SameTime(x, y)
  <2>1. /\ x.timed = p.timed /\ x.watermarks = [p.watermarks EXCEPT ![e.symbol] = e.at]
        /\ y.timed = q.timed /\ y.watermarks = [q.watermarks EXCEPT ![e.symbol] = e.at]
    BY <1>2, EventWrites
  <2>2. x.max = Max({p.max, e.at}) /\ y.max = Max({q.max, e.at})
    BY <1>2, EventObserves
  <2> HIDE DEF x, y
  <2> QED
    BY <2>1, <2>2 DEF Follows, SameTime
<1>4. /\ x.raw.values = EventValues(p.raw.values, e) /\ y.raw.values = EventValues(q.raw.values, e)
      /\ x.raw.observed = EventMarks(p.raw.observed, e)
      /\ y.raw.observed = EventMarks(q.raw.observed, e)
  BY <1>2, EventObserves
<1>5. x.nodes = p.nodes /\ y.nodes = q.nodes
  BY <1>2, EventWrites
<1> HIDE DEF x, y
<1>6. /\ SameColumn(x.raw.values, y.raw.values, Steady(spec, 0))
      /\ SameColumn(x.raw.observed, y.raw.observed, Steady(spec, 0))
  <2>1. \A c \in Steady(spec, 0) : p.raw.values[c] = q.raw.values[c] /\ c \in 1 .. Len(RawIds)
    BY DEF Follows, SameColumn, Steady
  <2>2. SameColumn(x.raw.values, y.raw.values, Steady(spec, 0))
    BY <1>2, <1>4, <2>1 DEF EventValues, SameColumn
  <2>3. x.raw.observed = y.raw.observed
    BY <1>2, <1>4 DEF EventMarks
  <2> QED
    BY <2>2, <2>3 DEF SameColumn
<1>7. SameResidues(x, y, spec)
  BY <1>5 DEF Follows, SameResidues
<1>8. SameMarketNodes(r, s, spec)
  BY <1>2, <1>3, <1>6, <1>7, RefreshSame
<1>9. /\ Structured(s, spec) /\ SameMarketTime(x, r) /\ SameMarketTime(y, s)
      /\ r.raw.values = x.raw.values /\ s.raw.values = y.raw.values
  BY <1>2, RefreshKeepsCells
<1> HIDE DEF r, s
<1>10. Follows(r, s, spec)
  BY <1>3, <1>6, <1>8, <1>9 DEF Follows, SameTime, SameMarketTime, SameResidues, SameMarketNodes
<1>11. Agree(r, s, spec)
  BY <1>8 DEF Agree, SameMarketNodes
<1> QED
  BY <1>1, <1>10, <1>11

LEMMA ContextFollows ==
  ASSUME NEW p, NEW q, NEW spec, Structured(p, spec), Follows(p, q, spec),
         NEW updates, updates # <<>>, DOMAIN updates \subseteq Context
  PROVE  LET r == UpdateContext(p, updates)
         IN  /\ Follows(r, q, spec)
             /\ Current(p, spec) => Agree(r, p, spec)
             /\ Quiet(q.raw, Len(RawIds)) => Agree(r, Refresh(q, FALSE), spec)
<1> DEFINE x == Supplied(p, updates)
           r == UpdateContext(p, updates)
<1>1. r = Refresh(x, FALSE)
  BY DEF UpdateContext
<1>2. /\ IsRuntime(p) /\ WellFormed(spec)
      /\ DOMAIN p.raw.values = 1 .. Len(RawIds) /\ DOMAIN p.raw.observed = 1 .. Len(RawIds)
      /\ Structured(q, spec)
      /\ Observing(p, x, spec) /\ Structured(x, spec) /\ Quiet(x.raw, Len(RawIds))
  BY RawIsShown, SuppliedIsObserving DEF Follows, Observing
<1>3. SameMarketTime(p, x) /\ x.nodes = p.nodes
  BY <1>2, SupplyWrites
<1>4. SameColumn(p.raw.values, x.raw.values, Steady(spec, 0))
  <2>1. x.raw.values = ContextValues(p.raw.values, updates)
    BY <1>2, SupplyObserves
  <2> HIDE DEF x
  <2> QED
    BY <1>2, <2>1 DEF ContextValues, SameColumn, Steady, OfMarket
<1> HIDE DEF x, r
<1>5. /\ r.raw.values = x.raw.values /\ SameMarketTime(x, r)
  BY <1>1, <1>2, RefreshKeepsCells
<1>6. SameResidues(r, p, spec)
  BY <1>1, <1>2, QuietKeepsResidues
<1>7. Follows(r, q, spec)
  BY <1>3, <1>4, <1>5, <1>6 DEF Follows, SameTime, SameMarketTime, SameColumn, SameResidues
<1>8. ASSUME Current(p, spec)
      PROVE  Agree(r, p, spec)
  BY <1>1, <1>2, <1>4, <1>8, RefreshStays
<1>9. ASSUME Quiet(q.raw, Len(RawIds))
      PROVE  Agree(r, Refresh(q, FALSE), spec)
  <2>1. SameTime(x, q)
    BY <1>3 DEF Follows, SameTime, SameMarketTime
  <2>2. SameColumn(x.raw.values, q.raw.values, Steady(spec, 0))
    BY <1>4 DEF Follows, SameColumn
  <2>3. SameColumn(x.raw.observed, q.raw.observed, Steady(spec, 0))
    BY <1>2, <1>9 DEF Quiet, SameColumn, Steady
  <2>4. SameResidues(x, q, spec)
    BY <1>3 DEF Follows, SameResidues
  <2>5. SameMarketNodes(r, Refresh(q, FALSE), spec)
    BY <1>1, <1>2, <2>1, <2>2, <2>3, <2>4, RefreshSame
  <2> QED
    BY <2>5 DEF Agree, SameMarketNodes
<1> QED
  BY <1>7, <1>8, <1>9 DEF r

LEMMA NewFollowsItself ==
  ASSUME NEW spec, WellFormed(spec)
  PROVE  LET p == NewPipeline(spec)
         IN  Follows(p, p, spec) /\ Agree(p, p, spec) /\ Quiet(p.raw, Len(RawIds))
<1> DEFINE p == NewPipeline(spec)
<1>1. Structured(p, spec)
  BY NewIsStructured
<1>2. p.raw = Blank(RawIds)
  BY DEF NewPipeline
<1> HIDE DEF p
<1>3. Quiet(p.raw, Len(RawIds))
  <2>1. DOMAIN RawIds = 1 .. Len(RawIds)
    BY PipelineParameters, VectorFacts
  <2> QED
    BY <1>2, <2>1 DEF Blank, Quiet
<1>4. Follows(p, p, spec) /\ Agree(p, p, spec)
  BY <1>1 DEF Follows, Agree, SameTime, SameColumn, SameResidues
<1> QED
  BY <1>3, <1>4 DEF p

LEMMA AgreeOnMarket ==
  ASSUME NEW p, NEW q, NEW spec, Structured(p, spec)
  PROVE  SameMarket(p, q) <=> Agree(p, q, spec)
<1>1. p.spec = spec /\ DOMAIN p.nodes = 1 .. Len(spec.nodes)
  BY VectorFacts DEF Structured, IsRuntimeOf
<1> QED
  BY <1>1 DEF SameMarket, SameNode, NodesOf, Agree, Market

(* Nodes of the market are as the accepted events alone leave them, or,     *)
(* before the first event, as a first refresh leaves them.                 *)
FollowsAccepted(p, events) ==
  LET alone == Replayed(p.spec, events)
  IN  /\ IsVector(events)
      /\ Follows(p, alone, p.spec)
      /\ \/ Agree(p, alone, p.spec)
         \/ events = <<>> /\ Agree(p, Refresh(NewPipeline(p.spec), FALSE), p.spec)

LEMMA NewFollowsAccepted ==
  ASSUME NEW spec, WellFormed(spec)
  PROVE  FollowsAccepted(NewPipeline(spec), <<>>)
<1>1. NewPipeline(spec).spec = spec
  BY NewRuntime
<1>2. Replayed(spec, <<>>) = NewPipeline(spec)
  BY ReplayedNothing
<1>3. Follows(NewPipeline(spec), NewPipeline(spec), spec)
      /\ Agree(NewPipeline(spec), NewPipeline(spec), spec)
  BY NewFollowsItself
<1> QED
  BY <1>1, <1>2, <1>3, EmptyIsVector DEF FollowsAccepted

LEMMA EventFollowsAccepted ==
  ASSUME NEW p, NEW events, FollowsAccepted(p, events), Structured(p, p.spec),
         NEW e \in Events, Accepts(p, e)
  PROVE  FollowsAccepted(HandleEvent(p, e), Append(events, e))
<1> DEFINE spec  == p.spec
           alone == Replayed(spec, events)
           r     == HandleEvent(p, e)
           s     == HandleEvent(alone, e)
<1>1. IsVector(events) /\ Follows(p, alone, spec)
  BY DEF FollowsAccepted
<1>2. r.spec = spec
  BY EventSettles
<1>3. IsVector(Append(events, e)) /\ Replayed(spec, Append(events, e)) = s
  BY <1>1, ReplayedNext
<1>4. Follows(r, s, spec) /\ Agree(r, s, spec)
  <2> HIDE DEF alone, spec
  <2>1. Structured(p, spec)
    BY DEF spec
  <2> QED
    BY <1>1, <2>1, EventFollows
<1> HIDE DEF r, s, spec
<1> QED
  BY <1>2, <1>3, <1>4 DEF FollowsAccepted, r

LEMMA ContextFollowsAccepted ==
  ASSUME NEW p, NEW events, FollowsAccepted(p, events), Settled(p, events),
         NEW updates, updates # <<>>, DOMAIN updates \subseteq Context
  PROVE  FollowsAccepted(UpdateContext(p, updates), events)
<1> DEFINE spec  == p.spec
           alone == Replayed(spec, events)
           first == Refresh(NewPipeline(spec), FALSE)
           r     == UpdateContext(p, updates)
<1>1. IsVector(events) /\ Follows(p, alone, spec)
      /\ (Agree(p, alone, spec) \/ (events = <<>> /\ Agree(p, first, spec)))
  BY DEF FollowsAccepted
<1>2. Structured(p, spec) /\ (events # <<>> => Current(p, spec))
  BY DEF Settled
<1>3. r.spec = spec
  BY <1>2, ContextSettles
<1>4. events = <<>> => alone = NewPipeline(spec) /\ Quiet(alone.raw, Len(RawIds))
  <2>1. WellFormed(spec)
    BY <1>2, RawIsShown
  <2> QED
    BY <2>1, ReplayedNothing, NewFollowsItself
<1> HIDE DEF alone, spec, r
<1>5. /\ Follows(r, alone, spec)
      /\ Current(p, spec) => Agree(r, p, spec)
      /\ Quiet(alone.raw, Len(RawIds)) => Agree(r, Refresh(alone, FALSE), spec)
  BY <1>1, <1>2, ContextFollows DEF r
<1>6. CASE events = <<>>
  <2>1. Agree(r, first, spec)
    BY <1>4, <1>5, <1>6
  <2> HIDE DEF first
  <2>2. Replayed(spec, events) = alone /\ first = Refresh(NewPipeline(spec), FALSE)
    BY DEF alone, first
  <2> QED
    BY <1>1, <1>3, <1>5, <1>6, <2>1, <2>2 DEF FollowsAccepted, r
<1>7. CASE events # <<>>
  <2>1. Agree(r, p, spec) /\ Agree(p, alone, spec)
    BY <1>1, <1>2, <1>5, <1>7
  <2>2. Agree(r, alone, spec)
    BY <2>1 DEF Agree
  <2>3. Replayed(spec, events) = alone
    BY DEF alone
  <2> QED
    BY <1>1, <1>3, <1>5, <2>2, <2>3 DEF FollowsAccepted, r
<1> QED
  BY <1>6, <1>7

MarketInv == FollowsAccepted(pipeline, accepted)

THEOREM MarketInvariance == ReplaySpec => []MarketInv
<1>1. ReplayInit => MarketInv
  <2> SUFFICES ASSUME ReplayInit
               PROVE  MarketInv
    OBVIOUS
  <2>1. PICK graph \in Graphs : pipeline = Build(SpecOf(graph))
    BY DEF ReplayInit, PipelineInit
  <2>2. /\ SpecOf(graph) # InvalidPipeline /\ pipeline = NewPipeline(SpecOf(graph))
        /\ accepted = <<>>
    BY <2>1 DEF ReplayInit, PipelineInit, Build
  <2> QED
    BY <2>2, SpecsAreWellFormed, NewFollowsAccepted DEF MarketInv
<1>2. ReplayInv /\ GraphInv /\ MarketInv /\ [ReplayNext]_replayVars => MarketInv'
  <2> SUFFICES ASSUME ReplayInv, GraphInv, MarketInv, [ReplayNext]_replayVars
               PROVE  MarketInv'
    OBVIOUS
  <2>1. Structured(pipeline, pipeline.spec)
    BY DEF GraphInv, Settled
  <2>2. CASE UNCHANGED pipelineVars
    BY <2>2 DEF pipelineVars, MarketInv
  <2>3. ASSUME NEW e \in Events, Handle(e)
        PROVE  MarketInv'
    <3>1. CASE Accepts(pipeline, e)
      <4>1. pipeline' = HandleEvent(pipeline, e) /\ accepted' = Append(accepted, e)
        BY <2>3, <3>1 DEF Handle
      <4> QED
        BY <2>1, <3>1, <4>1, EventFollowsAccepted DEF MarketInv
    <3>2. CASE ~ Accepts(pipeline, e)
      BY <2>3, <3>2 DEF Handle, HandleEvent, MarketInv
    <3> QED
      BY <3>1, <3>2
  <2>4. ASSUME NEW updates, DOMAIN updates \subseteq Context, Update(updates)
        PROVE  MarketInv'
    <3>1. CASE updates # <<>>
      BY <2>4, <3>1, ContextFollowsAccepted DEF Update, GraphInv, MarketInv
    <3>2. CASE updates = <<>>
      BY <2>4, <3>2 DEF Update, UpdateContext, MarketInv
    <3> QED
      BY <3>1, <3>2
  <2>5. CASE Reset
    <3>1. WellFormed(pipeline.spec)
      BY <2>1, RawIsShown
    <3>2. pipeline' = NewPipeline(pipeline.spec) /\ accepted' = <<>>
      BY <2>5 DEF Reset
    <3> QED
      BY <3>1, <3>2, NewFollowsAccepted DEF MarketInv
  <2> QED
    BY <2>2, <2>3, <2>4, <2>5, CallCases
<1> QED
  BY <1>1, <1>2, ReplayInvariance, GraphInvariance, PTL DEF ReplaySpec

(* Nodes that read nothing of the context are functions of the accepted     *)
(* events alone, whatever graph they are in: neither an event that was      *)
(* rejected, nor a context update, nor where a replay stopped, enters their *)
(* histories, repeats an observation or shows in their values               *)
(* (update_context of pipeline.rs refreshes without advancing, and apply of *)
(* stages.rs then only recomputes what a stage shows of its inputs).        *)
THEOREM MarketFollowsAcceptedEvents == ReplaySpec => []NodesFollowAcceptedEvents
<1>1. GraphInv /\ MarketInv => NodesFollowAcceptedEvents
  <2> SUFFICES ASSUME GraphInv, MarketInv
               PROVE  NodesFollowAcceptedEvents
    OBVIOUS
  <2>1. Structured(pipeline, pipeline.spec)
    BY DEF GraphInv, Settled
  <2>2. \A other : SameMarket(pipeline, other) <=> Agree(pipeline, other, pipeline.spec)
    BY <2>1, AgreeOnMarket
  <2> QED
    BY <2>2 DEF MarketInv, FollowsAccepted, NodesFollowAcceptedEvents
<1> QED
  BY <1>1, GraphInvariance, MarketInvariance, PTL

=============================================================================
