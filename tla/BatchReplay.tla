------------------------------ MODULE BatchReplay ------------------------------
(***************************************************************************)
(* The replay of batches that the Python runtime (fiml-python's runtime.rs) *)
(* offers over a pipeline.  All rows are validated before the first one is *)
(* applied, but an order book can reject an update only when it is its     *)
(* turn: the rows before it stay applied and those after it are skipped.   *)
(*                                                                         *)
(* The steps of a replay are states of their own, between which nothing    *)
(* else is called.                                                         *)
(***************************************************************************)
EXTENDS Pipeline

CONSTANT Batches  \* sequences of rows [event, updates], the latter maybe <<>>

(* Whether an order book will reject an update is not known beforehand. *)
Rows ==
  [event   : [symbol : Symbols, value : Values, at : Times, fails : BOOLEAN],
   updates : UNION {[ids -> Values] : ids \in SUBSET Context}]

ASSUME BatchParameters == Batches \subseteq Seq(Rows)

VARIABLE batch  \* the rows that a running replay has not applied yet

replayVars == <<pipeline, accepted, batch>>

(* Faulty variant: rows are compared with the runtime alone. *)
InOrderOfRuntime(rows) ==
  \A i \in DOMAIN rows : pipeline.watermarks[rows[i].event.symbol] <= rows[i].event.at

(* The watermarks that a symbol's rows must not fall behind are those of    *)
(* the runtime and then of the rows before.                                *)
InOrder(rows) ==
  \A i \in DOMAIN rows :
    LET event == rows[i].event
    IN  /\ pipeline.watermarks[event.symbol] <= event.at
        /\ \A j \in 1 .. i - 1 :
             rows[j].event.symbol = event.symbol => rows[j].event.at <= event.at

ReplayInit == PipelineInit /\ batch = <<>>

(* update, update_context and, for Rust callers, reset. *)
Call == batch = <<>> /\ PipelineNext /\ UNCHANGED batch

(* Contexts are validated as well; those of Batches are valid. *)
Replay(rows) ==
  /\ batch = <<>>
  /\ Len(accepted) + Len(rows) <= MaxCalls
  /\ batch' = IF InOrder(rows) THEN rows ELSE <<>>
  /\ UNCHANGED pipelineVars

(* The context updates of a row come before its event. *)
SupplyRow ==
  /\ batch # <<>>
  /\ Head(batch).updates # <<>>
  /\ Update(Head(batch).updates)
  /\ batch' = [batch EXCEPT ![1].updates = <<>>]

HandleRow ==
  /\ batch # <<>>
  /\ Head(batch).updates = <<>>
  /\ Handle(Head(batch).event)
  /\ batch' = IF Accepts(pipeline, Head(batch).event) THEN Tail(batch) ELSE <<>>

ReplayNext ==
  \/ Call
  \/ \E rows \in Batches : Replay(rows)
  \/ SupplyRow
  \/ HandleRow

ReplaySpec == ReplayInit /\ [][ReplayNext]_replayVars

(* A replay that began stops only at an update that an order book rejects: *)
(* no row is late when its turn comes, whatever the rows before it moved.   *)
RowsAreTimely ==
  \A i \in DOMAIN batch : pipeline.watermarks[batch[i].event.symbol] <= batch[i].event.at

================================================================================
