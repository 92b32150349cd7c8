--------------------------- MODULE FeatureExtractor ---------------------------
(***************************************************************************)
(* The feature extractor: features/feature_extractor.rs, with the routes   *)
(* that features/compiler.rs gives its features and one configured order   *)
(* book.                                                                   *)
(*                                                                         *)
(* handle_event checks an event, updates the cells subscribed to it and    *)
(* then moves the watermarks; it returns before any other call can start,  *)
(* so each way it can end is one action.  Calls of the book's              *)
(* apply_update become part of the extractor's action: the action of       *)
(* module OrderBook is a conjunct, and what it returned decides the rest.  *)
(*                                                                         *)
(* A cell's value stands for what it was computed from, <<>> for NaN:      *)
(*   a field        <<payload>> of the last event that carried it          *)
(*   a timed window <<clock, payload of the last trade in it>>             *)
(*   a calendar     <<timestamp>>                                          *)
(*   book and flow  <<image>> and <<flow>> of the order book               *)
(*   context        <<payload>> as set by the caller                       *)
(***************************************************************************)
EXTENDS OrderBook

CONSTANTS
  Symbols,        \* interned symbols, GLOBAL among them
  BookSymbol,     \* the symbol with a configured order book
  Events,         \* the events but the updates of that book: [symbol, kind, at, payload]
  Payloads,       \* finite values of an event
  NonFinite,      \* NaN or infinity as a value
  Features,       \* [feature -> [what, symbol, kind]], kind being a field's event kind
  ContextUpdates  \* arguments of update_context: sequences of [feature, value]

GLOBAL == "GLOBAL"

MarketKinds == {"Price", "Volume", "Trade"}

BookKinds == {"OrderBookDelta", "OrderBookSnapshot"}

NaN == <<>>

(* Events other than the updates of the configured book.  An event of an    *)
(* order book nobody configured is accepted like any other.                 *)
MarketEvents ==
  [symbol : Symbols \ {GLOBAL}, kind : MarketKinds, at : Timestamps,
   payload : Payloads \cup {NonFinite}]
  \cup [symbol : Symbols \ {GLOBAL, BookSymbol}, kind : BookKinds, at : Timestamps,
        payload : {None}]
  \cup [symbol : {GLOBAL}, kind : {"Time"}, at : Timestamps, payload : {None}]

ASSUME ExtractorTypes ==
  /\ GLOBAL \in Symbols
  /\ Events \subseteq MarketEvents
  /\ BookSymbol \in Symbols \ {GLOBAL}
  /\ Payloads \subseteq Nat
  /\ NonFinite \notin Payloads
  /\ \A f \in DOMAIN Features :
       /\ Features[f].what \in {"Field", "Timed", "Calendar", "Book", "Flow", "Context"}
       /\ Features[f].symbol \in Symbols
       /\ Features[f].what \in {"Book", "Flow"} => Features[f].symbol = BookSymbol

VARIABLES
  value,            \* feature_vector
  observed,         \* observations: the cells the last accepted event wrote
  source,           \* sources: timestamp_millis of each
  lastTimestamp,    \* last_timestamp
  symbolTimestamp,  \* symbol_timestamps
  maxTimestamp,     \* max_timestamp
  reply             \* how the last call of the extractor ended

watermarks == <<lastTimestamp, symbolTimestamp, maxTimestamp>>

outputs == <<value, observed, source>>

extractorVars == <<vars, outputs, watermarks, reply>>

Cells == DOMAIN Features

CellsOf(what) == {f \in Cells : Features[f].what = what}

Replies == {"Ok", "Accepted", "TimestampOutOfOrder", "NonFiniteValue",
            "OrderBookError", "InvalidContextUpdate"}

BookEvent(kind, t) == [symbol |-> BookSymbol, kind |-> kind, at |-> t, payload |-> None]

-----------------------------------------------------------------------------
(* What an accepted event does to the cells. *)

(* Global calendars skip the events that come late. *)
LateForAny(e) == maxTimestamp # None /\ e.at < maxTimestamp

(* EventRouter: the cells that update_any_features and *)
(* update_event_features hand an event to.             *)
Subscribed(f, e) ==
  LET feature == Features[f]
  IN  CASE feature.what = "Field"    -> /\ feature.symbol = e.symbol
                                        /\ feature.kind = e.kind
        [] feature.what = "Timed"    -> feature.symbol = e.symbol
        [] feature.what = "Calendar" -> IF feature.symbol = GLOBAL
                                          THEN ~ LateForAny(e)
                                          ELSE feature.symbol = e.symbol
        [] OTHER                     -> FALSE

(* A timed window's own clock: what its observe() saw last. *)
ClockOf(f) == IF value[f] = NaN THEN None ELSE value[f][1]

LastTrade(f) == IF value[f] = NaN THEN None ELSE value[f][2]

(* Faulty variant: only trades advance a window. *)
WrittenByTradesOnly(e) ==
  {f \in Cells : Subscribed(f, e) /\ (Features[f].what = "Timed" => e.kind = "Trade")}

(* A handler may be called and yet write nothing: a timed window has seen  *)
(* this timestamp and only a trade can change it.                          *)
WrittenByEvent(e) ==
  {f \in Cells :
    /\ Subscribed(f, e)
    /\ Features[f].what = "Timed" => e.kind = "Trade" \/ ClockOf(f) # e.at}

EventValue(f, e) ==
  CASE Features[f].what = "Field"    -> <<e.payload>>
    [] Features[f].what = "Timed"    -> <<e.at, IF e.kind = "Trade" THEN e.payload
                                                                    ELSE LastTrade(f)>>
    [] Features[f].what = "Calendar" -> <<e.at>>

(* Faulty variant: whatever advances a window counts as its source. *)
SourcedByAnything(e) == {f \in Cells : Subscribed(f, e)}

(* Routed events advance a window's clock, but only trades are its source. *)
(* The exception of update_subscribers for CVD, which passes trades of no   *)
(* aggressor by, is left out with its kind of cell.                         *)
SourcedByEvent(e) ==
  {f \in Cells : Subscribed(f, e) /\ (Features[f].what = "Timed" => e.kind = "Trade")}

(* Does the update of the book show?  Decided by what the book returned. *)
BookShows == result' \in {"Applied", "Resynchronized"}

(* Faulty variant: flow cells are written without a flow. *)
WrittenByBookAlways == CellsOf("Book") \cup CellsOf("Flow")

(* Cells of the book that an update it shows writes: flows need a flow. *)
WrittenByBook ==
  CellsOf("Book") \cup (IF flow' = NoFlow THEN {} ELSE CellsOf("Flow"))

BookValue(f) == IF Features[f].what = "Book" THEN <<image'>> ELSE <<flow'>>

(* Faulty variant: the observations of the event before stay. *)
NotCleared == observed

(* observations.fill(false) *)
Cleared == {}

(* Faulty variant: the last accepted time, which is not always the latest. *)
LastTimestampAfter(e) == e.at

MaxTimestampAfter(e) == IF e.at > maxTimestamp THEN e.at ELSE maxTimestamp

(* The body of handle_event once an event is accepted: global calendars,    *)
(* event features, book features, watermarks.  fromBook tells whether the   *)
(* book has shown a new state.                                              *)
Accept(e, fromBook) ==
  LET byEvent == WrittenByEvent(e)
      byBook  == IF fromBook THEN WrittenByBook ELSE {}
      sourced == SourcedByEvent(e)
  IN  /\ value' = [f \in Cells |-> IF f \in byBook THEN BookValue(f)
                                   ELSE IF f \in byEvent THEN EventValue(f, e)
                                   ELSE value[f]]
      /\ observed' = Cleared \cup byEvent \cup byBook
      /\ source' = [f \in Cells |-> IF f \in byBook THEN sourceTimestamp'
                                    ELSE IF f \in sourced THEN e.at
                                    ELSE source[f]]
      /\ lastTimestamp' = e.at
      /\ symbolTimestamp' = [symbolTimestamp EXCEPT ![e.symbol] = e.at]
      /\ maxTimestamp' = MaxTimestampAfter(e)
      /\ reply' = "Accepted"

(* Faulty variant: the observations are cleared before an event is checked. *)
RejectAfterClearing(why) ==
  /\ reply' = why
  /\ observed' = {}
  /\ UNCHANGED <<value, source, watermarks>>

Reject(why) ==
  /\ reply' = why
  /\ UNCHANGED <<outputs, watermarks>>

-----------------------------------------------------------------------------
(* handle_event: one action for each way a call can end. *)

InOrder(e) == symbolTimestamp[e.symbol] <= e.at

RejectOutOfOrder ==
  /\ \E e \in Events \cup {BookEvent(kind, t) : kind \in BookKinds, t \in Timestamps} :
       ~ InOrder(e)
  /\ Reject("TimestampOutOfOrder")
  /\ UNCHANGED vars

RejectNonFinite(e) ==
  /\ InOrder(e)
  /\ e.payload = NonFinite
  /\ Reject("NonFiniteValue")
  /\ UNCHANGED vars

HandleMarketEvent(e) ==
  /\ InOrder(e)
  /\ e.payload # NonFinite
  /\ Accept(e, FALSE)
  /\ UNCHANGED vars

(* Faulty variant: a snapshot that ends a desynchronization does not show. *)
FinishUnlessResynchronized(e) ==
  IF result' \in Errors THEN Reject("OrderBookError") ELSE Accept(e, result' = "Applied")

(* An update of the configured book.  A rejected one is committed too: it  *)
(* may leave a delta in the history and desynchronize the book, but never  *)
(* gets to the cells and the watermarks.                                   *)
FinishBookEvent(e) ==
  IF result' \in Errors THEN Reject("OrderBookError") ELSE Accept(e, BookShows)

HandleDelta(d, t) ==
  /\ InOrder(BookEvent("OrderBookDelta", t))
  /\ ReceiveDelta(d, t)
  /\ FinishBookEvent(BookEvent("OrderBookDelta", t))

HandleSnapshot(s, t) ==
  /\ InOrder(BookEvent("OrderBookSnapshot", t))
  /\ ReceiveSnapshot(s, t)
  /\ FinishBookEvent(BookEvent("OrderBookSnapshot", t))

-----------------------------------------------------------------------------
(* Context. *)

(* validate_context: known context cells, each once, finite or cleared. *)
ValidContext(u) ==
  /\ \A i \in 1 .. Len(u) : u[i].feature \in CellsOf("Context") /\ u[i].value # NonFinite
  /\ \A i, j \in 1 .. Len(u) : u[i].feature = u[j].feature => i = j

ContextValue(v) == IF v = None THEN NaN ELSE <<v>>

RejectContext(u) ==
  /\ ~ ValidContext(u)
  /\ Reject("InvalidContextUpdate")
  /\ UNCHANGED vars

UpdateContext(u) ==
  /\ ValidContext(u)
  /\ value' = [f \in Cells |->
                 IF \E i \in 1 .. Len(u) : u[i].feature = f
                   THEN ContextValue(u[CHOOSE i \in 1 .. Len(u) : u[i].feature = f].value)
                   ELSE value[f]]
  /\ observed' = IF u = <<>> THEN observed ELSE Cleared
  /\ reply' = "Ok"
  /\ UNCHANGED <<vars, source, watermarks>>

-----------------------------------------------------------------------------
ExtractorInit ==
  /\ Init
  /\ value = [f \in Cells |-> NaN]
  /\ observed = {}
  /\ source = [f \in Cells |-> None]
  /\ lastTimestamp = None
  /\ symbolTimestamp = [s \in Symbols |-> None]
  /\ maxTimestamp = None
  /\ reply = "Ok"

ExtractorNext ==
  \/ RejectOutOfOrder
  \/ \E e \in Events : RejectNonFinite(e) \/ HandleMarketEvent(e)
  \/ \E t \in Timestamps :
       \/ \E d \in Deltas : HandleDelta(d, t)
       \/ \E s \in Snapshots : HandleSnapshot(s, t)
  \/ \E u \in ContextUpdates : RejectContext(u) \/ UpdateContext(u)

ExtractorSpec == ExtractorInit /\ [][ExtractorNext]_extractorVars

-----------------------------------------------------------------------------
(* evaluation_timestamp: the time a cell is evaluated at, which is what the *)
(* nodes of a pipeline take for their clock.                                *)
EvaluationTimestamp(f) ==
  CASE Features[f].what = "Context"                                     -> None
    [] Features[f].what = "Calendar" /\ Features[f].symbol = GLOBAL     -> maxTimestamp
    [] OTHER                                      -> symbolTimestamp[Features[f].symbol]

(* The book cells show what the book shows, with its source time, through  *)
(* every mixture of applied, buffered, stale and rejected updates; before  *)
(* its first snapshot they are missing.                                    *)
BookCellsFollowBook ==
  \A f \in CellsOf("Book") :
    IF lastSnapshotUpdateId = None
      THEN value[f] = NaN /\ source[f] = None
      ELSE value[f] = <<image>> /\ source[f] = sourceTimestamp

(* A flow cell shows the flow of the book as long as it has one and is     *)
(* never counted as observed when it has none: replayed deltas are no flow. *)
FlowCellsAreOfAppliedDeltas ==
  \A f \in CellsOf("Flow") :
    /\ flow # NoFlow => value[f] = <<flow>> /\ source[f] = sourceTimestamp
    /\ f \in observed => flow # NoFlow

(* The maximum is that of the symbols' watermarks, although events of      *)
(* different symbols need not be in order.                                 *)
WatermarksAgree ==
  /\ \A s \in Symbols : symbolTimestamp[s] <= maxTimestamp
  /\ {lastTimestamp, maxTimestamp} \subseteq {symbolTimestamp[s] : s \in Symbols}

(* Every window and calendar has been evaluated at the time its nodes take  *)
(* for the present: no accepted event of its symbol passes a window by, not *)
(* even a book update that only went to the history.                        *)
ClocksAreEvaluationTimes ==
  \A f \in CellsOf("Timed") \cup CellsOf("Calendar") : ClockOf(f) = EvaluationTimestamp(f)

(* Events that merely advance a window do not make its source look fresh. *)
WindowSourcesAreTrades ==
  \A f \in CellsOf("Timed") :
    /\ source[f] <= ClockOf(f)
    /\ source[f] = None <=> (value[f] = NaN \/ LastTrade(f) = None)

(* A cell marked as observed was evaluated by the last accepted event, and *)
(* not left so by an earlier one.                                          *)
ObservedByLastEvent(f) ==
  /\ Features[f].what # "Context"
  /\ Features[f].what = "Field" => source[f] = lastTimestamp
  /\ Features[f].what \in {"Timed", "Calendar"} => ClockOf(f) = lastTimestamp
  /\ Features[f].what \in {"Book", "Flow"} => symbolTimestamp[BookSymbol] = lastTimestamp

(* The marks that nodes downstream go by are right both ways.  After every *)
(* call, refused or not, what is marked was evaluated by the last accepted *)
(* event (a context update leaves nothing observed); and an event changes  *)
(* no value and refreshes no source of a cell that it does not mark.       *)
MarksAreOfLastEvent ==
  [][/\ \A f \in observed' : ObservedByLastEvent(f)'
     /\ reply' = "Accepted" =>
          \A f \in Cells : value'[f] # value[f] \/ source'[f] # source[f]
                            => f \in observed']_extractorVars

(* A rejected call shows nowhere: not in the cells, their observations and *)
(* sources, not in a watermark, not in what the book shows.                *)
RejectionsDoNotShow ==
  [][reply' \notin {"Accepted", "Ok"} => UNCHANGED <<outputs, watermarks, visible>>]_extractorVars

=============================================================================
