--------------------------- MODULE ExtractorProofs ---------------------------
(***************************************************************************)
(* Proofs about FeatureExtractor, for every set of features, symbols and   *)
(* events, every order book and every stream of its updates, truthful or   *)
(* not; and about the rolling sums that its timed features advance by the  *)
(* time of every event, for any aggregation, capacity, windows and times.  *)
(*                                                                         *)
(* Of the extractor, first come the kinds of steps: a call either is       *)
(* refused, or accepts an event, or updates the context.  Then each        *)
(* property is proved over those kinds, with the types it needs.           *)
(*                                                                         *)
(* The argument about a rolling sum is the spacing of the ring: its        *)
(* buckets have increasing numbers, so that a full ring spans at least     *)
(* Capacity of them, its oldest has left every window by the time a new    *)
(* one comes, and an eviction only ever takes what no running sum still    *)
(* counts.                                                                 *)
(***************************************************************************)
EXTENDS FeatureExtractor, TimedWindow, NumberLemmas, SequenceTheorems

-----------------------------------------------------------------------------
(* Events and steps. *)

(* The events whose values are finite, those of the configured book among  *)
(* them.                                                                   *)
FiniteEvents ==
  {e \in MarketEvents : e.payload # NonFinite}
    \cup {BookEvent(kind, t) : kind \in BookKinds, t \in Timestamps}

(* The fields of an event that may be accepted. *)
LEMMA EventFacts ==
  ASSUME NEW e \in FiniteEvents
  PROVE  /\ e.at \in Timestamps /\ e.at \in Nat
         /\ e.symbol \in Symbols
         /\ e.kind = "Trade" => e.payload \in Payloads /\ e.payload \in Nat
<1>1. Timestamps \subseteq Nat /\ Payloads \subseteq Nat /\ GLOBAL \in Symbols
      /\ BookSymbol \in Symbols
  BY ParameterTypes, ExtractorTypes
<1>2. CASE e \in {x \in MarketEvents : x.payload # NonFinite}
  BY <1>1, <1>2 DEF MarketEvents, MarketKinds, BookKinds
<1>3. CASE e \in {BookEvent(kind, t) : kind \in BookKinds, t \in Timestamps}
  BY <1>1, <1>3 DEF BookEvent, BookKinds
<1> QED
  BY <1>2, <1>3 DEF FiniteEvents

(* The book changes what it shows exactly when the extractor is told so,    *)
(* and does not become live otherwise.                                      *)
LEMMA BookShowsVisible ==
  ASSUME \/ \E d \in Deltas, t \in Timestamps : ReceiveDelta(d, t)
         \/ \E s \in Snapshots, t \in Timestamps : ReceiveSnapshot(s, t)
  PROVE  /\ \/ BookShows
            \/ UNCHANGED visible /\ (syncState' = "Live" => syncState = "Live")
         /\ BookShows <=> \/ \E d \in Deltas, t \in Timestamps : ApplyDelta(d, t)
                          \/ \E s \in Snapshots, t \in Timestamps : ApplySnapshot(s, t)
<1> USE DEF BookShows
<1>1. ASSUME NEW d \in Deltas, NEW t \in Timestamps,
             RejectMalformedDelta(d) \/ IgnoreStaleDelta(d) \/ RejectOverflow(d)
               \/ RejectGap(d, t) \/ BufferDelta(d, t)
      PROVE  /\ ~ BookShows
             /\ UNCHANGED visible
             /\ syncState' = "Live" => syncState = "Live"
  BY <1>1 DEF RejectMalformedDelta, IgnoreStaleDelta, RejectOverflow, RejectGap,
              BufferDelta, visible
<1>2. ASSUME NEW s \in Snapshots, RejectSnapshot(s)
      PROVE  /\ ~ BookShows
             /\ UNCHANGED visible
             /\ syncState' = "Live" => syncState = "Live"
  BY <1>2 DEF RejectSnapshot, SnapshotError, visible
<1>3. ASSUME NEW d \in Deltas, NEW t \in Timestamps, ApplyDelta(d, t)
      PROVE  BookShows
  BY <1>3 DEF ApplyDelta
<1>4. ASSUME NEW s \in Snapshots, NEW t \in Timestamps, ApplySnapshot(s, t)
      PROVE  BookShows
  BY <1>4 DEF ApplySnapshot
<1> QED
  BY <1>1, <1>2, <1>3, <1>4 DEF ReceiveDelta, ReceiveSnapshot

(* The kinds of steps. *)
Refused ==
  /\ UNCHANGED <<outputs, watermarks, visible>>
  /\ syncState' = "Live" => syncState = "Live"

AcceptsMarketEvent(e) ==
  /\ InOrder(e)
  /\ Accept(e, FALSE)
  /\ UNCHANGED vars

AcceptsBookEvent(e, shown) ==
  /\ e.symbol = BookSymbol
  /\ e.kind # "Trade"
  /\ InOrder(e)
  /\ shown \in BOOLEAN
  /\ shown <=> BookShows
  /\ Accept(e, shown)
  /\ \/ \E d \in Deltas, t \in Timestamps : ReceiveDelta(d, t)
     \/ \E s \in Snapshots, t \in Timestamps : ReceiveSnapshot(s, t)

(* A call is refused, or accepts an event, or updates the context. *)
LEMMA StepKinds ==
  ASSUME [ExtractorNext]_extractorVars
  PROVE  \/ Refused
         \/ \E e \in FiniteEvents :
              AcceptsMarketEvent(e) \/ \E shown \in BOOLEAN : AcceptsBookEvent(e, shown)
         \/ \E u \in ContextUpdates : UpdateContext(u)
<1>1. CASE RejectOutOfOrder
  BY <1>1 DEF RejectOutOfOrder, Reject, Refused, vars, visible
<1>2. ASSUME NEW e \in Events, RejectNonFinite(e)
      PROVE  Refused
  BY <1>2 DEF RejectNonFinite, Reject, Refused, vars, visible
<1>3. ASSUME NEW e \in Events, HandleMarketEvent(e)
      PROVE  e \in FiniteEvents /\ AcceptsMarketEvent(e)
  <2>1. e \in MarketEvents /\ e.payload # NonFinite
    BY <1>3, ExtractorTypes DEF HandleMarketEvent
  <2>2. e \in FiniteEvents
    BY <2>1 DEF FiniteEvents
  <2> QED
    BY <1>3, <2>2 DEF HandleMarketEvent, AcceptsMarketEvent
<1>4. ASSUME NEW e \in FiniteEvents, e.symbol = BookSymbol, e.kind # "Trade", InOrder(e),
             \/ \E d \in Deltas, t \in Timestamps : ReceiveDelta(d, t)
             \/ \E s \in Snapshots, t \in Timestamps : ReceiveSnapshot(s, t),
             FinishBookEvent(e)
      PROVE  Refused \/ \E shown \in BOOLEAN : AcceptsBookEvent(e, shown)
  <2>1. CASE result' \in Errors
    <3>1. ~ BookShows
      BY <2>1 DEF BookShows, Errors
    <3>2. UNCHANGED visible /\ (syncState' = "Live" => syncState = "Live")
      BY <1>4, <3>1, BookShowsVisible
    <3> QED
      BY <1>4, <2>1, <3>2 DEF FinishBookEvent, Reject, Refused
  <2>2. CASE result' \notin Errors
    <3>1. Accept(e, BookShows)
      BY <1>4, <2>2 DEF FinishBookEvent
    <3>2. CASE BookShows
      <4>1. Accept(e, TRUE)
        BY <3>1, <3>2 DEF Accept
      <4>2. AcceptsBookEvent(e, TRUE)
        BY <1>4, <3>2, <4>1 DEF AcceptsBookEvent
      <4> QED
        BY <4>2
    <3>3. CASE ~ BookShows
      <4>1. Accept(e, FALSE)
        BY <3>1, <3>3 DEF Accept
      <4>2. AcceptsBookEvent(e, FALSE)
        BY <1>4, <3>3, <4>1 DEF AcceptsBookEvent
      <4> QED
        BY <4>2
    <3> QED
      BY <3>2, <3>3
  <2> QED
    BY <2>1, <2>2
<1>5. ASSUME NEW d \in Deltas, NEW t \in Timestamps, HandleDelta(d, t)
      PROVE  Refused \/ \E e \in FiniteEvents, shown \in BOOLEAN : AcceptsBookEvent(e, shown)
  <2> DEFINE e == BookEvent("OrderBookDelta", t)
  <2>1. e \in FiniteEvents /\ e.symbol = BookSymbol /\ e.kind # "Trade"
    BY DEF FiniteEvents, BookEvent, BookKinds
  <2>2. InOrder(e) /\ ReceiveDelta(d, t) /\ FinishBookEvent(e)
    BY <1>5 DEF HandleDelta
  <2> HIDE DEF e
  <2> QED
    BY <1>4, <2>1, <2>2
<1>6. ASSUME NEW s \in Snapshots, NEW t \in Timestamps, HandleSnapshot(s, t)
      PROVE  Refused \/ \E e \in FiniteEvents, shown \in BOOLEAN : AcceptsBookEvent(e, shown)
  <2> DEFINE e == BookEvent("OrderBookSnapshot", t)
  <2>1. e \in FiniteEvents /\ e.symbol = BookSymbol /\ e.kind # "Trade"
    BY DEF FiniteEvents, BookEvent, BookKinds
  <2>2. InOrder(e) /\ ReceiveSnapshot(s, t) /\ FinishBookEvent(e)
    BY <1>6 DEF HandleSnapshot
  <2> HIDE DEF e
  <2> QED
    BY <1>4, <2>1, <2>2
<1>7. ASSUME NEW u \in ContextUpdates, RejectContext(u)
      PROVE  Refused
  BY <1>7 DEF RejectContext, Reject, Refused, vars, visible
<1>8. CASE UNCHANGED extractorVars
  BY <1>8 DEF extractorVars, vars, visible, Refused
<1> QED
  BY <1>1, <1>2, <1>3, <1>5, <1>6, <1>7, <1>8 DEF ExtractorNext

-----------------------------------------------------------------------------
(* What an accepted event and a context update do to one cell. *)

(* Cells that are neither a book's nor a flow's are left to the event. *)
LEMMA AcceptedCell ==
  ASSUME NEW e, NEW fromBook \in BOOLEAN, Accept(e, fromBook), NEW f \in Cells,
         Features[f].what \notin {"Book", "Flow"}
  PROVE  /\ value'[f] = IF f \in WrittenByEvent(e) THEN EventValue(f, e) ELSE value[f]
         /\ source'[f] = IF f \in SourcedByEvent(e) THEN e.at ELSE source[f]
         /\ f \in observed' <=> f \in WrittenByEvent(e)
<1>1. f \notin (IF fromBook THEN WrittenByBook ELSE {})
  BY DEF WrittenByBook, CellsOf
<1> QED
  BY <1>1 DEF Accept, Cleared

(* The book's own cells are left to the book. *)
LEMMA AcceptedBookCell ==
  ASSUME NEW e, NEW fromBook \in BOOLEAN, Accept(e, fromBook), NEW f \in Cells,
         Features[f].what \in {"Book", "Flow"}
  PROVE  /\ value'[f] = IF fromBook /\ f \in WrittenByBook THEN BookValue(f) ELSE value[f]
         /\ source'[f] = IF fromBook /\ f \in WrittenByBook THEN sourceTimestamp'
                                                            ELSE source[f]
         /\ f \in observed' <=> fromBook /\ f \in WrittenByBook
<1>1. ~ Subscribed(f, e)
  BY DEF Subscribed
<1>2. f \notin WrittenByEvent(e) /\ f \notin SourcedByEvent(e)
  BY <1>1 DEF WrittenByEvent, SourcedByEvent
<1> QED
  BY <1>2 DEF Accept, Cleared

(* A context update leaves the cells of the market alone. *)
LEMMA ContextCell ==
  ASSUME NEW u \in ContextUpdates, UpdateContext(u), NEW f \in Cells,
         Features[f].what # "Context"
  PROVE  value'[f] = value[f]
BY DEF UpdateContext, ValidContext, CellsOf

(* A context update leaves no cell observed, unless it is empty. *)
LEMMA ContextObserved ==
  ASSUME NEW u \in ContextUpdates, UpdateContext(u)
  PROVE  observed' \subseteq observed
BY DEF UpdateContext, Cleared

-----------------------------------------------------------------------------
(* Watermarks. *)

WatermarkTypes ==
  /\ symbolTimestamp \in [Symbols -> Timestamps \cup {None}]
  /\ maxTimestamp \in Timestamps \cup {None}
  /\ lastTimestamp \in Timestamps \cup {None}

WatermarkInv == WatermarkTypes /\ WatermarksAgree

LEMMA TimestampsAreNaturals == \A t \in Timestamps : t \in Nat
BY ParameterTypes

LEMMA InitWatermarks == ExtractorInit => WatermarkInv
<1>1. GLOBAL \in Symbols
  BY ExtractorTypes
<1> QED
  BY <1>1 DEF ExtractorInit, WatermarkInv, WatermarkTypes, WatermarksAgree, None

(* An event in order moves the maximum only if it is the latest of all, and *)
(* otherwise does not move the symbol that the maximum is of.               *)
LEMMA AcceptKeepsWatermarks ==
  ASSUME WatermarkInv, NEW e \in FiniteEvents, InOrder(e),
         NEW fromBook \in BOOLEAN, Accept(e, fromBook)
  PROVE  WatermarkInv'
<1>1. e.at \in Timestamps /\ e.at \in Nat /\ e.symbol \in Symbols
  BY EventFacts
<1>2. /\ symbolTimestamp' = [symbolTimestamp EXCEPT ![e.symbol] = e.at]
      /\ maxTimestamp' = IF e.at > maxTimestamp THEN e.at ELSE maxTimestamp
      /\ lastTimestamp' = e.at
  BY DEF Accept, MaxTimestampAfter
<1>3. /\ maxTimestamp \in Int
      /\ \A s \in Symbols : symbolTimestamp[s] \in Int
      /\ \A s \in Symbols : symbolTimestamp[s] <= maxTimestamp
  BY TimestampsAreNaturals DEF WatermarkInv, WatermarkTypes, WatermarksAgree, None
<1>4. WatermarkTypes'
  BY <1>1, <1>2 DEF WatermarkInv, WatermarkTypes
<1>5. \A s \in Symbols : symbolTimestamp'[s] = IF s = e.symbol THEN e.at ELSE symbolTimestamp[s]
  BY <1>2 DEF WatermarkInv, WatermarkTypes
<1>6. \A s \in Symbols : symbolTimestamp'[s] <= maxTimestamp'
  BY <1>1, <1>2, <1>3, <1>5
<1>7. lastTimestamp' = symbolTimestamp'[e.symbol]
  BY <1>1, <1>2, <1>5
<1>8. \E s \in Symbols : maxTimestamp' = symbolTimestamp'[s]
  <2>1. CASE e.at > maxTimestamp
    BY <1>1, <1>2, <1>5, <2>1
  <2>2. CASE ~ (e.at > maxTimestamp)
    <3>1. PICK s \in Symbols : maxTimestamp = symbolTimestamp[s]
      BY DEF WatermarkInv, WatermarksAgree
    <3>2. s = e.symbol => e.at = maxTimestamp
      BY <1>1, <1>3, <2>2, <3>1 DEF InOrder
    <3> QED
      BY <1>2, <1>5, <2>2, <3>1, <3>2
  <2> QED
    BY <2>1, <2>2
<1> QED
  BY <1>1, <1>4, <1>6, <1>7, <1>8 DEF WatermarkInv, WatermarksAgree

LEMMA NextWatermarks == WatermarkInv /\ [ExtractorNext]_extractorVars => WatermarkInv'
<1> SUFFICES ASSUME WatermarkInv, [ExtractorNext]_extractorVars
             PROVE  WatermarkInv'
  OBVIOUS
<1>1. CASE UNCHANGED watermarks
  BY <1>1 DEF WatermarkInv, WatermarkTypes, WatermarksAgree, watermarks
<1>2. CASE Refused
  BY <1>1, <1>2 DEF Refused
<1>3. ASSUME NEW e \in FiniteEvents, NEW shown \in BOOLEAN,
             AcceptsMarketEvent(e) \/ AcceptsBookEvent(e, shown)
      PROVE  WatermarkInv'
  BY <1>3, AcceptKeepsWatermarks DEF AcceptsMarketEvent, AcceptsBookEvent
<1>4. ASSUME NEW u \in ContextUpdates, UpdateContext(u)
      PROVE  WatermarkInv'
  BY <1>1, <1>4 DEF UpdateContext
<1> QED
  BY <1>2, <1>3, <1>4, StepKinds

(* The maximum is that of the symbols' watermarks, in every state. *)
THEOREM WatermarksStayInAgreement == ExtractorSpec => []WatermarksAgree
<1>1. WatermarkInv => WatermarksAgree
  BY DEF WatermarkInv
<1> QED
  BY <1>1, InitWatermarks, NextWatermarks, PTL DEF ExtractorSpec

-----------------------------------------------------------------------------
(* Clocks of windows and calendars, and the sources of windows. *)

ClockedCells == CellsOf("Timed") \cup CellsOf("Calendar")

(* What windows and calendars hold: a clock, and a window its last trade. *)
ClockTypes ==
  /\ \A f \in CellsOf("Timed") :
       /\ \/ value[f] = NaN
          \/ \E at \in Timestamps, trade \in Payloads \cup {None} : value[f] = <<at, trade>>
       /\ source[f] \in Timestamps \cup {None}
  /\ \A f \in CellsOf("Calendar") :
       value[f] = NaN \/ \E at \in Timestamps : value[f] = <<at>>

ClockInv ==
  /\ WatermarkInv
  /\ ClockTypes
  /\ ClocksAreEvaluationTimes
  /\ WindowSourcesAreTrades

LEMMA InitClocks == ExtractorInit => ClockInv
<1> SUFFICES ASSUME ExtractorInit
             PROVE  ClockInv
  OBVIOUS
<1>1. \A f \in Cells : value[f] = NaN /\ source[f] = None
  BY DEF ExtractorInit
<1>2. ClockTypes /\ WindowSourcesAreTrades
  BY <1>1 DEF ClockTypes, WindowSourcesAreTrades, CellsOf, ClockOf, None
<1>3. \A f \in Cells : Features[f].symbol \in Symbols
  BY ExtractorTypes DEF Cells
<1>4. ClocksAreEvaluationTimes
  BY <1>1, <1>3 DEF ExtractorInit, ClocksAreEvaluationTimes, CellsOf, ClockOf,
                    EvaluationTimestamp
<1> QED
  BY <1>2, <1>4, InitWatermarks DEF ClockInv

(* What is read from a cell that holds something. *)
LEMMA ClockFacts ==
  /\ \A at, trade : <<at, trade>> # NaN /\ <<at, trade>>[1] = at /\ <<at, trade>>[2] = trade
  /\ \A at : <<at>> # NaN /\ <<at>>[1] = at
BY DEF NaN

(* An accepted event gives the windows of its symbol its own time, and only *)
(* a trade becomes their source.                                            *)
LEMMA AcceptedWindow ==
  ASSUME ClockInv, NEW e \in FiniteEvents, NEW fromBook \in BOOLEAN, Accept(e, fromBook),
         NEW f \in CellsOf("Timed"), Features[f].symbol = e.symbol
  PROVE  \E trade \in Payloads \cup {None} :
           /\ value'[f] = <<e.at, trade>>
           /\ IF e.kind = "Trade" THEN trade # None /\ source'[f] = e.at
              ELSE trade = LastTrade(f) /\ source'[f] = source[f]
<1>1. f \in Cells /\ Features[f].what = "Timed"
  BY DEF CellsOf
<1>2. Subscribed(f, e)
  BY <1>1 DEF Subscribed
<1>3. e.at \in Timestamps /\ (e.kind = "Trade" => e.payload \in Payloads /\ e.payload # None)
  BY EventFacts DEF None
<1>4. f \in SourcedByEvent(e) <=> e.kind = "Trade"
  BY <1>1, <1>2 DEF SourcedByEvent
<1>5. f \in WrittenByEvent(e) <=> e.kind = "Trade" \/ ClockOf(f) # e.at
  BY <1>1, <1>2 DEF WrittenByEvent
<1>6. EventValue(f, e) = <<e.at, IF e.kind = "Trade" THEN e.payload ELSE LastTrade(f)>>
  BY <1>1 DEF EventValue
<1>7. LastTrade(f) \in Payloads \cup {None}
  BY ClockFacts DEF LastTrade, ClockInv, ClockTypes
<1>8. CASE e.kind = "Trade"
  BY <1>1, <1>3, <1>4, <1>5, <1>6, <1>8, AcceptedCell
<1>9. CASE e.kind # "Trade" /\ ClockOf(f) # e.at
  BY <1>1, <1>4, <1>5, <1>6, <1>7, <1>9, AcceptedCell
<1>10. CASE e.kind # "Trade" /\ ClockOf(f) = e.at
  <2>1. value[f] # NaN
    BY <1>3, <1>10, TimestampsAreNaturals DEF ClockOf, None
  <2>2. PICK at \in Timestamps, trade \in Payloads \cup {None} : value[f] = <<at, trade>>
    BY <2>1 DEF ClockInv, ClockTypes
  <2>3. at = e.at /\ trade = LastTrade(f)
    BY <1>10, <2>1, <2>2, ClockFacts DEF ClockOf, LastTrade
  <2>4. value'[f] = value[f] /\ source'[f] = source[f]
    BY <1>1, <1>4, <1>5, <1>10, AcceptedCell
  <2> QED
    BY <1>10, <2>2, <2>3, <2>4
<1> QED
  BY <1>8, <1>9, <1>10

(* No event goes back behind the clock of a cell of its symbol. *)
LEMMA EventAfterClock ==
  ASSUME ClockInv, NEW e \in FiniteEvents, InOrder(e)
  PROVE  /\ symbolTimestamp[e.symbol] \in Int
         /\ symbolTimestamp[e.symbol] <= e.at
         /\ maxTimestamp \in Int
         /\ e.at \in Int
BY EventFacts, TimestampsAreNaturals
   DEF ClockInv, WatermarkInv, WatermarkTypes, InOrder, None

LEMMA AcceptKeepsWindow ==
  ASSUME ClockInv, NEW e \in FiniteEvents, InOrder(e),
         NEW fromBook \in BOOLEAN, Accept(e, fromBook), NEW f \in CellsOf("Timed")
  PROVE  /\ \/ value'[f] = NaN
            \/ \E at \in Timestamps, trade \in Payloads \cup {None} :
                 value'[f] = <<at, trade>>
         /\ source'[f] \in Timestamps \cup {None}
         /\ ClockOf(f)' = EvaluationTimestamp(f)'
         /\ source'[f] <= ClockOf(f)'
         /\ source'[f] = None <=> (value'[f] = NaN \/ LastTrade(f)' = None)
<1>1. f \in Cells /\ Features[f].what = "Timed"
  BY DEF CellsOf
<1>2. e.at \in Timestamps /\ e.symbol \in Symbols /\ e.at \in Nat
  BY EventFacts
<1>3. /\ ClockOf(f) = symbolTimestamp[Features[f].symbol]
      /\ EvaluationTimestamp(f)' = symbolTimestamp'[Features[f].symbol]
  BY <1>1 DEF ClockInv, ClocksAreEvaluationTimes, EvaluationTimestamp
<1>4. /\ source[f] <= ClockOf(f)
      /\ source[f] = None <=> (value[f] = NaN \/ LastTrade(f) = None)
      /\ source[f] \in Timestamps \cup {None}
  BY DEF ClockInv, ClockTypes, WindowSourcesAreTrades
<1>5. /\ symbolTimestamp' = [symbolTimestamp EXCEPT ![e.symbol] = e.at]
      /\ symbolTimestamp \in [Symbols -> Timestamps \cup {None}]
  BY DEF Accept, ClockInv, WatermarkInv, WatermarkTypes
<1>6. CASE Features[f].symbol = e.symbol
  <2>1. PICK trade \in Payloads \cup {None} :
           /\ value'[f] = <<e.at, trade>>
           /\ IF e.kind = "Trade" THEN trade # None /\ source'[f] = e.at
              ELSE trade = LastTrade(f) /\ source'[f] = source[f]
    BY <1>6, AcceptedWindow
  <2>2. value'[f] # NaN /\ ClockOf(f)' = e.at /\ LastTrade(f)' = trade
    BY <2>1, ClockFacts DEF ClockOf, LastTrade
  <2>3. EvaluationTimestamp(f)' = e.at
    BY <1>2, <1>3, <1>5, <1>6
  <2>4. source[f] \in Int /\ source[f] <= e.at
    BY <1>3, <1>4, <1>6, EventAfterClock, TimestampsAreNaturals DEF None
  <2>5. CASE e.kind = "Trade"
    BY <1>2, <2>1, <2>2, <2>3, <2>5 DEF None
  <2>6. CASE e.kind # "Trade"
    <3>1. trade = None <=> (value[f] = NaN \/ LastTrade(f) = None)
      BY <2>1, <2>6 DEF LastTrade
    <3> QED
      BY <1>2, <1>4, <2>1, <2>2, <2>3, <2>4, <2>6, <3>1
  <2> QED
    BY <2>5, <2>6
<1>7. CASE Features[f].symbol # e.symbol
  <2>1. ~ Subscribed(f, e)
    BY <1>1, <1>7 DEF Subscribed
  <2>2. value'[f] = value[f] /\ source'[f] = source[f]
    BY <1>1, <2>1, AcceptedCell DEF WrittenByEvent, SourcedByEvent
  <2>3. ClockOf(f)' = ClockOf(f) /\ LastTrade(f)' = LastTrade(f)
    BY <2>2 DEF ClockOf, LastTrade
  <2>4. symbolTimestamp'[Features[f].symbol] = symbolTimestamp[Features[f].symbol]
    BY <1>1, <1>5, <1>7, ExtractorTypes DEF Cells
  <2>5. \/ value[f] = NaN
        \/ \E at \in Timestamps, trade \in Payloads \cup {None} : value[f] = <<at, trade>>
    BY DEF ClockInv, ClockTypes
  <2> QED
    BY <1>3, <1>4, <2>2, <2>3, <2>4, <2>5
<1> QED
  BY <1>6, <1>7

LEMMA AcceptKeepsCalendar ==
  ASSUME ClockInv, NEW e \in FiniteEvents, InOrder(e),
         NEW fromBook \in BOOLEAN, Accept(e, fromBook), NEW f \in CellsOf("Calendar")
  PROVE  /\ value'[f] = NaN \/ \E at \in Timestamps : value'[f] = <<at>>
         /\ ClockOf(f)' = EvaluationTimestamp(f)'
<1>1. f \in Cells /\ Features[f].what = "Calendar" /\ Features[f].symbol \in Symbols
  BY ExtractorTypes DEF CellsOf, Cells
<1>2. e.at \in Timestamps /\ e.symbol \in Symbols /\ e.at \in Nat
  BY EventFacts
<1>3. /\ symbolTimestamp' = [symbolTimestamp EXCEPT ![e.symbol] = e.at]
      /\ symbolTimestamp \in [Symbols -> Timestamps \cup {None}]
      /\ maxTimestamp' = IF e.at > maxTimestamp THEN e.at ELSE maxTimestamp
      /\ maxTimestamp \in Timestamps \cup {None}
      /\ maxTimestamp \in Int
  BY EventAfterClock DEF Accept, MaxTimestampAfter, ClockInv, WatermarkInv, WatermarkTypes
<1>4. ClockOf(f) = EvaluationTimestamp(f)
  BY DEF ClockInv, ClocksAreEvaluationTimes
<1>5. value[f] = NaN \/ \E at \in Timestamps : value[f] = <<at>>
  BY DEF ClockInv, ClockTypes
<1>6. CASE Subscribed(f, e)
  <2>1. f \in WrittenByEvent(e) /\ EventValue(f, e) = <<e.at>>
    BY <1>1, <1>6 DEF WrittenByEvent, EventValue
  <2>2. value'[f] = <<e.at>>
    BY <1>1, <2>1, AcceptedCell
  <2>3. ClockOf(f)' = e.at
    BY <2>2, ClockFacts DEF ClockOf
  <2>4. CASE Features[f].symbol = GLOBAL
    <3>1. ~ (maxTimestamp # None /\ e.at < maxTimestamp)
      BY <1>1, <1>6, <2>4 DEF Subscribed, LateForAny
    <3>2. maxTimestamp' = e.at
      BY <1>2, <1>3, <3>1 DEF None
    <3> QED
      BY <1>1, <1>2, <2>2, <2>3, <2>4, <3>2 DEF EvaluationTimestamp
  <2>5. CASE Features[f].symbol # GLOBAL
    <3>1. Features[f].symbol = e.symbol
      BY <1>1, <1>6, <2>5 DEF Subscribed
    <3>2. EvaluationTimestamp(f)' = symbolTimestamp'[e.symbol]
      BY <1>1, <2>5, <3>1 DEF EvaluationTimestamp
    <3> QED
      BY <1>2, <1>3, <2>2, <2>3, <3>2
  <2> QED
    BY <2>4, <2>5
<1>7. CASE ~ Subscribed(f, e)
  <2>1. value'[f] = value[f]
    BY <1>1, <1>7, AcceptedCell DEF WrittenByEvent
  <2>2. ClockOf(f)' = ClockOf(f)
    BY <2>1 DEF ClockOf
  <2>3. CASE Features[f].symbol = GLOBAL
    <3>1. maxTimestamp # None /\ e.at < maxTimestamp
      BY <1>1, <1>7, <2>3 DEF Subscribed, LateForAny
    <3>2. maxTimestamp' = maxTimestamp
      BY <1>2, <1>3, <3>1
    <3>3. EvaluationTimestamp(f)' = maxTimestamp' /\ EvaluationTimestamp(f) = maxTimestamp
      BY <1>1, <2>3 DEF EvaluationTimestamp
    <3> QED
      BY <1>4, <1>5, <2>1, <2>2, <3>2, <3>3
  <2>4. CASE Features[f].symbol # GLOBAL
    <3>1. Features[f].symbol # e.symbol
      BY <1>1, <1>7, <2>4 DEF Subscribed
    <3>2. symbolTimestamp'[Features[f].symbol] = symbolTimestamp[Features[f].symbol]
      BY <1>1, <1>3, <3>1
    <3>3. /\ EvaluationTimestamp(f)' = symbolTimestamp'[Features[f].symbol]
          /\ EvaluationTimestamp(f) = symbolTimestamp[Features[f].symbol]
      BY <1>1, <2>4 DEF EvaluationTimestamp
    <3> QED
      BY <1>4, <1>5, <2>1, <2>2, <3>2, <3>3
  <2> QED
    BY <2>3, <2>4
<1> QED
  BY <1>6, <1>7

LEMMA NextClocks == ClockInv /\ [ExtractorNext]_extractorVars => ClockInv'
<1> SUFFICES ASSUME ClockInv, [ExtractorNext]_extractorVars
             PROVE  ClockInv'
  OBVIOUS
<1>1. WatermarkInv'
  BY NextWatermarks DEF ClockInv
<1>2. ASSUME \A f \in ClockedCells : value'[f] = value[f],
             UNCHANGED <<source, watermarks>>
      PROVE  ClockInv'
  <2>1. \A f \in ClockedCells : ClockOf(f)' = ClockOf(f) /\ LastTrade(f)' = LastTrade(f)
    BY <1>2 DEF ClockOf, LastTrade
  <2>2. \A f \in ClockedCells : EvaluationTimestamp(f)' = EvaluationTimestamp(f)
    BY <1>2 DEF EvaluationTimestamp, watermarks
  <2>3. ClockTypes'
    BY <1>2 DEF ClockInv, ClockTypes, ClockedCells
  <2>4. ClocksAreEvaluationTimes'
    BY <2>1, <2>2 DEF ClockInv, ClocksAreEvaluationTimes, ClockedCells
  <2>5. WindowSourcesAreTrades'
    BY <1>2, <2>1 DEF ClockInv, WindowSourcesAreTrades, ClockedCells
  <2> QED
    BY <1>1, <2>3, <2>4, <2>5 DEF ClockInv
<1>3. CASE Refused
  BY <1>2, <1>3 DEF Refused, outputs
<1>4. ASSUME NEW e \in FiniteEvents, NEW shown \in BOOLEAN,
             AcceptsMarketEvent(e) \/ AcceptsBookEvent(e, shown)
      PROVE  ClockInv'
  <2>1. PICK fromBook \in BOOLEAN : InOrder(e) /\ Accept(e, fromBook)
    BY <1>4 DEF AcceptsMarketEvent, AcceptsBookEvent
  <2>2. ClockTypes'
    BY <2>1, AcceptKeepsWindow, AcceptKeepsCalendar DEF ClockTypes
  <2>3. ClocksAreEvaluationTimes'
    BY <2>1, AcceptKeepsWindow, AcceptKeepsCalendar DEF ClocksAreEvaluationTimes
  <2>4. WindowSourcesAreTrades'
    BY <2>1, AcceptKeepsWindow DEF WindowSourcesAreTrades
  <2> QED
    BY <1>1, <2>2, <2>3, <2>4 DEF ClockInv
<1>5. ASSUME NEW u \in ContextUpdates, UpdateContext(u)
      PROVE  ClockInv'
  <2>1. \A f \in ClockedCells : value'[f] = value[f]
    BY <1>5, ContextCell DEF ClockedCells, CellsOf
  <2> QED
    BY <1>2, <1>5, <2>1 DEF UpdateContext
<1> QED
  BY <1>3, <1>4, <1>5, StepKinds

(* No accepted event of its symbol passes a window or a calendar by: its    *)
(* clock is the time that a pipeline takes for the cell's present.          *)
THEOREM ClocksStayEvaluationTimes == ExtractorSpec => []ClocksAreEvaluationTimes
<1>1. ClockInv => ClocksAreEvaluationTimes
  BY DEF ClockInv
<1> QED
  BY <1>1, InitClocks, NextClocks, PTL DEF ExtractorSpec

(* A window's source is a trade, and never an event that merely moved it. *)
THEOREM WindowSourcesStayTrades == ExtractorSpec => []WindowSourcesAreTrades
<1>1. ClockInv => WindowSourcesAreTrades
  BY DEF ClockInv
<1> QED
  BY <1>1, InitClocks, NextClocks, PTL DEF ExtractorSpec

-----------------------------------------------------------------------------
(* Observation marks. *)

ObservedInv == observed \subseteq Cells /\ \A f \in observed : ObservedByLastEvent(f)

(* What an accepted event marks was written by it. *)
LEMMA AcceptMarksOwnCells ==
  ASSUME ClockInv, NEW e \in FiniteEvents, NEW fromBook \in BOOLEAN, Accept(e, fromBook),
         fromBook => e.symbol = BookSymbol
  PROVE  ObservedInv'
<1>1. observed' \subseteq Cells
  BY DEF Accept, Cleared, WrittenByEvent, WrittenByBook, CellsOf
<1>2. e.at \in Timestamps /\ e.symbol \in Symbols /\ lastTimestamp' = e.at
      /\ symbolTimestamp'[e.symbol] = e.at
  BY EventFacts DEF Accept, ClockInv, WatermarkInv, WatermarkTypes
<1>3. ASSUME NEW f \in observed'
      PROVE  /\ Features[f].what # "Context"
             /\ Features[f].what = "Field" => source'[f] = lastTimestamp'
             /\ Features[f].what \in {"Timed", "Calendar"} => ClockOf(f)' = lastTimestamp'
             /\ Features[f].what \in {"Book", "Flow"}
                  => symbolTimestamp'[BookSymbol] = lastTimestamp'
  <2>1. f \in Cells
    BY <1>1
  <2>2. CASE Features[f].what \in {"Book", "Flow"}
    <3>1. fromBook
      BY <2>1, <2>2, AcceptedBookCell
    <3> QED
      BY <1>2, <2>2, <3>1
  <2>3. CASE Features[f].what \notin {"Book", "Flow"}
    <3>1. f \in WrittenByEvent(e) /\ value'[f] = EventValue(f, e)
          /\ source'[f] = IF f \in SourcedByEvent(e) THEN e.at ELSE source[f]
      BY <2>1, <2>3, AcceptedCell
    <3>2. Subscribed(f, e)
      BY <3>1 DEF WrittenByEvent
    <3>3. Features[f].what # "Context"
      BY <3>2 DEF Subscribed
    <3>4. CASE Features[f].what = "Field"
      BY <1>2, <2>1, <3>1, <3>2, <3>4 DEF SourcedByEvent
    <3>5. CASE Features[f].what = "Timed"
      <4>1. Features[f].symbol = e.symbol /\ f \in CellsOf("Timed")
        BY <2>1, <3>2, <3>5 DEF Subscribed, CellsOf
      <4>2. PICK trade : value'[f] = <<e.at, trade>>
        BY <4>1, AcceptedWindow
      <4> QED
        BY <1>2, <3>5, <4>2, ClockFacts DEF ClockOf
    <3>6. CASE Features[f].what = "Calendar"
      <4>1. value'[f] = <<e.at>>
        BY <3>1, <3>6 DEF EventValue
      <4> QED
        BY <1>2, <3>6, <4>1, ClockFacts DEF ClockOf
    <3> QED
      BY <2>3, <3>3, <3>4, <3>5, <3>6
  <2> QED
    BY <2>2, <2>3
<1> QED
  BY <1>1, <1>3 DEF ObservedInv, ObservedByLastEvent

LEMMA NextObserved ==
  ClockInv /\ ObservedInv /\ [ExtractorNext]_extractorVars => ObservedInv'
<1> SUFFICES ASSUME ClockInv, ObservedInv, [ExtractorNext]_extractorVars
             PROVE  ObservedInv'
  OBVIOUS
<1>1. ASSUME observed' \subseteq observed, \A f \in ClockedCells : value'[f] = value[f],
             UNCHANGED <<source, watermarks>>
      PROVE  ObservedInv'
  <2>1. \A f \in ClockedCells : ClockOf(f)' = ClockOf(f)
    BY <1>1 DEF ClockOf
  <2>2. \A f \in observed :
          Features[f].what \in {"Timed", "Calendar"} => f \in ClockedCells
    BY DEF ObservedInv, ClockedCells, CellsOf
  <2> QED
    BY <1>1, <2>1, <2>2 DEF ObservedInv, ObservedByLastEvent, watermarks
<1>2. CASE Refused
  BY <1>1, <1>2 DEF Refused, outputs
<1>3. ASSUME NEW e \in FiniteEvents, NEW shown \in BOOLEAN,
             AcceptsMarketEvent(e) \/ AcceptsBookEvent(e, shown)
      PROVE  ObservedInv'
  BY <1>3, AcceptMarksOwnCells DEF AcceptsMarketEvent, AcceptsBookEvent
<1>4. ASSUME NEW u \in ContextUpdates, UpdateContext(u)
      PROVE  ObservedInv'
  <2>1. \A f \in ClockedCells : value'[f] = value[f]
    BY <1>4, ContextCell DEF ClockedCells, CellsOf
  <2> QED
    BY <1>1, <1>4, <2>1, ContextObserved DEF UpdateContext
<1> QED
  BY <1>2, <1>3, <1>4, StepKinds

(* An event writes what it marks and nothing else. *)
LEMMA AcceptMarksChanges ==
  ASSUME NEW e, NEW fromBook \in BOOLEAN, Accept(e, fromBook), NEW f \in Cells,
         value'[f] # value[f] \/ source'[f] # source[f]
  PROVE  f \in observed'
<1>1. f \in SourcedByEvent(e) => f \in WrittenByEvent(e)
  BY DEF SourcedByEvent, WrittenByEvent
<1>2. CASE Features[f].what \in {"Book", "Flow"}
  BY <1>2, AcceptedBookCell
<1>3. CASE Features[f].what \notin {"Book", "Flow"}
  BY <1>1, <1>3, AcceptedCell
<1> QED
  BY <1>2, <1>3

(* What is marked as observed was evaluated by the last accepted event, and *)
(* that event changed nothing without marking it.                           *)
THEOREM MarksStayOfLastEvent == ExtractorSpec => MarksAreOfLastEvent
<1>1. ExtractorInit => ObservedInv
  BY DEF ExtractorInit, ObservedInv
<1>2. ObservedInv' /\ [ExtractorNext]_extractorVars
        => [/\ \A f \in observed' : ObservedByLastEvent(f)'
            /\ reply' = "Accepted" =>
                 \A f \in Cells : value'[f] # value[f] \/ source'[f] # source[f]
                                   => f \in observed']_extractorVars
  <2> SUFFICES ASSUME ObservedInv', [ExtractorNext]_extractorVars, reply' = "Accepted",
                      NEW f \in Cells, value'[f] # value[f] \/ source'[f] # source[f]
               PROVE  f \in observed'
    BY DEF ObservedInv
  <2>1. ASSUME NEW e \in FiniteEvents, NEW shown \in BOOLEAN,
               AcceptsMarketEvent(e) \/ AcceptsBookEvent(e, shown)
        PROVE  f \in observed'
    BY <2>1, AcceptMarksChanges DEF AcceptsMarketEvent, AcceptsBookEvent
  <2>2. ASSUME NEW u \in ContextUpdates, UpdateContext(u)
        PROVE  FALSE
    BY <2>2 DEF UpdateContext
  <2>3. CASE Refused
    BY <2>3 DEF Refused, outputs
  <2> QED
    BY <2>1, <2>2, <2>3, StepKinds
<1> QED
  BY <1>1, <1>2, InitClocks, NextClocks, NextObserved, PTL DEF ExtractorSpec, MarksAreOfLastEvent

-----------------------------------------------------------------------------
(* Cells of the order book and of its flow. *)

(* The book is live only once it has a snapshot. *)
LiveHasSnapshot == syncState = "Live" => lastSnapshotUpdateId # None

BookCellsInv == LiveHasSnapshot /\ BookCellsFollowBook /\ FlowCellsAreOfAppliedDeltas

(* A step that shows nothing new of the book and writes none of its cells. *)
LEMMA QuietStepKeepsBookCells ==
  ASSUME BookCellsInv, UNCHANGED visible, LiveHasSnapshot',
         \A f \in CellsOf("Book") \cup CellsOf("Flow") :
           /\ value'[f] = value[f]
           /\ source'[f] = source[f]
           /\ f \in observed' => f \in observed
  PROVE  BookCellsInv'
BY DEF BookCellsInv, BookCellsFollowBook, FlowCellsAreOfAppliedDeltas, visible

(* A call of the book shows a new state, or is no way to become live. *)
LEMMA BookCall ==
  ASSUME LiveHasSnapshot,
         \/ \E d \in Deltas, t \in Timestamps : ReceiveDelta(d, t)
         \/ \E s \in Snapshots, t \in Timestamps : ReceiveSnapshot(s, t)
  PROVE  /\ LiveHasSnapshot'
         /\ BookShows => lastSnapshotUpdateId' # None
<1>1. ASSUME NEW d \in Deltas, NEW t \in Timestamps, ReceiveDelta(d, t)
      PROVE  /\ lastSnapshotUpdateId' = lastSnapshotUpdateId
             /\ syncState' = "Live" => syncState = "Live"
             /\ BookShows => syncState = "Live"
  BY <1>1 DEF ReceiveDelta, RejectMalformedDelta, IgnoreStaleDelta, RejectOverflow,
              RejectGap, BufferDelta, ApplyDelta, visible, BookShows
<1>2. ASSUME NEW s \in Snapshots, NEW t \in Timestamps, ReceiveSnapshot(s, t)
      PROVE  \/ UNCHANGED <<lastSnapshotUpdateId, syncState>> /\ ~ BookShows
             \/ lastSnapshotUpdateId' = s.id
  BY <1>2 DEF ReceiveSnapshot, RejectSnapshot, SnapshotError, ApplySnapshot, LoadSnapshot,
              Replay, visible, BookShows
<1>3. \A s \in Snapshots : s.id # None
  BY ParameterTypes DEF Ids, None
<1> QED
  BY <1>1, <1>2, <1>3 DEF LiveHasSnapshot

(* When the book shows a new state its cells do, with its source time; the *)
(* cells of its flow do when it has one, and are not marked otherwise.     *)
LEMMA AcceptWritesBookCells ==
  ASSUME BookCellsInv, NEW e \in FiniteEvents, Accept(e, TRUE), LiveHasSnapshot',
         lastSnapshotUpdateId' # None
  PROVE  BookCellsInv'
<1>1. ASSUME NEW f \in CellsOf("Book")
      PROVE  value'[f] = <<image'>> /\ source'[f] = sourceTimestamp'
  <2>1. f \in Cells /\ Features[f].what = "Book" /\ f \in WrittenByBook
    BY DEF CellsOf, WrittenByBook
  <2> QED
    BY <2>1, AcceptedBookCell DEF BookValue
<1>2. ASSUME NEW f \in CellsOf("Flow")
      PROVE  /\ flow' # NoFlow => value'[f] = <<flow'>> /\ source'[f] = sourceTimestamp'
             /\ f \in observed' => flow' # NoFlow
  <2>1. f \in Cells /\ Features[f].what = "Flow" /\ f \notin CellsOf("Book")
    BY DEF CellsOf
  <2>2. f \in WrittenByBook <=> flow' # NoFlow
    BY <2>1 DEF WrittenByBook
  <2> QED
    BY <2>1, <2>2, AcceptedBookCell DEF BookValue
<1> QED
  BY <1>1, <1>2 DEF BookCellsInv, BookCellsFollowBook, FlowCellsAreOfAppliedDeltas

LEMMA NextBookCells == BookCellsInv /\ [ExtractorNext]_extractorVars => BookCellsInv'
<1> SUFFICES ASSUME BookCellsInv, [ExtractorNext]_extractorVars
             PROVE  BookCellsInv'
  OBVIOUS
<1> USE DEF BookCellsInv
<1>1. \A f \in CellsOf("Book") \cup CellsOf("Flow") :
        f \in Cells /\ Features[f].what \in {"Book", "Flow"}
  BY DEF CellsOf
<1>2. ASSUME NEW e \in FiniteEvents, AcceptsMarketEvent(e)
      PROVE  BookCellsInv'
  <2>1. UNCHANGED <<visible, syncState>> /\ Accept(e, FALSE)
    BY <1>2 DEF AcceptsMarketEvent, vars, visible
  <2>2. LiveHasSnapshot'
    BY <2>1 DEF LiveHasSnapshot, visible
  <2>3. \A f \in CellsOf("Book") \cup CellsOf("Flow") :
          value'[f] = value[f] /\ source'[f] = source[f] /\ f \notin observed'
    BY <1>1, <2>1, AcceptedBookCell
  <2> QED
    BY <2>1, <2>2, <2>3, QuietStepKeepsBookCells
<1>3. ASSUME NEW e \in FiniteEvents, NEW shown \in BOOLEAN, AcceptsBookEvent(e, shown)
      PROVE  BookCellsInv'
  <2>1. /\ \/ \E d \in Deltas, t \in Timestamps : ReceiveDelta(d, t)
           \/ \E s \in Snapshots, t \in Timestamps : ReceiveSnapshot(s, t)
        /\ Accept(e, shown)
        /\ shown <=> BookShows
    BY <1>3 DEF AcceptsBookEvent
  <2>2. LiveHasSnapshot' /\ (BookShows => lastSnapshotUpdateId' # None)
    BY <2>1, BookCall
  <2>3. CASE shown = TRUE
    BY <2>1, <2>2, <2>3, AcceptWritesBookCells
  <2>4. CASE shown = FALSE
    <3>1. UNCHANGED visible
      BY <2>1, <2>4, BookShowsVisible
    <3>2. Accept(e, FALSE)
      BY <2>1, <2>4
    <3>3. \A f \in CellsOf("Book") \cup CellsOf("Flow") :
            value'[f] = value[f] /\ source'[f] = source[f] /\ f \notin observed'
      BY <1>1, <3>2, AcceptedBookCell
    <3> QED
      BY <2>2, <3>1, <3>3, QuietStepKeepsBookCells
  <2> QED
    BY <2>3, <2>4
<1>4. ASSUME NEW u \in ContextUpdates, UpdateContext(u)
      PROVE  BookCellsInv'
  <2>1. UNCHANGED <<visible, syncState, source>>
    BY <1>4 DEF UpdateContext, vars, visible
  <2>2. LiveHasSnapshot'
    BY <2>1 DEF LiveHasSnapshot, visible
  <2>3. \A f \in CellsOf("Book") \cup CellsOf("Flow") :
          value'[f] = value[f] /\ (f \in observed' => f \in observed)
    BY <1>1, <1>4, ContextCell, ContextObserved
  <2> QED
    BY <2>1, <2>2, <2>3, QuietStepKeepsBookCells
<1>5. CASE Refused
  <2>1. LiveHasSnapshot'
    BY <1>5 DEF Refused, LiveHasSnapshot, visible
  <2> QED
    BY <1>5, <2>1, QuietStepKeepsBookCells DEF Refused, outputs
<1> QED
  BY <1>2, <1>3, <1>4, <1>5, StepKinds

LEMMA InitBookCells == ExtractorInit => BookCellsInv
<1> SUFFICES ASSUME ExtractorInit
             PROVE  BookCellsInv
  OBVIOUS
<1>1. \A f \in Cells : value[f] = NaN /\ source[f] = None
  BY DEF ExtractorInit
<1> QED
  BY <1>1 DEF ExtractorInit, Init, BookCellsInv, LiveHasSnapshot, BookCellsFollowBook,
              FlowCellsAreOfAppliedDeltas, CellsOf

(* The cells of the book show what the book shows, whatever it refused or  *)
(* kept for later, and nothing before its first snapshot.                  *)
THEOREM BookCellsStayWithBook == ExtractorSpec => []BookCellsFollowBook
<1>1. BookCellsInv => BookCellsFollowBook
  BY DEF BookCellsInv
<1> QED
  BY <1>1, InitBookCells, NextBookCells, PTL DEF ExtractorSpec

(* The cells of the flow show that of the last applied delta, and are never *)
(* marked as observed when the book has none.                               *)
THEOREM FlowCellsStayOfAppliedDeltas == ExtractorSpec => []FlowCellsAreOfAppliedDeltas
<1>1. BookCellsInv => FlowCellsAreOfAppliedDeltas
  BY DEF BookCellsInv
<1> QED
  BY <1>1, InitBookCells, NextBookCells, PTL DEF ExtractorSpec

-----------------------------------------------------------------------------
(* A call that ends in an error leaves no trace in the cells, their marks   *)
(* and sources, the watermarks and what the book shows.                     *)
THEOREM RejectionsNeverShow == ExtractorSpec => RejectionsDoNotShow
<1>1. ASSUME [ExtractorNext]_extractorVars
      PROVE  [reply' \notin {"Accepted", "Ok"}
                => UNCHANGED <<outputs, watermarks, visible>>]_extractorVars
  <2>1. ASSUME NEW e \in FiniteEvents, NEW shown \in BOOLEAN,
               AcceptsMarketEvent(e) \/ AcceptsBookEvent(e, shown)
        PROVE  reply' = "Accepted"
    BY <2>1 DEF AcceptsMarketEvent, AcceptsBookEvent, Accept
  <2>2. ASSUME NEW u \in ContextUpdates, UpdateContext(u)
        PROVE  reply' = "Ok"
    BY <2>2 DEF UpdateContext
  <2>3. CASE Refused
    BY <2>3 DEF Refused
  <2> QED
    BY <1>1, <2>1, <2>2, <2>3, StepKinds
<1> QED
  BY <1>1, PTL DEF ExtractorSpec, RejectionsDoNotShow

-----------------------------------------------------------------------------
(* Rolling sums. *)

Bucket == [index : Int, value : Int]

-----------------------------------------------------------------------------
(* Buckets and time. *)

LEMMA DurationType ==
  ASSUME NEW w \in Windows
  PROVE  Duration(w) \in Nat /\ Aggregation <= Duration(w)
<1>1. Aggregation \in Nat /\ Periods[w] \in Nat /\ 1 <= Periods[w]
  BY WindowParameters
<1>2. 1 * Aggregation <= Periods[w] * Aggregation
  BY <1>1, ProductMonotonic
<1>3. Periods[w] * Aggregation \in Nat
  BY <1>1
<1> QED
  BY <1>1, <1>2, <1>3 DEF Duration

LEMMA BucketType ==
  ASSUME NEW now \in Int
  PROVE  BucketOf(now) \in Int
BY WindowParameters, QuotientBounds DEF BucketOf

LEMMA BucketMonotonic ==
  ASSUME NEW s \in Int, NEW t \in Int, s <= t
  PROVE  BucketOf(s) <= BucketOf(t)
BY WindowParameters, QuotientMonotonic DEF BucketOf

(* Expired once, expired for good, and so is all that is older. *)
LEMMA ExpiryMonotonic ==
  ASSUME NEW w \in Windows, NEW a \in Int, NEW b \in Int, a <= b,
         NEW s \in Int, NEW t \in Int, s <= t, Expired(b, w, s)
  PROVE  Expired(a, w, t)
<1>1. a * Aggregation <= b * Aggregation
  BY WindowParameters, ProductMonotonic
<1>2. a * Aggregation \in Int /\ b * Aggregation \in Int
  BY WindowParameters
<1> QED
  BY <1>1, <1>2, DurationType DEF Expired

(* The current bucket is in every window. *)
LEMMA CurrentIsInWindow ==
  ASSUME NEW w \in Windows, NEW now \in Int
  PROVE  ~ Expired(BucketOf(now), w, now)
<1> DEFINE b == BucketOf(now)
<1>1. Aggregation \in Nat \ {0}
  BY WindowParameters
<1>2. b \in Int /\ now < (b + 1) * Aggregation
  BY <1>1, QuotientBounds DEF BucketOf
<1> HIDE DEF b
<1>3. (b + 1) * Aggregation = b * Aggregation + Aggregation /\ b * Aggregation \in Int
  BY <1>1, <1>2
<1> QED
  BY <1>1, <1>2, <1>3, DurationType DEF Expired, b

(* A bucket as many buckets back as a window is long has left it. *)
LEMMA AgedIsExpired ==
  ASSUME NEW w \in Windows, NEW now \in Int, NEW b \in Int,
         b + Periods[w] <= BucketOf(now)
  PROVE  Expired(b, w, now)
<1> DEFINE c == BucketOf(now)
<1>1. Aggregation \in Nat \ {0} /\ Periods[w] \in Nat
  BY WindowParameters
<1>2. c \in Int /\ c * Aggregation <= now
  BY <1>1, QuotientBounds DEF BucketOf
<1>3. (b + Periods[w]) * Aggregation <= c * Aggregation
  BY <1>1, <1>2, ProductMonotonic
<1>4. (b + Periods[w]) * Aggregation = b * Aggregation + Duration(w)
  BY <1>1 DEF Duration
<1>5. b * Aggregation \in Int /\ c * Aggregation \in Int
  BY <1>1, <1>2
<1> QED
  BY <1>2, <1>3, <1>4, <1>5, DurationType DEF Expired

-----------------------------------------------------------------------------
(* The ring and its offsets.  The buckets of the ring have increasing       *)
(* numbers, none of them of a time yet to come.                             *)
RingTypes ==
  /\ data \in Seq(Bucket)
  /\ frontOffset \in [Windows -> Nat]
  /\ firstTimestamp \in Times \cup {Never}
  /\ lastObserved \in Times \cup {Never}

BucketsAreSpaced ==
  \A i, j \in 1 .. Len(data) : i < j => data[i].index + (j - i) <= data[j].index

RingIsOfThePast == \A i \in 1 .. Len(data) : data[i].index <= BucketOf(lastObserved)

OffsetsAreWithin == \A w \in Windows : frontOffset[w] <= Len(data)

RingInv ==
  RingTypes /\ BucketsAreSpaced /\ RingIsOfThePast /\ OffsetsAreWithin /\ OffsetsPartTheRing

(* An offset that parts the ring at a time. *)
Parts(o, w, now) ==
  /\ o \in 0 .. Len(data)
  /\ \A i \in 1 .. Len(data) : i <= o <=> Expired(data[i].index, w, now)

LEMMA RingFacts ==
  ASSUME RingTypes
  PROVE  /\ Len(data) \in Nat
         /\ \A i \in 1 .. Len(data) :
              data[i] \in Bucket /\ data[i].index \in Int /\ data[i].value \in Int
         /\ lastObserved \in Int /\ firstTimestamp \in Int
         /\ data = <<>> <=> Len(data) = 0
<1>1. data \in Seq(Bucket)
  BY DEF RingTypes
<1>2. Len(data) \in Nat /\ (data = <<>> <=> Len(data) = 0)
  BY <1>1, LenProperties, EmptySeq
<1>3. \A i \in 1 .. Len(data) : data[i] \in Bucket
  BY <1>1, ElementOfSeq
<1> QED
  BY <1>2, <1>3, WindowParameters DEF RingTypes, Bucket

LEMMA OffsetsPart ==
  ASSUME RingInv, NEW w \in Windows
  PROVE  Parts(frontOffset[w], w, lastObserved)
BY RingFacts DEF RingInv, RingTypes, OffsetsAreWithin, OffsetsPartTheRing, Parts

(* Where the loop of expire_old_buckets stops. *)
LEMMA OffsetAtParts ==
  ASSUME RingInv, NEW w \in Windows, NEW now \in Int, lastObserved <= now
  PROVE  OffsetAt(w, now) \in frontOffset[w] .. Len(data) /\ Parts(OffsetAt(w, now), w, now)
<1> DEFINE n == Len(data)
           f == frontOffset[w]
           Gone(i) == Expired(data[i].index, w, now)
           Stops == {o \in f .. n : o < n => ~ Gone(o + 1)}
           Stop(o) == /\ \A i \in f + 1 .. o : Gone(i)
                      /\ o < n => ~ Gone(o + 1)
<1>1. n \in Nat /\ f \in 0 .. n /\ \A i \in 1 .. n : data[i].index \in Int
  BY RingFacts DEF RingInv, RingTypes, OffsetsAreWithin
<1>2. \E o \in f .. n : Stop(o)
  <2>1. Stops \in SUBSET Nat /\ n \in Stops
    BY <1>1
  <2>2. PICK o \in Stops : \A p \in Stops : o <= p
    <3> HIDE DEF Stops
    <3> QED BY <2>1, LeastElement
  <2>3. ASSUME NEW i \in f + 1 .. o
        PROVE  Gone(i)
    <3>1. i - 1 \in f .. n /\ i - 1 < o /\ o \in f .. n
      BY <1>1
    <3>2. i - 1 \notin Stops
      BY <2>2, <3>1
    <3> QED
      BY <1>1, <3>1, <3>2
  <2> QED
    BY <2>2, <2>3
<1>3. OffsetAt(w, now) \in f .. n /\ Stop(OffsetAt(w, now))
  BY <1>2 DEF OffsetAt
<1> DEFINE o == OffsetAt(w, now)
<1>4. ASSUME NEW i \in 1 .. n
      PROVE  i <= o <=> Gone(i)
  <2>1. CASE i <= f
    <3>1. Expired(data[i].index, w, lastObserved)
      BY <2>1, OffsetsPart DEF Parts
    <3>2. Gone(i)
      BY <1>1, <3>1, RingFacts, ExpiryMonotonic DEF RingInv
    <3> QED
      BY <1>1, <1>3, <2>1, <3>2
  <2>2. CASE f < i /\ i <= o
    BY <1>1, <1>3, <2>2
  <2>3. CASE o < i
    <3>1. o + 1 \in 1 .. n /\ ~ Gone(o + 1)
      BY <1>1, <1>3, <2>3
    <3>2. data[o + 1].index <= data[i].index
      <4>1. CASE o + 1 = i
        BY <1>1, <4>1
      <4>2. CASE o + 1 < i
        <5>1. data[o + 1].index + (i - (o + 1)) <= data[i].index
          BY <3>1, <4>2 DEF RingInv, BucketsAreSpaced
        <5>2. /\ data[o + 1].index \in Int /\ data[i].index \in Int
              /\ i - (o + 1) \in Nat
          BY <1>1, <1>3, <3>1, <4>2
        <5> HIDE DEF o
        <5> QED BY <5>1, <5>2
      <4> QED
        BY <1>1, <1>3, <2>3, <4>1, <4>2
    <3>3. ~ Gone(i)
      <4>1. data[o + 1].index \in Int /\ data[i].index \in Int
        BY <1>1, <3>1
      <4>2. Gone(i) => Gone(o + 1)
        <5> HIDE DEF o
        <5> QED
          BY <3>2, <4>1, ExpiryMonotonic
      <4> HIDE DEF Gone
      <4> QED
        BY <3>1, <4>2
    <3>4. ~ (i <= o)
      BY <1>1, <1>3, <2>3
    <3> HIDE DEF o, Gone
    <3> QED
      BY <3>3, <3>4
  <2> QED
    BY <1>1, <1>3, <2>1, <2>2, <2>3
<1> QED
  BY <1>1, <1>3, <1>4 DEF Parts

(* What update finds when it has let the time pass. *)
LEMMA OffsetAfterParts ==
  ASSUME RingInv, NEW w \in Windows, NEW now \in Int, InTime(now)
  PROVE  Parts(OffsetAfter(w, now), w, now)
<1>1. CASE lastObserved = now
  BY <1>1, OffsetsPart DEF OffsetAfter
<1>2. CASE lastObserved # now
  BY <1>2, OffsetAtParts DEF OffsetAfter, InTime
<1> QED
  BY <1>1, <1>2

(* The oldest bucket of a full ring has left every window by the time of a  *)
(* value that goes to a new one.                                            *)
LEMMA OldestOfFullIsExpired ==
  ASSUME RingInv, NEW w \in Windows, NEW now \in Int, InTime(now),
         ~ SameBucket(now), RingFull
  PROVE  Expired(data[1].index, w, now)
<1> DEFINE n == Len(data)
<1>1. n = Capacity /\ Capacity \in Nat \ {0} /\ Periods[w] \in Nat /\ Periods[w] + 1 <= Capacity
  BY WindowParameters DEF RingFull
<1>2. data # <<>> /\ data[1].index \in Int /\ data[n].index \in Int /\ lastObserved \in Int
  BY <1>1, RingFacts DEF RingInv
<1>3. data[1].index + (n - 1) <= data[n].index
  BY <1>1, <1>2 DEF RingInv, BucketsAreSpaced
<1>4. data[n].index <= BucketOf(lastObserved) /\ BucketOf(lastObserved) <= BucketOf(now)
  <2>1. n \in 1 .. n
    BY <1>1
  <2> QED
    BY <1>2, <2>1, BucketMonotonic DEF RingInv, RingIsOfThePast, InTime
<1>5. data[n].index # BucketOf(now)
  BY <1>2 DEF SameBucket
<1>6. BucketOf(now) \in Int /\ BucketOf(lastObserved) \in Int
  BY <1>2, BucketType
<1>7. data[1].index + Periods[w] <= BucketOf(now)
  BY <1>1, <1>2, <1>3, <1>4, <1>5, <1>6
<1> QED
  BY <1>2, <1>7, AgedIsExpired

-----------------------------------------------------------------------------
(* The ring after a step. *)

LEMMA ObserveKeepsRing ==
  ASSUME RingInv, NEW now \in Times, Observe(now)
  PROVE  RingInv'
<1>1. CASE lastObserved = now
  BY <1>1 DEF Observe, sumVars, RingInv, RingTypes, BucketsAreSpaced, RingIsOfThePast,
              OffsetsAreWithin, OffsetsPartTheRing
<1>2. CASE lastObserved # now
  <2>1. /\ lastObserved' = now
        /\ frontOffset' = [w \in Windows |-> OffsetAt(w, now)]
        /\ data' = data /\ firstTimestamp' = firstTimestamp
        /\ lastObserved <= now
    BY <1>2 DEF Observe, InTime
  <2>2. now \in Int /\ lastObserved \in Int /\ Len(data) \in Nat
    BY WindowParameters, RingFacts DEF RingInv
  <2>3. \A w \in Windows : frontOffset'[w] \in 0 .. Len(data) /\ Parts(frontOffset'[w], w, now)
    BY <2>1, <2>2, OffsetAtParts DEF Parts
  <2>4. RingTypes'
    BY <2>1, <2>2, <2>3 DEF RingInv, RingTypes, Parts
  <2>5. BucketsAreSpaced' /\ OffsetsAreWithin'
    BY <2>1, <2>2, <2>3 DEF RingInv, BucketsAreSpaced, OffsetsAreWithin
  <2>6. RingIsOfThePast'
    <3>1. BucketOf(lastObserved) <= BucketOf(now)
      BY <2>1, <2>2, BucketMonotonic
    <3>2. BucketOf(lastObserved) \in Int /\ BucketOf(now) \in Int
      BY <2>2, BucketType
    <3>3. \A i \in 1 .. Len(data) : data[i].index <= BucketOf(now)
      BY <3>1, <3>2, RingFacts DEF RingInv, RingIsOfThePast
    <3> QED
      BY <2>1, <3>3 DEF RingIsOfThePast
  <2>7. OffsetsPartTheRing'
    BY <2>1, <2>3 DEF RingInv, OffsetsPartTheRing, Parts
  <2> QED
    BY <2>4, <2>5, <2>6, <2>7 DEF RingInv
<1> QED
  BY <1>1, <1>2

(* How update changes the ring: it adds to the last bucket, or appends one *)
(* to the ring, or to what an eviction leaves of it.                       *)
Evicts(now) == ~ SameBucket(now) /\ RingFull

Shift(now) == IF Evicts(now) THEN 1 ELSE 0

LEMMA SameBucketAfterUpdate ==
  ASSUME RingInv, NEW now \in Times, NEW v \in Values, Update(v, now), SameBucket(now)
  PROVE  /\ data' \in Seq(Bucket)
         /\ Len(data) \in 1 .. Len(data) /\ data[Len(data)].index = BucketOf(now)
         /\ Len(data') = Len(data)
         /\ data'[Len(data)].index = data[Len(data)].index
         /\ data'[Len(data)].value = data[Len(data)].value + v
         /\ \A i \in 1 .. Len(data) - 1 : data'[i] = data[i]
<1> DEFINE n == Len(data)
           e == [data[n] EXCEPT !.value = @ + v]
<1>1. n \in Nat /\ data \in Seq(Bucket) /\ v \in Int /\ (data = <<>> <=> n = 0)
  BY WindowParameters, RingFacts DEF RingInv, RingTypes
<1>2. n \in 1 .. n /\ data[n].index = BucketOf(now) /\ data[n] \in Bucket
  BY <1>1, RingFacts DEF SameBucket, RingInv
<1>3. e \in Bucket /\ e = [index |-> BucketOf(now), value |-> data[n].value + v]
  BY <1>1, <1>2 DEF Bucket
<1>4. data' = [data EXCEPT ![n] = e]
  BY DEF Update
<1> HIDE DEF e
<1>5. /\ data' \in Seq(Bucket) /\ Len(data') = n
      /\ \A i \in 1 .. n : data'[i] = IF i = n THEN e ELSE data[i]
  BY <1>1, <1>2, <1>3, <1>4, ExceptSeq
<1> QED
  BY <1>1, <1>2, <1>3, <1>5

LEMMA NewBucketAfterUpdate ==
  ASSUME RingInv, NEW now \in Times, NEW v \in Values, Update(v, now), ~ SameBucket(now)
  PROVE  /\ data' \in Seq(Bucket)
         /\ Shift(now) <= Len(data)
         /\ Len(data') = Len(data) - Shift(now) + 1
         /\ \A i \in 1 .. Len(data') - 1 : data'[i] = data[i + Shift(now)]
         /\ data'[Len(data')].index = BucketOf(now)
         /\ data'[Len(data')].value = v
<1> DEFINE n == Len(data)
           bucket == [index |-> BucketOf(now), value |-> v]
<1>1. n \in Nat /\ data \in Seq(Bucket) /\ now \in Int /\ v \in Int /\ (data = <<>> <=> n = 0)
  BY WindowParameters, RingFacts DEF RingInv, RingTypes
<1>2. bucket \in Bucket
  BY <1>1, BucketType DEF Bucket
<1>3. CASE ~ RingFull
  <2>1. data' = Append(data, bucket) /\ Shift(now) = 0
    BY <1>3 DEF Update, Shift, Evicts
  <2> HIDE DEF bucket
  <2>2. /\ data' \in Seq(Bucket) /\ Len(data') = n + 1 /\ data'[n + 1] = bucket
        /\ \A i \in 1 .. n : data'[i] = data[i]
    BY <1>1, <1>2, <2>1, AppendProperties
  <2> QED
    BY <1>1, <2>1, <2>2 DEF bucket
<1>4. CASE RingFull
  <2>1. data' = Append(Tail(data), bucket) /\ Shift(now) = 1
    BY <1>4 DEF Update, Shift, Evicts
  <2>2. n \in Nat \ {0} /\ data # <<>>
    BY <1>1, <1>4, WindowParameters DEF RingFull
  <2>3. /\ Tail(data) \in Seq(Bucket) /\ Len(Tail(data)) = n - 1
        /\ \A i \in 1 .. n - 1 : Tail(data)[i] = data[i + 1]
    BY <1>1, <2>2, HeadTailProperties
  <2> HIDE DEF bucket
  <2>4. /\ data' \in Seq(Bucket) /\ Len(data') = n /\ data'[n] = bucket
        /\ \A i \in 1 .. n - 1 : data'[i] = data[i + 1]
    BY <1>1, <1>2, <2>1, <2>2, <2>3, AppendProperties
  <2>5. n - Shift(now) + 1 = n /\ Shift(now) <= n
    BY <2>1, <2>2
  <2> QED
    BY <2>1, <2>4, <2>5 DEF bucket
<1> QED
  BY <1>3, <1>4

LEMMA OffsetsAfterUpdate ==
  ASSUME RingInv, NEW now \in Times, NEW v \in Values, Update(v, now), NEW w \in Windows
  PROVE  /\ OffsetAfter(w, now) \in Shift(now) .. Len(data)
         /\ Parts(OffsetAfter(w, now), w, now)
         /\ frontOffset'[w] = OffsetAfter(w, now) - Shift(now)
<1> DEFINE o == OffsetAfter(w, now)
<1>1. now \in Int /\ Len(data) \in Nat /\ InTime(now)
  BY WindowParameters, RingFacts DEF RingInv, Update
<1>2. Parts(o, w, now) /\ o \in 0 .. Len(data)
  BY <1>1, OffsetAfterParts DEF Parts
<1>3. frontOffset'[w] = IF Evicts(now) THEN OffsetAfterEviction(o) ELSE o
  BY DEF Update, Evicts
<1>4. CASE Evicts(now)
  <2>1. Expired(data[1].index, w, now) /\ Len(data) # 0
    BY <1>1, <1>4, WindowParameters, OldestOfFullIsExpired DEF Evicts, RingFull
  <2>2. 1 <= o
    BY <1>1, <1>2, <2>1 DEF Parts
  <2> HIDE DEF o
  <2> QED
    BY <1>1, <1>2, <1>3, <1>4, <2>2 DEF Shift, OffsetAfterEviction, o
<1>5. CASE ~ Evicts(now)
  BY <1>1, <1>2, <1>3, <1>5 DEF Shift
<1> QED
  BY <1>4, <1>5

LEMMA UpdateKeepsRing ==
  ASSUME RingInv, NEW now \in Times, NEW v \in Values, Update(v, now)
  PROVE  RingInv'
<1> DEFINE n == Len(data)
           m == Len(data')
           s == Shift(now)
           b == BucketOf(now)
<1>1. /\ n \in Nat /\ now \in Int /\ b \in Int /\ s \in {0, 1} /\ n <= Capacity
      /\ Capacity \in Nat \ {0} /\ lastObserved \in Int /\ lastObserved <= now
      /\ \A i \in 1 .. n : data[i].index \in Int
  BY WindowParameters, RingFacts, BucketType
     DEF RingInv, OffsetsPartTheRing, Shift, Update, InTime
<1>2. /\ lastObserved' = now
      /\ firstTimestamp' \in Times \cup {Never}
      /\ frontOffset' = [w \in Windows |-> frontOffset'[w]]
  BY DEF Update, RingInv, RingTypes
<1>3. BucketOf(lastObserved) <= b /\ BucketOf(lastObserved) \in Int
  BY <1>1, BucketMonotonic, BucketType
<1>4. \A i \in 1 .. n : data[i].index <= b
  <2>1. \A i \in 1 .. n : data[i].index <= BucketOf(lastObserved)
    BY DEF RingInv, RingIsOfThePast
  <2> HIDE DEF b
  <2> QED BY <1>1, <1>3, <2>1
<1>5. ~ SameBucket(now) => \A i \in 1 .. n : data[i].index < b
  <2>1. SUFFICES ASSUME ~ SameBucket(now), NEW i \in 1 .. n
                 PROVE  data[i].index < b
    OBVIOUS
  <2>2. data[n].index # b /\ n \in 1 .. n
    BY <1>1, <2>1, RingFacts DEF SameBucket, RingInv
  <2>3. i < n => data[i].index + (n - i) <= data[n].index
    BY <2>2 DEF RingInv, BucketsAreSpaced
  <2> HIDE DEF b, n
  <2> QED BY <1>1, <1>4, <2>2, <2>3
<1>6. CASE SameBucket(now)
  <2>1. s = 0
    BY <1>6 DEF Shift, Evicts
  <2>2. m = n /\ \A i \in 1 .. n : data'[i].index = data[i].index
    <3>1. /\ m = n /\ n \in 1 .. n /\ data'[n].index = data[n].index
          /\ \A i \in 1 .. n - 1 : data'[i] = data[i]
      BY <1>6, SameBucketAfterUpdate
    <3> HIDE DEF m, n
    <3> QED BY <1>1, <3>1
  <2>3. RingTypes' /\ OffsetsAreWithin'
    <3>1. \A w \in Windows : frontOffset'[w] \in 0 .. n
      BY <1>1, <2>1, OffsetsAfterUpdate
    <3>2. data' \in Seq(Bucket)
      BY <1>6, SameBucketAfterUpdate
    <3> QED
      BY <1>1, <1>2, <2>2, <3>1, <3>2 DEF RingTypes, OffsetsAreWithin
  <2>4. BucketsAreSpaced' /\ RingIsOfThePast'
    BY <1>2, <1>4, <2>2 DEF RingInv, BucketsAreSpaced, RingIsOfThePast
  <2>5. OffsetsPartTheRing'
    <3>1. ASSUME NEW w \in Windows, NEW i \in 1 .. n
          PROVE  i <= frontOffset'[w] <=> Expired(data[i].index, w, now)
      BY <1>1, <2>1, OffsetsAfterUpdate DEF Parts
    <3> QED
      BY <1>1, <1>2, <2>2, <3>1 DEF OffsetsPartTheRing
  <2> QED
    BY <2>3, <2>4, <2>5 DEF RingInv
<1>7. CASE ~ SameBucket(now)
  <2>1. /\ data' \in Seq(Bucket) /\ s <= n /\ m = n - s + 1
        /\ \A i \in 1 .. m - 1 : data'[i] = data[i + s]
        /\ data'[m].index = b
    BY <1>7, NewBucketAfterUpdate
  <2>2. m \in Nat \ {0} /\ \A i \in 1 .. m - 1 : i + s \in 1 .. n
    BY <1>1, <2>1
  <2>3. \A w \in Windows : frontOffset'[w] \in 0 .. n - s
    BY <1>1, <2>1, OffsetsAfterUpdate
  <2>4. RingTypes' /\ OffsetsAreWithin'
    <3> HIDE DEF m, n, s
    <3>1. \A w \in Windows : frontOffset'[w] \in Nat /\ frontOffset'[w] <= m
      BY <1>1, <2>1, <2>2, <2>3
    <3> QED
      BY <1>2, <2>1, <3>1 DEF RingTypes, OffsetsAreWithin, m
  <2>5. BucketsAreSpaced'
    <3>1. ASSUME NEW i \in 1 .. m, NEW j \in 1 .. m, i < j
          PROVE  data'[i].index + (j - i) <= data'[j].index
      <4>1. i \in 1 .. m - 1 /\ i + s \in 1 .. n /\ data'[i] = data[i + s]
        BY <2>1, <2>2, <3>1
      <4>2. CASE j = m
        <5>1. data[i + s].index + (n - (i + s)) <= data[n].index
          <6>1. CASE i + s = n
            BY <1>1, <4>1, <6>1
          <6>2. CASE i + s < n
            BY <1>1, <4>1, <6>2 DEF RingInv, BucketsAreSpaced
          <6> QED
            BY <1>1, <4>1, <6>1, <6>2
        <5>2. data[n].index < b /\ n \in 1 .. n
          BY <1>1, <1>5, <1>7, <4>1
        <5>3. data'[j].index = b /\ data'[i].index = data[i + s].index
          BY <2>1, <4>1, <4>2
        <5>4. data[n].index \in Int /\ data[i + s].index \in Int
          BY <1>1, <4>1, <5>2
        <5>5. j - i = (n - (i + s)) + 1
          <6>1. n \in Int /\ s \in Int /\ i \in Int /\ j = (n - s) + 1
            BY <1>1, <2>1, <4>1, <4>2
          <6> HIDE DEF m, n, s, b
          <6> QED BY <6>1
        <5>6. n - (i + s) \in Int
          BY <1>1, <4>1
        <5> HIDE DEF m, n, s, b
        <5> QED BY <1>1, <5>1, <5>2, <5>3, <5>4, <5>5, <5>6
      <4>3. CASE j < m
        <5>1. j \in 1 .. m - 1 /\ j + s \in 1 .. n /\ data'[j] = data[j + s]
          BY <2>1, <2>2, <3>1, <4>3
        <5>2. data[i + s].index + ((j + s) - (i + s)) <= data[j + s].index
          <6>1. i + s < j + s
            BY <1>1, <3>1, <4>1, <5>1
          <6> QED
            BY <4>1, <5>1, <6>1 DEF RingInv, BucketsAreSpaced
        <5> HIDE DEF m, n, s
        <5> QED BY <1>1, <4>1, <5>1, <5>2
      <4> QED
        BY <2>2, <3>1, <4>2, <4>3
    <3> QED
      BY <3>1 DEF BucketsAreSpaced
  <2>6. RingIsOfThePast'
    <3>1. ASSUME NEW i \in 1 .. m
          PROVE  data'[i].index <= b
      <4>1. CASE i = m
        BY <1>1, <2>1, <4>1
      <4>2. CASE i < m
        <5>1. i \in 1 .. m - 1 /\ i + s \in 1 .. n
          BY <2>2, <4>2
        <5> QED
          BY <1>4, <2>1, <5>1
      <4> QED
        BY <2>2, <4>1, <4>2
    <3>2. BucketOf(lastObserved)' = b
      BY <1>2 DEF BucketOf
    <3> QED
      BY <3>1, <3>2 DEF RingIsOfThePast
  <2>7. OffsetsPartTheRing'
    <3>1. m <= Capacity
      BY <1>1, <1>7, <2>1 DEF Shift, Evicts, RingFull
    <3>2. ASSUME NEW w \in Windows, NEW i \in 1 .. m
          PROVE  i <= frontOffset'[w] <=> Expired(data'[i].index, w, now)
      <4> DEFINE o == OffsetAfter(w, now)
      <4>1. o \in s .. n /\ Parts(o, w, now) /\ frontOffset'[w] = o - s
        BY OffsetsAfterUpdate
      <4>2. CASE i = m
        <5>1. ~ Expired(data'[i].index, w, now)
          BY <1>1, <2>1, <4>2, CurrentIsInWindow
        <5> HIDE DEF m, n, s, o
        <5> QED BY <1>1, <2>1, <4>1, <4>2, <5>1
      <4>3. CASE i < m
        <5>1. i + s \in 1 .. n /\ data'[i] = data[i + s]
          BY <2>1, <2>2, <4>3
        <5>2. i + s <= o <=> Expired(data[i + s].index, w, now)
          BY <4>1, <5>1 DEF Parts
        <5> HIDE DEF m, n, s, o
        <5> QED BY <1>1, <4>1, <5>1, <5>2
      <4> QED
        BY <2>2, <4>2, <4>3
    <3> QED
      BY <1>2, <3>1, <3>2 DEF OffsetsPartTheRing
  <2> QED
    BY <2>4, <2>5, <2>6, <2>7 DEF RingInv
<1> QED
  BY <1>6, <1>7

LEMMA RingStutters ==
  ASSUME RingInv, UNCHANGED sumVars
  PROVE  RingInv'
BY DEF sumVars, RingInv, RingTypes, BucketsAreSpaced, RingIsOfThePast,
       OffsetsAreWithin, OffsetsPartTheRing

LEMMA InitialRing ==
  ASSUME SumInit
  PROVE  RingInv
<1>1. data \in Seq(Bucket) /\ Len(data) = 0
  BY EmptySeq DEF SumInit
<1> QED
  BY <1>1, WindowParameters
     DEF SumInit, RingInv, RingTypes, BucketsAreSpaced, RingIsOfThePast,
         OffsetsAreWithin, OffsetsPartTheRing

LEMMA RingInvariant == SumSpec => []RingInv
<1>1. SumInit => RingInv
  BY InitialRing
<1>2. RingInv /\ [SumNext]_sumVars => RingInv'
  BY ObserveKeepsRing, UpdateKeepsRing, RingStutters DEF SumNext
<1> QED
  BY <1>1, <1>2, PTL DEF SumSpec

(* Every offset parts the ring, whatever the windows, the capacity and the *)
(* times, and whichever of observe and update lets the time pass.          *)
THEOREM OffsetsAlwaysPart == SumSpec => []OffsetsPartTheRing
<1>1. RingInv => OffsetsPartTheRing
  BY DEF RingInv
<1> QED
  BY <1>1, RingInvariant, PTL

(* The assertion front_offset > 0 of update never fails: an evicted bucket *)
(* has left every window.                                                  *)
THEOREM EvictionsAreOfExpired == SumSpec => EvictsOnlyExpired
<1>1. ASSUME RingInv, NEW now \in Times, NEW v \in Values,
             Update(v, now), ~ SameBucket(now), RingFull, NEW w \in Windows
      PROVE  OffsetAfter(w, now) > 0
  <2>1. OffsetAfter(w, now) \in 1 .. Len(data)
    BY <1>1, OffsetsAfterUpdate DEF Shift, Evicts
  <2> QED
    BY <2>1, <1>1, RingFacts DEF RingInv
<1>2. RingInv /\ [SumNext]_sumVars
        => [\A now \in Times, v \in Values :
              Update(v, now) /\ ~ SameBucket(now) /\ RingFull
                => \A w \in Windows : OffsetAfter(w, now) > 0]_sumVars
  BY <1>1
<1> QED
  BY <1>2, RingInvariant, PTL DEF SumSpec, EvictsOnlyExpired

-----------------------------------------------------------------------------
(* The sums.  What was received in a bucket is in the ring, or has left    *)
(* every window, and a running sum counts the buckets its window reaches.  *)
Reached(w, now) == {b \in Buckets : ~ Expired(b, w, now)}

HasLeft(b) ==
  b < BucketOf(lastObserved) /\ \A w \in Windows : Expired(b, w, lastObserved)

RingHolds(b) == \E i \in 1 .. Len(data) : data[i].index = b

RingIsOfReceived ==
  \A i \in 1 .. Len(data) :
    data[i].index \in Buckets /\ received[data[i].index] = data[i].value

NothingIsLost ==
  \A b \in Buckets : received[b] = 0 \/ RingHolds(b) \/ HasLeft(b)

ReceivedInv ==
  /\ RingInv
  /\ received \in [Buckets -> Int]
  /\ ready \in [Windows -> BOOLEAN]
  /\ RingIsOfReceived
  /\ NothingIsLost
  /\ SumsAreOfReceived

LEMMA BucketsAreFinite == IsFiniteSet(Buckets)
<1> DEFINE f == [t \in Times |-> BucketOf(t)]
<1>1. f \in Surjection(Times, Buckets)
  BY DEF Surjection, Buckets
<1> QED
  BY <1>1, WindowParameters, FS_Surjection

LEMMA BucketsAreNumbers == Buckets \subseteq Int
BY WindowParameters, BucketType DEF Buckets

LEMMA ReachedType ==
  ASSUME NEW w, NEW now
  PROVE  Reached(w, now) \subseteq Buckets /\ IsFiniteSet(Reached(w, now))
BY BucketsAreFinite, FS_Subset DEF Reached

(* What a call takes from a sum is all that leaves its window. *)
LEMMA SumAtIsOfReached ==
  ASSUME ReceivedInv, NEW w \in Windows, NEW now \in Int, lastObserved <= now
  PROVE  SumAt(w, now) = SumFunctionOnSet(received, Reached(w, now))
<1> DEFINE n == Len(data)
           f == frontOffset[w]
           o == OffsetAt(w, now)
           A == Reached(w, lastObserved)
           B == Reached(w, now)
           Sum(S) == SumFunctionOnSet(received, S)
<1>1. /\ n \in Nat /\ lastObserved \in Int /\ RingInv
      /\ \A i \in 1 .. n : data[i].index \in Int /\ data[i].value \in Int
  BY RingFacts DEF ReceivedInv, RingInv
<1>2. o \in f .. n /\ f \in 0 .. n /\ Parts(o, w, now) /\ Parts(f, w, lastObserved)
  BY <1>1, OffsetAtParts, OffsetsPart DEF Parts
<1>3. A \subseteq Buckets /\ B \subseteq Buckets /\ IsFiniteSet(A) /\ IsFiniteSet(B)
  BY ReachedType
<1>4. \A b \in Buckets : b \in Int /\ received[b] \in Int
  BY BucketsAreNumbers DEF ReceivedInv
<1>5. \A b \in Buckets : Expired(b, w, lastObserved) => Expired(b, w, now)
  BY <1>1, <1>4, ExpiryMonotonic
<1>6. sums[w] = Sum(A)
  <2>1. InWindow(w) = A
    BY DEF InWindow, Reached
  <2> QED
    BY <2>1 DEF ReceivedInv, SumsAreOfReceived
<1>7. \A b \in Buckets :
        \/ received[b] = 0
        \/ \E i \in 1 .. n : data[i].index = b
        \/ Expired(b, w, lastObserved)
  BY DEF ReceivedInv, NothingIsLost, RingHolds, HasLeft
<1>8. CASE o = n
  <2>1. \A b \in B : received[b] = 0
    <3>1. SUFFICES ASSUME NEW b \in B, received[b] # 0
                   PROVE  FALSE
      OBVIOUS
    <3>2. b \in Buckets /\ ~ Expired(b, w, now)
      BY DEF Reached
    <3>3. PICK i \in 1 .. n : data[i].index = b
      BY <1>5, <1>7, <3>1, <3>2
    <3> HIDE DEF B
    <3>4. i <= o
      BY <1>8
    <3> QED
      BY <3>2, <3>3, <3>4, <1>2 DEF Parts
  <2>2. Sum(B) = Sum({})
    <3>1. {} \in SUBSET B /\ \A b \in B \ {} : received[b] = 0
      BY <2>1
    <3>2. \A b \in B : received[b] \in Int
      BY <1>3, <1>4
    <3> HIDE DEF B
    <3> QED BY <1>3, <3>1, <3>2, SumOfNonzero
  <2>3. SumAt(w, now) = 0
    BY <1>8 DEF SumAt
  <2> QED
    BY <2>2, <2>3, SumEmpty
<1>9. CASE o # n
  <2> DEFINE I == f + 1 .. o
             g == [k \in I |-> data[k].value]
             h == [k \in I |-> data[k].index]
             D == A \ B
             E == {h[k] : k \in I}
  <2>1. I \subseteq 1 .. n /\ IsFiniteSet(I)
    <3>1. f + 1 \in Int /\ o \in Int
      BY <1>1, <1>2
    <3>2. IsFiniteSet(I)
      BY <3>1, FS_Interval
    <3>3. I \subseteq 1 .. n
      BY <1>1, <1>2
    <3> QED
      BY <3>2, <3>3
  <2>2. D \subseteq Buckets /\ IsFiniteSet(D) /\ B \cap D = {}
    BY <1>3, FS_Subset
  <2>3. A = B \cup D
    <3>1. B \subseteq A
      BY <1>5 DEF Reached
    <3> HIDE DEF A, B
    <3> QED BY <3>1
  <2>4. Sum(A) = Sum(B) + Sum(D)
    <3>1. \A b \in B \cup D : received[b] \in Int
      BY <1>3, <1>4, <2>2
    <3> HIDE DEF A, B, D
    <3> QED BY <1>3, <2>2, <2>3, <3>1, SumUnion
  <2>5. Sum(D) = Sum(E)
    <3>1. E \subseteq D
      <4>1. SUFFICES ASSUME NEW k \in I
                     PROVE  data[k].index \in D
        OBVIOUS
      <4>2. k \in 1 .. n /\ ~ (k <= f) /\ k <= o /\ data[k].index \in Buckets
        BY <1>1, <1>2, <2>1 DEF ReceivedInv, RingIsOfReceived
      <4>3. ~ Expired(data[k].index, w, lastObserved) /\ Expired(data[k].index, w, now)
        BY <1>2, <4>2 DEF Parts
      <4> QED
        BY <4>2, <4>3 DEF Reached
    <3>2. ASSUME NEW b \in D \ E
          PROVE  received[b] = 0
      <4>1. b \in Buckets /\ ~ Expired(b, w, lastObserved) /\ Expired(b, w, now)
        BY DEF Reached
      <4>2. SUFFICES ASSUME NEW i \in 1 .. n, data[i].index = b
                     PROVE  FALSE
        BY <1>7, <4>1
      <4>3. ~ (i <= f) /\ i <= o
        BY <1>2, <4>1, <4>2 DEF Parts
      <4>4. i \in I
        BY <1>1, <1>2, <4>3
      <4> QED
        BY <4>2, <4>4
    <3>3. \A b \in D : received[b] \in Int
      BY <1>4, <2>2
    <3> HIDE DEF D, E
    <3> QED BY <2>2, <3>1, <3>2, <3>3, SumOfNonzero
  <2>6. SumFunctionOnSet(g, I) = Sum(E)
    <3>1. (\A k \in I : g[k] \in Int) /\ (\A k \in I : g[k] = received[h[k]])
      BY <1>1, <2>1 DEF ReceivedInv, RingIsOfReceived
    <3>2. ASSUME NEW i \in I, NEW j \in I, h[i] = h[j]
          PROVE  i = j
      <4>1. i \in 1 .. n /\ j \in 1 .. n /\ data[i].index = data[j].index
        BY <2>1, <3>2
      <4>2. /\ i < j => data[i].index + (j - i) <= data[j].index
            /\ j < i => data[j].index + (i - j) <= data[i].index
        BY <1>1, <4>1 DEF RingInv, BucketsAreSpaced
      <4> QED
        BY <1>1, <4>1, <4>2
    <3>3. h \in [I -> E] /\ \A j \in E : \E i \in I : h[i] = j
      OBVIOUS
    <3> HIDE DEF I, g, h, E
    <3>4. h \in Bijection(I, E)
      BY <3>2, <3>3 DEF Bijection, Injection, Surjection, IsInjective
    <3>5. IsFiniteSet(I)
      BY <2>1
    <3> QED BY ONLY <3>1, <3>4, <3>5, SumReindex
  <2>7. SumAt(w, now) = sums[w] - SumFunctionOnSet(g, I)
    BY <1>9 DEF SumAt, SumOf
  <2>8. Sum(B) \in Int /\ Sum(D) \in Int
    <3>1. (\A b \in B : received[b] \in Int) /\ (\A b \in D : received[b] \in Int)
      BY <1>3, <1>4, <2>2
    <3> HIDE DEF B, D
    <3> QED BY <1>3, <2>2, <3>1, SumType
  <2> HIDE DEF Sum, A, B, D, E, g, I
  <2>9. sums[w] - Sum(D) = Sum(B)
    BY <1>6, <2>4, <2>8
  <2> QED
    BY <2>5, <2>6, <2>7, <2>9 DEF Sum, B
<1> QED
  BY <1>8, <1>9

LEMMA SumAfterIsOfReached ==
  ASSUME ReceivedInv, NEW w \in Windows, NEW now \in Int, InTime(now)
  PROVE  SumAfter(w, now) = SumFunctionOnSet(received, Reached(w, now))
<1>1. CASE lastObserved = now
  <2>1. InWindow(w) = Reached(w, now)
    BY <1>1 DEF InWindow, Reached
  <2> QED
    BY <1>1, <2>1 DEF SumAfter, ReceivedInv, SumsAreOfReceived
<1>2. CASE lastObserved # now
  BY <1>2, SumAtIsOfReached DEF SumAfter, InTime
<1> QED
  BY <1>1, <1>2

-----------------------------------------------------------------------------
(* The sums after a step. *)

LEMMA ExpiryIsForGood ==
  ASSUME RingInv, NEW b \in Int, NEW now \in Int, lastObserved <= now, HasLeft(b)
  PROVE  b < BucketOf(now) /\ \A w \in Windows : Expired(b, w, now)
<1>1. lastObserved \in Int
  BY RingFacts DEF RingInv
<1>2. \A w \in Windows : Expired(b, w, now)
  BY <1>1, ExpiryMonotonic DEF HasLeft
<1>3. BucketOf(lastObserved) <= BucketOf(now)
  BY <1>1, BucketMonotonic
<1>4. BucketOf(lastObserved) \in Int /\ BucketOf(now) \in Int
  BY <1>1, BucketType
<1> QED
  BY <1>2, <1>3, <1>4 DEF HasLeft

LEMMA ObserveKeepsSums ==
  ASSUME ReceivedInv, NEW now \in Times, ObserveTime(now)
  PROVE  ReceivedInv'
<1>1. RingInv /\ Observe(now) /\ received' = received /\ InTime(now)
  BY DEF ReceivedInv, ObserveTime, Observe
<1>2. RingInv'
  BY <1>1, ObserveKeepsRing
<1>3. /\ data' = data /\ lastObserved' = now /\ firstTimestamp' = firstTimestamp
      /\ \A w \in Windows : sums'[w] = SumAfter(w, now)
      /\ \/ ready' = ready /\ lastObserved = now
         \/ ready' = [w \in Windows |-> ReadyAt(w, firstTimestamp, now)]
  BY <1>1 DEF Observe, sumVars, SumAfter
<1>4. /\ now \in Int /\ lastObserved \in Int /\ firstTimestamp \in Int
      /\ lastObserved <= now /\ now # Never
  BY <1>1, WindowParameters, RingFacts DEF RingInv, InTime
<1>5. received' \in [Buckets -> Int] /\ RingIsOfReceived'
  BY <1>1, <1>3 DEF ReceivedInv, RingIsOfReceived
<1>6. NothingIsLost'
  <2>1. ASSUME NEW b \in Buckets, HasLeft(b)
        PROVE  b < BucketOf(now) /\ \A w \in Windows : Expired(b, w, now)
    BY <1>1, <1>4, <2>1, BucketsAreNumbers, ExpiryIsForGood
  <2>2. BucketOf(lastObserved)' = BucketOf(now)
    BY <1>3 DEF BucketOf
  <2> QED
    BY <1>1, <1>3, <2>1, <2>2 DEF ReceivedInv, NothingIsLost, RingHolds, HasLeft
<1>7. ASSUME NEW w \in Windows
      PROVE  sums'[w] = SumFunctionOnSet(received', InWindow(w)')
  <2>1. InWindow(w)' = Reached(w, now)
    BY <1>3 DEF InWindow, Reached
  <2> QED
    BY <1>1, <1>3, <1>4, <2>1, SumAfterIsOfReached
<1>8. ready' \in [Windows -> BOOLEAN]
  BY <1>3 DEF ReceivedInv, ReadyAt
<1>9. ASSUME NEW w \in Windows
      PROVE  ready'[w] <=> /\ firstTimestamp' # Never
                           /\ \/ WarmupPolicy = "FirstValue"
                              \/ lastObserved' - firstTimestamp' >= Duration(w)
  <2>1. ready[w] <=> /\ firstTimestamp # Never
                     /\ \/ WarmupPolicy = "FirstValue"
                        \/ lastObserved - firstTimestamp >= Duration(w)
    BY DEF ReceivedInv, SumsAreOfReceived
  <2>2. \/ ready'[w] = ready[w] /\ lastObserved = now
        \/ ready'[w] = ReadyAt(w, firstTimestamp, now)
    BY <1>3
  <2> QED
    BY <1>3, <1>4, <2>1, <2>2, DurationType DEF ReadyAt, ReceivedInv
<1> QED
  BY <1>2, <1>5, <1>6, <1>7, <1>8, <1>9 DEF ReceivedInv, SumsAreOfReceived

LEMMA WindowStutters ==
  ASSUME ReceivedInv, UNCHANGED windowVars
  PROVE  ReceivedInv'
<1>1. UNCHANGED sumVars /\ received' = received
  BY DEF windowVars
<1>2. RingInv'
  BY <1>1, RingStutters DEF ReceivedInv
<1> QED
  BY <1>1, <1>2
     DEF sumVars, ReceivedInv, RingIsOfReceived, NothingIsLost, RingHolds, HasLeft,
         SumsAreOfReceived, InWindow

(* Buckets of the ring other than one for the current time are older. *)
LEMMA RingIsBefore ==
  ASSUME RingInv, NEW now \in Int, InTime(now), NEW i \in 1 .. Len(data),
         SameBucket(now) => i < Len(data)
  PROVE  data[i].index < BucketOf(now)
<1> DEFINE n == Len(data)
<1>1. /\ n \in Nat /\ n \in 1 .. n /\ data[n].index \in Int /\ data[i].index \in Int
      /\ lastObserved \in Int /\ data # <<>>
  BY RingFacts DEF RingInv
<1>2. /\ data[n].index <= BucketOf(lastObserved) /\ BucketOf(lastObserved) <= BucketOf(now)
      /\ BucketOf(lastObserved) \in Int /\ BucketOf(now) \in Int
  BY <1>1, BucketMonotonic, BucketType DEF RingInv, RingIsOfThePast, InTime
<1>3. i < n => data[i].index + (n - i) <= data[n].index
  BY <1>1 DEF RingInv, BucketsAreSpaced
<1>4. i = n => data[n].index # BucketOf(now)
  BY <1>1 DEF SameBucket
<1>5. CASE i = n
  <2> HIDE DEF n
  <2> QED
    BY <1>1, <1>2, <1>4, <1>5
<1>6. CASE i < n
  <2>1. n - i \in Nat \ {0}
    BY <1>1, <1>6
  <2> HIDE DEF n
  <2> QED
    BY <1>1, <1>2, <1>3, <1>6, <2>1
<1>7. i = n \/ i < n
  BY <1>1
<1> QED
  BY <1>5, <1>6, <1>7

LEMMA ReceiveKeepsRing ==
  ASSUME ReceivedInv, NEW now \in Times, NEW v \in Values, Receive(v, now)
  PROVE  RingIsOfReceived'
<1> DEFINE n == Len(data)
           m == Len(data')
           s == Shift(now)
           b == BucketOf(now)
<1>1. RingInv /\ Update(v, now) /\ InTime(now) /\ received' = [received EXCEPT ![b] = @ + v]
  BY DEF ReceivedInv, Receive, Update
<1>2. /\ now \in Int /\ v \in Int /\ n \in Nat /\ b \in Buckets
      /\ \A i \in 1 .. n : /\ data[i].index \in Buckets /\ data[i].index \in Int
                           /\ received[data[i].index] = data[i].value
  BY <1>1, WindowParameters, RingFacts DEF RingInv, Buckets, ReceivedInv, RingIsOfReceived
<1>3. \A c \in Buckets : received'[c] = IF c = b THEN received[c] + v ELSE received[c]
  BY <1>1, <1>2 DEF ReceivedInv
<1>4. b \in Int
  BY <1>2, BucketType
<1>5. CASE SameBucket(now)
  <2>1. /\ n \in 1 .. n /\ data[n].index = b /\ m = n
        /\ data'[n].index = data[n].index /\ data'[n].value = data[n].value + v
        /\ \A i \in 1 .. n - 1 : data'[i] = data[i]
    BY <1>1, <1>5, SameBucketAfterUpdate
  <2>2. ASSUME NEW i \in 1 .. m
        PROVE  data'[i].index \in Buckets /\ received'[data'[i].index] = data'[i].value
    <3>1. CASE i = n
      BY <1>2, <1>3, <2>1, <3>1
    <3>2. CASE i # n
      <4>1. i \in 1 .. n - 1 /\ i \in 1 .. n /\ i < n
        BY <1>2, <2>1, <3>2
      <4>2. data[i].index < b
        BY <1>1, <1>2, <4>1, RingIsBefore
      <4> QED
        BY <1>2, <1>3, <1>4, <2>1, <4>1, <4>2
    <3> QED
      BY <3>1, <3>2
  <2> QED
    BY <2>2 DEF RingIsOfReceived
<1>6. CASE ~ SameBucket(now)
  <2>1. /\ s <= n /\ m = n - s + 1
        /\ \A i \in 1 .. m - 1 : data'[i] = data[i + s]
        /\ data'[m].index = b /\ data'[m].value = v
    BY <1>1, <1>6, NewBucketAfterUpdate
  <2>2. m \in Nat \ {0} /\ \A i \in 1 .. m - 1 : i + s \in 1 .. n
    BY <1>2, <2>1 DEF Shift
  <2>3. \A i \in 1 .. n : data[i].index < b
    BY <1>1, <1>2, <1>6, RingIsBefore
  <2>4. received[b] = 0
    <3>1. ~ RingHolds(b)
      BY <1>2, <1>4, <2>3 DEF RingHolds
    <3>2. ~ HasLeft(b)
      <4>1. BucketOf(lastObserved) <= b /\ BucketOf(lastObserved) \in Int
        BY <1>1, <1>2, RingFacts, BucketMonotonic, BucketType DEF RingInv, InTime
      <4> HIDE DEF b
      <4> QED BY <1>4, <4>1 DEF HasLeft
    <3> QED
      BY <1>2, <3>1, <3>2 DEF ReceivedInv, NothingIsLost
  <2>5. ASSUME NEW i \in 1 .. m
        PROVE  data'[i].index \in Buckets /\ received'[data'[i].index] = data'[i].value
    <3>1. CASE i = m
      BY <1>2, <1>3, <2>1, <2>4, <3>1
    <3>2. CASE i # m
      <4>1. i \in 1 .. m - 1 /\ i + s \in 1 .. n
        BY <2>2, <3>2
      <4>2. data'[i] = data[i + s] /\ data[i + s].index # b
        BY <1>2, <1>4, <2>1, <2>3, <4>1
      <4> QED
        BY <1>2, <1>3, <4>1, <4>2
    <3> QED
      BY <3>1, <3>2
  <2> QED
    BY <2>5 DEF RingIsOfReceived
<1> QED
  BY <1>5, <1>6

LEMMA ReceiveLosesNothing ==
  ASSUME ReceivedInv, NEW now \in Times, NEW v \in Values, Receive(v, now)
  PROVE  NothingIsLost'
<1> DEFINE n == Len(data)
           m == Len(data')
           s == Shift(now)
           b == BucketOf(now)
<1>1. /\ RingInv /\ Update(v, now) /\ InTime(now) /\ lastObserved' = now
      /\ received' = [received EXCEPT ![b] = @ + v]
  BY DEF ReceivedInv, Receive, Update
<1>2. now \in Int /\ n \in Nat /\ b \in Buckets /\ lastObserved \in Int /\ lastObserved <= now
  BY <1>1, WindowParameters, RingFacts DEF RingInv, Buckets, InTime
<1>3. BucketOf(lastObserved)' = b
  BY <1>1 DEF BucketOf
<1>4. SUFFICES ASSUME NEW c \in Buckets, received'[c] # 0
               PROVE  \/ \E i \in 1 .. m : data'[i].index = c
                      \/ c < b /\ \A w \in Windows : Expired(c, w, now)
  BY <1>1, <1>3 DEF NothingIsLost, RingHolds, HasLeft
<1>5. c \in Int
  BY BucketsAreNumbers
<1>6. c = b \/ RingHolds(c) \/ HasLeft(c)
  <2>1. c # b => received'[c] = received[c]
    BY <1>1, <1>2 DEF ReceivedInv
  <2> QED
    BY <1>4, <2>1 DEF ReceivedInv, NothingIsLost
<1>7. CASE HasLeft(c)
  BY <1>1, <1>2, <1>5, <1>7, ExpiryIsForGood
<1>8. CASE SameBucket(now) /\ (c = b \/ RingHolds(c))
  <2>1. /\ n \in 1 .. n /\ data[n].index = b /\ m = n
        /\ data'[n].index = data[n].index
        /\ \A i \in 1 .. n - 1 : data'[i] = data[i]
    BY <1>1, <1>8, SameBucketAfterUpdate
  <2>2. PICK i \in 1 .. n : data[i].index = c
    BY <1>8, <2>1 DEF RingHolds
  <2>3. data'[i].index = c
    <3>1. CASE i = n
      BY <2>1, <2>2, <3>1
    <3>2. CASE i # n
      BY <1>2, <2>1, <2>2, <3>2
    <3> QED
      BY <3>1, <3>2
  <2> QED
    BY <2>1, <2>3
<1>9. CASE ~ SameBucket(now) /\ (c = b \/ RingHolds(c))
  <2>1. /\ s <= n /\ m = n - s + 1 /\ s \in {0, 1}
        /\ \A i \in 1 .. m - 1 : data'[i] = data[i + s]
        /\ data'[m].index = b
    BY <1>1, <1>9, NewBucketAfterUpdate DEF Shift
  <2>2. CASE c = b
    <3>1. m \in 1 .. m
      BY <1>2, <2>1
    <3> QED
      BY <2>1, <2>2, <3>1
  <2>3. CASE RingHolds(c)
    <3>1. PICK i \in 1 .. n : data[i].index = c
      BY <2>3 DEF RingHolds
    <3>2. c < b
      BY <1>1, <1>2, <1>9, <3>1, RingIsBefore
    <3>3. CASE s < i
      <4>1. i - s \in 1 .. m /\ i - s \in 1 .. m - 1 /\ (i - s) + s = i
        BY <1>2, <2>1, <3>3
      <4>2. data'[i - s] = data[i]
        BY <2>1, <4>1
      <4> QED
        BY <3>1, <4>1, <4>2
    <3>4. CASE ~ (s < i)
      <4>1. i = 1 /\ s = 1
        BY <1>2, <2>1, <3>4
      <4>2. RingFull
        BY <4>1 DEF Shift, Evicts
      <4>3. \A w \in Windows : Expired(c, w, now)
        BY <1>1, <1>2, <1>9, <3>1, <4>1, <4>2, OldestOfFullIsExpired
      <4> QED
        BY <3>2, <4>3
    <3> QED
      BY <3>3, <3>4
  <2> QED
    BY <1>9, <2>2, <2>3
<1> QED
  BY <1>6, <1>7, <1>8, <1>9

LEMMA ReceiveKeepsSums ==
  ASSUME ReceivedInv, NEW now \in Times, NEW v \in Values, Receive(v, now)
  PROVE  ReceivedInv'
<1> DEFINE b == BucketOf(now)
<1>1. /\ RingInv /\ Update(v, now) /\ InTime(now) /\ lastObserved' = now
      /\ received' = [received EXCEPT ![b] = @ + v]
  BY DEF ReceivedInv, Receive, Update
<1>2. /\ now \in Int /\ v \in Int /\ b \in Buckets /\ now # Never
      /\ lastObserved \in Int /\ firstTimestamp \in Int /\ lastObserved <= now
  BY <1>1, WindowParameters, RingFacts DEF RingInv, Buckets, InTime
<1>3. RingInv' /\ RingIsOfReceived' /\ NothingIsLost'
  BY <1>1, UpdateKeepsRing, ReceiveKeepsRing, ReceiveLosesNothing
<1>4. /\ received' \in [Buckets -> Int]
      /\ \A c \in Buckets :
           received[c] \in Int /\ received'[c] = IF c = b THEN received[c] + v ELSE received[c]
  BY <1>1, <1>2 DEF ReceivedInv
<1>5. ASSUME NEW w \in Windows
      PROVE  sums'[w] = SumFunctionOnSet(received', InWindow(w)')
  <2> DEFINE W == Reached(w, now)
  <2>1. InWindow(w)' = W
    BY <1>1 DEF InWindow, Reached
  <2>2. b \in W
    BY <1>2, CurrentIsInWindow DEF Reached
  <2>3. sums'[w] = SumFunctionOnSet(received, W) + v
    <3>1. sums'[w] = SumAfter(w, now) + v
      BY <1>1 DEF Update
    <3> QED
      BY <1>1, <1>2, <3>1, SumAfterIsOfReached
  <2>4. W \subseteq Buckets /\ IsFiniteSet(W) /\ IsFiniteSet(W \ {b})
    BY ReachedType, FS_Subset
  <2> HIDE DEF W, b
  <2>5. SumFunctionOnSet(received, W) = received[b] + SumFunctionOnSet(received, W \ {b})
    <3>1. \A c \in W : received[c] \in Int
      BY <1>4, <2>4
    <3> QED
      BY <2>2, <2>4, <3>1, SumTakeOut
  <2>6. SumFunctionOnSet(received', W) = received'[b] + SumFunctionOnSet(received', W \ {b})
    <3>1. \A c \in W : received'[c] \in Int
      BY <1>2, <1>4, <2>4
    <3> QED
      BY <2>2, <2>4, <3>1, SumTakeOut
  <2>7. SumFunctionOnSet(received', W \ {b}) = SumFunctionOnSet(received, W \ {b})
    <3>1. \A c \in W \ {b} : received'[c] = received[c]
      BY <1>4, <2>4
    <3> QED
      BY <2>4, <3>1, SumEqual
  <2>8. SumFunctionOnSet(received, W \ {b}) \in Int
    <3>1. \A c \in W \ {b} : received[c] \in Int
      BY <1>4, <2>4
    <3> QED
      BY <2>4, <3>1, SumType
  <2>9. received'[b] = received[b] + v /\ received[b] \in Int
    BY <1>2, <1>4
  <2> QED
    BY <1>2, <2>1, <2>3, <2>5, <2>6, <2>7, <2>8, <2>9
<1>6. /\ firstTimestamp' = IF firstTimestamp = Never THEN now ELSE firstTimestamp
      /\ ready' = [w \in Windows |-> IF firstTimestamp = Never \/ lastObserved # now
                                       THEN ReadyAt(w, firstTimestamp', now)
                                       ELSE ready[w]]
  BY <1>1 DEF Update
<1>7. ready' \in [Windows -> BOOLEAN]
  BY <1>6 DEF ReceivedInv, ReadyAt
<1>8. ASSUME NEW w \in Windows
      PROVE  ready'[w] <=> /\ firstTimestamp' # Never
                           /\ \/ WarmupPolicy = "FirstValue"
                              \/ lastObserved' - firstTimestamp' >= Duration(w)
  <2>1. /\ ready[w] \in BOOLEAN
        /\ ready[w] <=> /\ firstTimestamp # Never
                        /\ \/ WarmupPolicy = "FirstValue"
                           \/ lastObserved - firstTimestamp >= Duration(w)
    BY DEF ReceivedInv, SumsAreOfReceived
  <2>2. CASE firstTimestamp = Never
    <3>1. ready'[w] = ReadyAt(w, now, now) /\ firstTimestamp' = now
      BY <1>6, <2>2
    <3> QED
      BY <1>1, <1>2, <2>1, <2>2, <3>1 DEF ReadyAt
  <2>3. CASE firstTimestamp # Never /\ lastObserved # now
    <3>1. ready'[w] = ReadyAt(w, firstTimestamp, now) /\ firstTimestamp' = firstTimestamp
      BY <1>6, <2>3
    <3> QED
      BY <1>1, <1>2, <2>1, <2>3, <3>1, DurationType DEF ReadyAt
  <2>4. CASE firstTimestamp # Never /\ lastObserved = now
    BY <1>1, <1>6, <2>1, <2>4
  <2> QED
    BY <2>2, <2>3, <2>4
<1> QED
  BY <1>3, <1>4, <1>5, <1>7, <1>8 DEF ReceivedInv, SumsAreOfReceived

(* A running sum, kept in one ring with those of other windows, updated by *)
(* what comes and what expires, evicted from and set to zero, is at every  *)
(* moment the sum of all that was ever received in the window's reach; and *)
(* a window is ready by the time since its first value.                    *)
THEOREM SumsStayOfReceived == WindowSpec => []SumsAreOfReceived
<1>1. WindowInit => ReceivedInv
  <2>1. SUFFICES ASSUME WindowInit
                 PROVE  ReceivedInv
    OBVIOUS
  <2>2. RingInv
    BY <2>1, InitialRing DEF WindowInit
  <2>3. Len(data) = 0 /\ received = [b \in Buckets |-> 0]
    BY <2>1, EmptySeq DEF WindowInit, SumInit
  <2>4. ASSUME NEW w \in Windows
        PROVE  sums[w] = SumFunctionOnSet(received, InWindow(w))
    <3>1. InWindow(w) \subseteq Buckets /\ IsFiniteSet(InWindow(w))
      BY BucketsAreFinite, FS_Subset DEF InWindow
    <3>2. \A b \in InWindow(w) : received[b] = 0 /\ received[b] \in Int
      BY <2>3, <3>1
    <3>3. {} \in SUBSET InWindow(w) /\ \A b \in InWindow(w) \ {} : received[b] = 0
      BY <3>2
    <3>4. SumFunctionOnSet(received, InWindow(w)) = SumFunctionOnSet(received, {})
      BY <3>1, <3>2, <3>3, SumOfNonzero
    <3>5. sums[w] = 0
      BY <2>1 DEF WindowInit, SumInit
    <3> QED
      BY <3>4, <3>5, SumEmpty
  <2>5. \A w \in Windows : ready[w] = FALSE
    BY <2>1 DEF WindowInit, SumInit
  <2>6. firstTimestamp = Never /\ ready \in [Windows -> BOOLEAN]
    BY <2>1 DEF WindowInit, SumInit
  <2> QED
    BY <2>2, <2>3, <2>4, <2>5, <2>6
       DEF ReceivedInv, RingIsOfReceived, NothingIsLost, SumsAreOfReceived
<1>2. ReceivedInv /\ [WindowNext]_windowVars => ReceivedInv'
  BY ObserveKeepsSums, ReceiveKeepsSums, WindowStutters DEF WindowNext
<1>3. ReceivedInv => SumsAreOfReceived
  BY DEF ReceivedInv
<1> QED
  BY <1>1, <1>2, <1>3, PTL DEF WindowSpec

(* What the readers are promised is kept by the sums themselves: every     *)
(* behaviour with its history is one of RollingTimedSum.                   *)
THEOREM ReceivingIsSumming == WindowSpec => SumSpec
<1>1. WindowInit => SumInit
  BY DEF WindowInit
<1>2. [WindowNext]_windowVars => [SumNext]_sumVars
  BY DEF WindowNext, SumNext, ObserveTime, Receive, windowVars
<1> QED
  BY <1>1, <1>2, PTL DEF WindowSpec, SumSpec

==============================================================================
