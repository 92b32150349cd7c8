------------------------- MODULE MCFeatureExtractor -------------------------
(***************************************************************************)
(* Two extractors: one with a book of BTC, ETH having none, and one whose  *)
(* cells, a context value among them, follow the clocks of three symbols.  *)
(***************************************************************************)
EXTENDS FeatureExtractor, TLC

MCLevels == {<<"Bid", 99>>}

MCSymbols == {"BTC", "ETH", "GLOBAL"}

Feature(what, symbol, kind) == [what |-> what, symbol |-> symbol, kind |-> kind]

(* A book, what is evaluated at the time of its events, and a context cell. *)
MCBookFeatures ==
  "trades" :> Feature("Timed", "BTC", "Trade") @@
  "day" :> Feature("Calendar", "GLOBAL", "Time") @@
  "book" :> Feature("Book", "BTC", "OrderBook") @@
  "flow" :> Feature("Flow", "BTC", "OrderBook") @@
  "position" :> Feature("Context", "BTC", "Context")

Event(symbol, kind, t) ==
  [symbol |-> symbol, kind |-> kind, at |-> t,
   payload |-> IF kind \in MarketKinds THEN 0 ELSE None]

MCBookEvents ==
  {Event(on[1], on[2], t) : t \in Timestamps,
     on \in {<<"BTC", "Trade">>, <<"ETH", "OrderBookSnapshot">>}}

(* Several symbols, whose events need not be in order. *)
MCClockFeatures ==
  "price" :> Feature("Field", "BTC", "Price") @@
  "trades" :> Feature("Timed", "BTC", "Trade") @@
  "day" :> Feature("Calendar", "GLOBAL", "Time") @@
  "eth day" :> Feature("Calendar", "ETH", "Time") @@
  "position" :> Feature("Context", "BTC", "Context")

MCClockEvents ==
  {Event(on[1], on[2], t) : t \in Timestamps,
     on \in {<<"BTC", "Trade">>, <<"BTC", "Price">>, <<"ETH", "OrderBookDelta">>,
             <<"GLOBAL", "Time">>}}
  \cup {[Event("BTC", "Trade", t) EXCEPT !.payload = NonFinite] : t \in Timestamps}

BidSize(id) == IF id = 1 THEN 2 ELSE 1

Delta(first, final) ==
  [first |-> first, final |-> final, changes |-> (<<"Bid", 99>> :> BidSize(final))]

(* Single updates and one reversed range. *)
MCDeltas == {Delta(id, id) : id \in 1 .. MaxUpdateId} \cup {Delta(2, 1)}

MCSnapshots ==
  {[id |-> id, levels |-> (<<"Bid", 99>> :> BidSize(id))] : id \in 0 .. MaxUpdateId}

Set(f, v) == [feature |-> f, value |-> v]

(* Nothing, a value, None, a repeated cell, a market cell and an infinity. *)
MCContextUpdates ==
  {<<>>, <<Set("position", 0)>>, <<Set("position", None)>>,
   <<Set("position", 0), Set("position", None)>>, <<Set("price", 0)>>,
   <<Set("position", NonFinite)>>}

(* A value, None, and a good entry before one of a cell that is the book's. *)
MCBookContextUpdates ==
  {<<Set("position", 0)>>, <<Set("position", None)>>,
   <<Set("position", 0), Set("book", 0)>>}

=============================================================================
