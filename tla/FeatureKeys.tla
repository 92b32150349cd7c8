------------------------------ MODULE FeatureKeys ------------------------------
(***************************************************************************)
(* The identity of features: features/feature_key.rs and feature_id.rs,    *)
(* and what features/compiler.rs derives from a key alone: whether it is   *)
(* valid, what it shares with other keys, and where its input comes from.  *)
(*                                                                         *)
(* A key is [kind, symbol, args], args being a function from the names of  *)
(* the kind's fields.  Durations are in half milliseconds, the only finer  *)
(* precision that is told apart; prices and sizes are integers.            *)
(***************************************************************************)
EXTENDS Integers, Sequences, Functions

CONSTANTS
  MaxMillis,  \* i64::MAX
  MaxUsize    \* usize::MAX

None == "None"

-----------------------------------------------------------------------------
(* The kinds and their fields. *)

QuoteKinds ==
  {"BestBidPrice", "BestBidSize", "BestAskPrice", "BestAskSize", "BidAddedVolume",
   "BidRemovedVolume", "AskAddedVolume", "AskRemovedVolume", "MidPrice", "Spread",
   "SpreadBps", "WeightedMidPrice", "Microprice"}

PriceKinds == {"LevelSize", "DepthUntilPrice"}

RankKinds == {"NthPrice", "NthSize"}

SizeKinds == {"DepthUntilSizePriceFrom", "DepthUntilSizePriceTo", "DepthUntilSizeTotalSize"}

OrderBookKinds ==
  QuoteKinds \cup PriceKinds \cup RankKinds \cup SizeKinds
    \cup {"VolumeBetweenPrices", "Imbalance"}

ReturnKinds == {"SimpleReturn", "LogReturn"}

SampleKinds == {"Cvd", "Volatility"} \cup ReturnKinds

TimedFieldKinds == {"SmaTimed", "VolatilityTimed"}

TimedTradeKinds == {"ObvTimed", "TradeCountTimed", "TradeVolumeTimed", "VwapTimed"}

TimedKinds == TimedFieldKinds \cup TimedTradeKinds

CalendarKinds == {"DayOfWeek", "TimeSinceFirstEventOfDay"}

Kinds ==
  OrderBookKinds \cup SampleKinds \cup TimedKinds \cup CalendarKinds
    \cup {"Context", "Field", "Vpt"}

Fields(kind) ==
  CASE kind \in PriceKinds                 -> {"side", "price"}
    [] kind \in RankKinds                  -> {"side", "n_levels"}
    [] kind \in SizeKinds                  -> {"side", "size"}
    [] kind = "VolumeBetweenPrices"        -> {"side", "from_price", "to_price"}
    [] kind = "Imbalance"                  -> {"n_levels"}
    [] kind = "Context"                    -> {"name"}
    [] kind = "Field"                      -> {"source"}
    [] kind = "Cvd"                        -> {"window", "warmup"}
    [] kind \in ReturnKinds                -> {"source", "lag"}
    [] kind = "Volatility"                 -> {"source", "window", "warmup"}
    [] kind \in TimedFieldKinds            -> {"source", "aggregation", "window", "warmup"}
    [] kind \in TimedTradeKinds            -> {"aggregation", "window", "warmup"}
    [] kind = "DayOfWeek"                  -> {"source"}
    [] kind = "TimeSinceFirstEventOfDay"   -> {"source", "utc_offset"}
    [] kind \in QuoteKinds \cup {"Vpt"}    -> {}

-----------------------------------------------------------------------------
(* Validation. *)

Valid == "Valid"

DurationError(duration) ==
  IF duration % 2 # 0 THEN "DurationPrecision"
  ELSE IF duration \div 2 > MaxMillis THEN "DurationOutOfRange"
  ELSE Valid

(* validate_timed_window; a usize holds every quotient. *)
TimedError(aggregation, window) ==
  IF DurationError(aggregation) # Valid THEN DurationError(aggregation)
  ELSE IF aggregation = 0 THEN "AggregationTooShort"
  ELSE IF DurationError(window) # Valid THEN DurationError(window)
  ELSE IF window < aggregation THEN "WindowShorterThanAggregation"
  ELSE IF window % aggregation # 0 THEN "WindowNotMultipleOfAggregation"
  ELSE Valid

(* validate_sample_window; a return needs one sample more than its lag. *)
SampleError(kind, samples) ==
  IF samples = 0 THEN "WindowTooShort"
  ELSE IF kind \in ReturnKinds /\ samples = MaxUsize THEN "WindowTooLarge"
  ELSE Valid

Minute == 60000

OffsetError(offset) ==
  IF offset \notin -14 * 60 * Minute .. 14 * 60 * Minute THEN "UtcOffsetOutOfRange"
  ELSE IF offset % Minute # 0 THEN "UtcOffsetPrecision"
  ELSE Valid

Unless(holds, error) == IF holds THEN Valid ELSE error

(* The field that tells the outputs of one derivation apart. *)
Parameter(kind) ==
  CASE kind = "Imbalance"                                        -> "n_levels"
    [] kind \in ReturnKinds                                      -> "lag"
    [] kind \in (SampleKinds \ ReturnKinds) \cup TimedKinds
         /\ kind # "TradeCountTimed"                             -> "window"
    [] OTHER                                                     -> None

(* group_key: what is wrong with a key, here of a query of the book. *)
BookKeyError(kind, args) ==
  CASE kind \in PriceKinds -> Unless(args.price >= 0, "OrderBookPriceNegative")
    [] kind \in RankKinds \cup {"Imbalance"}
                           -> Unless(args.n_levels # 0, "OrderBookDepthZero")
    [] kind \in SizeKinds  -> Unless(args.size > 0, "OrderBookSizeNotPositive")
    [] kind = "VolumeBetweenPrices" ->
         IF args.from_price < 0 \/ args.to_price < 0 THEN "OrderBookPriceNegative"
         ELSE Unless(args.from_price < args.to_price, "OrderBookPriceRangeInvalid")
    [] kind \in QuoteKinds -> Valid

KeyError(key) ==
  LET kind == key.kind
      args == key.args
  IN  CASE kind = "Context"          -> Unless(args.name # "", "EmptyContextName")
        [] kind \in OrderBookKinds   -> BookKeyError(kind, args)
        [] kind \in SampleKinds      -> SampleError(kind, args[Parameter(kind)])
        [] kind \in TimedKinds       -> TimedError(args.aggregation, args.window)
        [] kind = "TimeSinceFirstEventOfDay" -> OffsetError(args.utc_offset)
        [] OTHER                     -> Valid

-----------------------------------------------------------------------------
(* Groups. *)

(* GroupKey: the key without its groupable field. *)
GroupKey(key) == [key EXCEPT !.args = Restrict(@, DOMAIN @ \ {Parameter(key.kind)})]

(* GroupOutput; Scalar is None, and a timed window a number of buckets. *)
GroupOutput(key) ==
  IF Parameter(key.kind) = None THEN None
  ELSE IF key.kind \in TimedKinds THEN key.args.window \div key.args.aggregation
  ELSE key.args[Parameter(key.kind)]

-----------------------------------------------------------------------------
(* Sources and routes.  A source is <<"Field", field>>, or of a calendar    *)
(* also <<"Event", event kind>> or <<"AnyEvent">>.                          *)

SourcesOf(kind, eventKinds) ==
  {<<"Field", field>> : field \in {"Price", "Volume", "TradePrice", "TradeVolume"}}
    \cup (IF kind \notin CalendarKinds THEN {}
          ELSE {<<"Event", event>> : event \in eventKinds} \cup {<<"AnyEvent">>})

EventKindOf(field) ==
  CASE field = "Price" -> "Price"
    [] field = "Volume" -> "Volume"
    [] field \in {"TradePrice", "TradeVolume"} -> "Trade"

RouteForSource(source, global) ==
  CASE source[1] = "Field" -> <<"Kind", EventKindOf(source[2])>>
    [] source[1] = "Event" -> <<"Kind", source[2]>>
    [] source[1] = "AnyEvent" -> IF global THEN <<"Any">> ELSE <<"SymbolAny">>

(* route of a group; a context has none. *)
Route(key, global) ==
  CASE key.kind \in OrderBookKinds -> <<"OrderBook">>
    [] key.kind \in {"Cvd", "Vpt"} -> <<"Kind", "Trade">>
    [] key.kind \in TimedKinds     -> <<"SymbolAny">>
    [] OTHER                       -> RouteForSource(key.args.source, global)

(* source_kind: timed derivations hear more than they consume. *)
SourceKind(key, global) ==
  CASE key.kind = "Context"           -> None
    [] key.kind \in TimedFieldKinds   -> <<"Event", EventKindOf(key.args.source[2])>>
    [] key.kind \in TimedTradeKinds   -> <<"Event", "Trade">>
    [] OTHER -> LET route == Route(key, global)
                IN  IF route[1] = "Kind" THEN <<"Event", route[2]>>
                    ELSE IF route[1] = "OrderBook" THEN <<"OrderBook">>
                    ELSE <<"AnyEvent">>

-----------------------------------------------------------------------------
(* Default IDs.  The text spells its parts with labels, and free text with  *)
(* its length, so that it is as good as its prefix with the list of what    *)
(* follows.                                                                 *)

CanonicalSource(key) ==
  CASE key.kind \in OrderBookKinds -> <<"order_book">>
    [] key.kind = "Context"        -> <<"context">>
    [] key.kind \in TimedTradeKinds \cup {"Cvd", "Vpt"} -> <<"Event", "Trade">>
    [] OTHER -> key.args.source

(* What follows the prefix, in the order of the text. *)
BookLabels(kind) ==
  CASE kind \in PriceKinds            -> <<"side", "price">>
    [] kind \in RankKinds             -> <<"side", "n_levels">>
    [] kind \in SizeKinds             -> <<"side", "size">>
    [] kind = "VolumeBetweenPrices"   -> <<"side", "from_price", "to_price">>
    [] kind = "Imbalance"             -> <<"n_levels">>
    [] kind \in QuoteKinds            -> <<>>

Labels(kind) ==
  CASE kind \in OrderBookKinds           -> BookLabels(kind)
    [] kind = "Context"                  -> <<"name">>
    [] kind \in {"Cvd", "Volatility"}    -> <<"window", "warmup">>
    [] kind \in ReturnKinds              -> <<"lag">>
    [] kind \in TimedKinds               -> <<"aggregation", "window", "warmup">>
    [] kind = "TimeSinceFirstEventOfDay" -> <<"utc_offset">>
    [] OTHER                             -> <<>>

DefaultId(key, symbolName) ==
  <<key.kind, symbolName, CanonicalSource(key),
    [i \in DOMAIN Labels(key.kind) |-> key.args[Labels(key.kind)[i]]]>>

================================================================================
