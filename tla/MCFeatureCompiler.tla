--------------------------- MODULE MCFeatureCompiler ---------------------------
(***************************************************************************)
(* Builders of up to three definitions and an order book, with room for    *)
(* two outputs in a derivation, few subscribers and two symbols besides    *)
(* GLOBAL, so that every refusal of the compiler happens.                  *)
(***************************************************************************)
EXTENDS FeatureCompiler

MCNames == {GLOBAL_NAME, "BTC", "btc", "eth", "ltc"}

MCCanonical == [n \in MCNames |-> IF n = "BTC" THEN "btc" ELSE n]

MCBookNames == {"btc", "eth"}

MCEventKinds == <<"Price", "Trade">>

Reserved == <<"__reserved">>

MCReservedIds == {Reserved}

MCOutputLengths == {2, 4}

Request(kind, args, name) == [kind |-> kind, args |-> args, name |-> name, id |-> DefaultIdOf]

Volatility(window, name) ==
  Request("Volatility", [source |-> <<"Field", "Price">>, window |-> window,
                         warmup |-> "WindowFilled"], name)

Cvd(window, warmup) == Request("Cvd", [window |-> window, warmup |-> warmup], "BTC")

Sma(window) ==
  Request("SmaTimed", [source |-> <<"Field", "TradePrice">>, aggregation |-> 2,
                       window |-> window, warmup |-> "FirstValue"], "btc")

DayOfWeek(source, name) == Request("DayOfWeek", [source |-> source], name)

MCRequests ==
  {Volatility(2, "BTC"), Volatility(3, "btc"), Volatility(4, "btc"), Cvd(2, "FirstValue"),
   Cvd(2, "WindowFilled"), Sma(4), Sma(6), Sma(7),
   Request("Context", [name |-> "rate"], "BTC"),
   DayOfWeek(<<"AnyEvent">>, GLOBAL_NAME), DayOfWeek(<<"AnyEvent">>, "BTC"),
   Request("Imbalance", [n_levels |-> 2], "eth"),
   Request("SimpleReturn", [source |-> <<"Field", "Volume">>, lag |-> MaxUsize], "eth"),
   [DayOfWeek(<<"Event", "Trade">>, "eth") EXCEPT !.id = Reserved],
   [Cvd(3, "FirstValue") EXCEPT
      !.id = <<"Volatility", "btc", <<"Field", "Price">>, <<2, "WindowFilled">> >>]}

(* Keys of every kind.  IDs tell them apart, valid or not, and valid keys   *)
(* of a group are told apart by their outputs: nothing is lost by rounding  *)
(* a window to a number of buckets.                                         *)
ArgValues(field) ==
  CASE field = "side"                         -> {"Bid", "Ask"}
    [] field \in {"price", "from_price", "to_price"} -> {-1, 0, 1}
    [] field \in {"size", "n_levels"}         -> {0, 1, 2}
    [] field = "name"                         -> {"", "rate"}
    [] field = "source"                       -> {<<"Field", "Price">>, <<"Field", "TradePrice">>}
    [] field = "warmup"                       -> {"FirstValue", "WindowFilled"}
    [] field \in {"window", "lag"}            -> {0, 2, 4, 5, 6, 8, MaxUsize}
    [] field = "aggregation"                  -> {0, 1, 2, 4, 3000}
    [] field = "utc_offset"                   -> {-61000, 0, Minute, 900 * Minute}

RECURSIVE ArgsOver(_)
ArgsOver(fields) ==
  IF fields = {} THEN {<<>>}
  ELSE LET field == CHOOSE f \in fields : TRUE
       IN  {(field :> value) @@ args : value \in ArgValues(field),
                                       args \in ArgsOver(fields \ {field})}

KeysOf(kind) ==
  {[kind |-> kind, symbol |-> symbol, args |-> args] :
     symbol \in {0, 1}, args \in ArgsOver(Fields(kind))}

ASSUME IdsTellKeysApart ==
  \A kind \in Kinds :
    Cardinality({DefaultId(key, key.symbol) : key \in KeysOf(kind)}) = Cardinality(KeysOf(kind))

ASSUME OutputsTellKeysApart ==
  \A kind \in Kinds :
    LET valid == {key \in KeysOf(kind) : KeyError(key) = Valid}
    IN  Cardinality({<<GroupKey(key), GroupOutput(key)>> : key \in valid}) = Cardinality(valid)

=============================================================================
