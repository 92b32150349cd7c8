------------------------ MODULE FeatureCompilerProofs ------------------------
(***************************************************************************)
(* Proofs about FeatureCompiler, for any definitions, any spellings of     *)
(* symbols and any interning by other threads.                             *)
(*                                                                         *)
(* First the keys: what their default IDs and their groups tell apart.     *)
(* Then the symbols, which are told apart by their names.  Then the loop   *)
(* over the definitions, with the invariant of its groups, and what it     *)
(* refuses.  Then the layout of the cells, and that every definition finds *)
(* its own.  Last the routing tables, and whom events reach.               *)
(***************************************************************************)
EXTENDS FeatureCompiler, NumberLemmas, SequenceTheorems

-----------------------------------------------------------------------------
(* Keys. *)

IsKey(key) ==
  /\ key = [kind |-> key.kind, args |-> key.args, symbol |-> key.symbol]
  /\ key.kind \in Kinds
  /\ key.args = [field \in Fields(key.kind) |-> key.args[field]]

(* Keys are equal if their parts are. *)
LEMMA KeysEqual ==
  ASSUME NEW j, NEW k, IsKey(j), IsKey(k), j.kind = k.kind, j.symbol = k.symbol,
         \A field \in Fields(j.kind) : j.args[field] = k.args[field]
  PROVE  j = k
<1>1. j.args = [field \in Fields(j.kind) |-> j.args[field]]
      /\ k.args = [field \in Fields(j.kind) |-> k.args[field]]
  BY DEF IsKey
<1>2. j.args = k.args
  BY <1>1, Zenon
<1> QED
  BY <1>2 DEF IsKey

(* A default ID spells every field of a key. *)
LEMMA FieldsAreLabelled ==
  ASSUME NEW kind \in Kinds, NEW field \in Fields(kind)
  PROVE  \/ \E i \in DOMAIN Labels(kind) : Labels(kind)[i] = field
         \/ /\ field = "source"
            /\ \A key : key.kind = kind => CanonicalSource(key) = key.args.source
<1>1. CASE kind \in OrderBookKinds
  <2>1. kind \notin {"Context", "Field", "Vpt", "Cvd", "Volatility"} /\ kind \in Kinds
    BY <1>1 DEF OrderBookKinds, QuoteKinds, PriceKinds, RankKinds, SizeKinds, Kinds
  <2>2. Labels(kind) = BookLabels(kind)
    BY <1>1, <2>1 DEF Labels, TimedKinds, TimedFieldKinds, TimedTradeKinds, ReturnKinds,
       OrderBookKinds, QuoteKinds, PriceKinds, RankKinds, SizeKinds
  <2>3. CASE kind \in PriceKinds
    <3>1. Labels(kind) = <<"side", "price">> /\ Fields(kind) = {"side", "price"}
      BY <2>2, <2>3 DEF BookLabels, Fields, PriceKinds, QuoteKinds, RankKinds, SizeKinds,
         ReturnKinds, TimedFieldKinds, TimedTradeKinds
    <3> QED
      BY <3>1
  <2>4. CASE kind \in RankKinds
    <3>1. Labels(kind) = <<"side", "n_levels">> /\ Fields(kind) = {"side", "n_levels"}
      BY <2>2, <2>4 DEF BookLabels, Fields, PriceKinds, QuoteKinds, RankKinds, SizeKinds,
         ReturnKinds, TimedFieldKinds, TimedTradeKinds
    <3> QED
      BY <3>1
  <2>5. CASE kind \in SizeKinds
    <3>1. Labels(kind) = <<"side", "size">> /\ Fields(kind) = {"side", "size"}
      BY <2>2, <2>5 DEF BookLabels, Fields, PriceKinds, QuoteKinds, RankKinds, SizeKinds,
         ReturnKinds, TimedFieldKinds, TimedTradeKinds
    <3> QED
      BY <3>1
  <2>6. CASE kind = "VolumeBetweenPrices"
    <3>1. /\ Labels(kind) = <<"side", "from_price", "to_price">>
          /\ Fields(kind) = {"side", "from_price", "to_price"}
      BY <2>2, <2>6 DEF BookLabels, Fields, PriceKinds, QuoteKinds, RankKinds, SizeKinds,
         ReturnKinds, TimedFieldKinds, TimedTradeKinds
    <3> QED
      BY <3>1
  <2>7. CASE kind = "Imbalance"
    <3>1. Labels(kind) = <<"n_levels">> /\ Fields(kind) = {"n_levels"}
      BY <2>2, <2>7 DEF BookLabels, Fields, PriceKinds, QuoteKinds, RankKinds, SizeKinds,
         ReturnKinds, TimedFieldKinds, TimedTradeKinds
    <3> QED
      BY <3>1
  <2>8. CASE kind \in QuoteKinds
    <3>1. Fields(kind) = {}
      BY <2>8 DEF Fields, PriceKinds, QuoteKinds, RankKinds, SizeKinds,
         ReturnKinds, TimedFieldKinds, TimedTradeKinds
    <3> QED
      BY <3>1
  <2> QED
    BY <1>1, <2>3, <2>4, <2>5, <2>6, <2>7, <2>8 DEF OrderBookKinds
<1>2. CASE kind \in TimedKinds
  BY <1>2 DEF TimedKinds, TimedFieldKinds, TimedTradeKinds, OrderBookKinds, QuoteKinds, PriceKinds,
     RankKinds, SizeKinds, ReturnKinds, Fields, Labels, CanonicalSource
<1>3. CASE kind \in SampleKinds \cup CalendarKinds \cup {"Context", "Field", "Vpt"}
  BY <1>3 DEF TimedKinds, TimedFieldKinds, TimedTradeKinds, OrderBookKinds, QuoteKinds, PriceKinds,
     RankKinds, SizeKinds, ReturnKinds, SampleKinds, CalendarKinds, Fields, Labels, CanonicalSource
<1> QED
  BY <1>1, <1>2, <1>3 DEF Kinds

(* Default IDs tell keys apart. *)
LEMMA DefaultIdsDiffer ==
  ASSUME NEW j, NEW k, IsKey(j), IsKey(k), NEW m, NEW n, DefaultId(j, m) = DefaultId(k, n),
         m = n => j.symbol = k.symbol
  PROVE  j = k
<1> DEFINE labels == Labels(j.kind)
           jText == [i \in DOMAIN Labels(j.kind) |-> j.args[Labels(j.kind)[i]]]
           kText == [i \in DOMAIN Labels(k.kind) |-> k.args[Labels(k.kind)[i]]]
<1>1. /\ j.kind = k.kind /\ m = n
      /\ CanonicalSource(j) = CanonicalSource(k) /\ jText = kText
  <2>1. /\ DefaultId(j, m) = <<j.kind, m, CanonicalSource(j), jText>>
        /\ DefaultId(k, n) = <<k.kind, n, CanonicalSource(k), kText>>
    BY DEF DefaultId
  <2> HIDE DEF jText, kText
  <2>2. /\ <<j.kind, m, CanonicalSource(j), jText>>[1] = j.kind
        /\ <<j.kind, m, CanonicalSource(j), jText>>[2] = m
        /\ <<j.kind, m, CanonicalSource(j), jText>>[3] = CanonicalSource(j)
        /\ <<j.kind, m, CanonicalSource(j), jText>>[4] = jText
        /\ <<k.kind, n, CanonicalSource(k), kText>>[1] = k.kind
        /\ <<k.kind, n, CanonicalSource(k), kText>>[2] = n
        /\ <<k.kind, n, CanonicalSource(k), kText>>[3] = CanonicalSource(k)
        /\ <<k.kind, n, CanonicalSource(k), kText>>[4] = kText
    OBVIOUS
  <2>3. <<j.kind, m, CanonicalSource(j), jText>> = <<k.kind, n, CanonicalSource(k), kText>>
    BY <2>1
  <2> QED
    BY <2>2, <2>3
<1>2. ASSUME NEW field \in Fields(j.kind)
      PROVE  j.args[field] = k.args[field]
  <2>1. j.kind \in Kinds
    BY DEF IsKey
  <2>2. CASE \E i \in DOMAIN labels : labels[i] = field
    <3>1. PICK i \in DOMAIN labels : labels[i] = field
      BY <2>2
    <3>2. jText[i] = j.args[labels[i]] /\ kText[i] = k.args[labels[i]]
      BY <1>1, <3>1
    <3> QED
      BY <1>1, <3>1, <3>2
  <2>3. CASE /\ field = "source"
             /\ \A key : key.kind = j.kind => CanonicalSource(key) = key.args.source
    BY <1>1, <2>3
  <2> QED
    BY <2>1, <2>2, <2>3, FieldsAreLabelled
<1> QED
  BY <1>1, <1>2, KeysEqual

(* Keys of one group are equal but for the parameter. *)
LEMMA SameGroupKeys ==
  ASSUME NEW j, NEW k, IsKey(j), IsKey(k)
  PROVE  GroupKey(j) = GroupKey(k)
           <=> /\ j.kind = k.kind /\ j.symbol = k.symbol
               /\ \A field \in Fields(k.kind) \ {Parameter(k.kind)} : j.args[field] = k.args[field]
<1> DEFINE jArgs == [field \in Fields(j.kind) \ {Parameter(j.kind)} |-> j.args[field]]
           kArgs == [field \in Fields(k.kind) \ {Parameter(k.kind)} |-> k.args[field]]
<1>1. /\ GroupKey(j) = [kind |-> j.kind, args |-> jArgs, symbol |-> j.symbol]
      /\ GroupKey(k) = [kind |-> k.kind, args |-> kArgs, symbol |-> k.symbol]
  <2>1. DOMAIN j.args = Fields(j.kind) /\ DOMAIN k.args = Fields(k.kind)
    BY DEF IsKey
  <2>2. /\ Restrict(j.args, DOMAIN j.args \ {Parameter(j.kind)}) = jArgs
        /\ Restrict(k.args, DOMAIN k.args \ {Parameter(k.kind)}) = kArgs
    BY <2>1 DEF Restrict
  <2> HIDE DEF jArgs, kArgs
  <2> QED
    BY <2>2 DEF GroupKey, IsKey
<1>2. ASSUME GroupKey(j) = GroupKey(k)
      PROVE  j.kind = k.kind /\ j.symbol = k.symbol /\ jArgs = kArgs
  <2> HIDE DEF jArgs, kArgs
  <2> QED
    BY <1>1, <1>2
<1>3. ASSUME NEW field \in Fields(k.kind) \ {Parameter(k.kind)}, jArgs = kArgs
      PROVE  j.args[field] = k.args[field]
  <2>1. kArgs[field] = k.args[field] /\ DOMAIN kArgs = Fields(k.kind) \ {Parameter(k.kind)}
    OBVIOUS
  <2>2. DOMAIN jArgs = Fields(j.kind) \ {Parameter(j.kind)}
    OBVIOUS
  <2>3. field \in Fields(j.kind) \ {Parameter(j.kind)}
    BY <1>3, <2>1, <2>2
  <2>4. jArgs[field] = j.args[field]
    BY <2>3
  <2> QED
    BY <1>3, <2>1, <2>4
<1>4. ASSUME j.kind = k.kind, j.symbol = k.symbol,
             \A field \in Fields(k.kind) \ {Parameter(k.kind)} : j.args[field] = k.args[field]
      PROVE  GroupKey(j) = GroupKey(k)
  <2>1. jArgs = kArgs
    BY <1>4
  <2> HIDE DEF jArgs, kArgs
  <2> QED
    BY <1>1, <1>4, <2>1
<1> QED
  BY <1>2, <1>3, <1>4

LEMMA NoneIsNoField ==
  ASSUME NEW kind \in Kinds
  PROVE  None \notin Fields(kind)
BY DEF None, Kinds, TimedKinds, TimedFieldKinds, TimedTradeKinds, OrderBookKinds, QuoteKinds,
   PriceKinds, RankKinds, SizeKinds, ReturnKinds, SampleKinds, CalendarKinds, Fields

(* A key without a parameter has no other in its group. *)
LEMMA LoneKeys ==
  ASSUME NEW j, NEW k, IsKey(j), IsKey(k), GroupKey(j) = GroupKey(k), Parameter(k.kind) = None
  PROVE  j = k
<1>1. /\ j.kind = k.kind /\ j.symbol = k.symbol
      /\ \A field \in Fields(k.kind) \ {None} : j.args[field] = k.args[field]
  BY SameGroupKeys
<1>2. None \notin Fields(k.kind)
  BY NoneIsNoField DEF IsKey
<1> QED
  BY <1>1, <1>2, KeysEqual

(* What a key is refused for is not what a definition is refused for among  *)
(* others.                                                                  *)
LEMMA KeyErrorsAreOwn ==
  ASSUME NEW key, key.kind \in Kinds
  PROVE  KeyError(key) \notin {"DuplicateFeatureId", "DuplicateScalarDerivation"}
<1>1. \A kind \in OrderBookKinds : \A args :
        BookKeyError(kind, args) \in {Valid, "OrderBookPriceNegative", "OrderBookDepthZero",
                                     "OrderBookSizeNotPositive", "OrderBookPriceRangeInvalid"}
  BY DEF BookKeyError, OrderBookKinds, Unless
<1>2. \A kind, samples :
        SampleError(kind, samples) \in {Valid, "WindowTooShort", "WindowTooLarge"}
  BY DEF SampleError
<1>3. \A d : DurationError(d) \in {Valid, "DurationPrecision", "DurationOutOfRange"}
  BY DEF DurationError
<1>4. \A aggregation, window :
        TimedError(aggregation, window)
          \in {Valid, "DurationPrecision", "DurationOutOfRange", "AggregationTooShort",
               "WindowShorterThanAggregation", "WindowNotMultipleOfAggregation"}
  BY <1>3 DEF TimedError
<1>5. \A offset : OffsetError(offset) \in {Valid, "UtcOffsetOutOfRange", "UtcOffsetPrecision"}
  BY DEF OffsetError
<1>6. \A holds, error : Unless(holds, error) \in {Valid, error}
  BY DEF Unless
<1>7. KeyError(key) \in
        (IF key.kind \in OrderBookKinds THEN {BookKeyError(key.kind, key.args)} ELSE {})
        \cup {SampleError(key.kind, key.args[Parameter(key.kind)]),
         TimedError(key.args.aggregation, key.args.window), OffsetError(key.args.utc_offset),
         Unless(key.args.name # "", "EmptyContextName"), Valid}
  BY DEF KeyError
<1> DEFINE own == {"DuplicateFeatureId", "DuplicateScalarDerivation"}
           args == key.args
<1>8. key.kind \in OrderBookKinds => BookKeyError(key.kind, args) \notin own
  BY <1>1 DEF Valid
<1>9. /\ SampleError(key.kind, args[Parameter(key.kind)]) \notin own
      /\ TimedError(args.aggregation, args.window) \notin own
      /\ OffsetError(args.utc_offset) \notin own
  BY <1>2, <1>4, <1>5 DEF Valid
<1>10. Unless(args.name # "", "EmptyContextName") \notin own /\ Valid \notin own
  BY <1>6 DEF Valid
<1> QED
  BY <1>7, <1>8, <1>9, <1>10

-----------------------------------------------------------------------------
(* Sequences of anything. *)

IsSeq(s) == s \in Seq({s[i] : i \in DOMAIN s})

LEMMA SeqFacts ==
  ASSUME NEW s, IsSeq(s)
  PROVE  Len(s) \in Nat /\ DOMAIN s = 1 .. Len(s)
BY DEF IsSeq

LEMMA SeqOfElements ==
  ASSUME NEW S, NEW s \in Seq(S)
  PROVE  IsSeq(s)
<1> DEFINE T == {s[i] : i \in DOMAIN s}
           n == Len(s)
<1>1. n \in Nat /\ DOMAIN s = 1 .. n /\ s = [i \in 1 .. n |-> s[i]]
  OBVIOUS
<1>2. \A i \in 1 .. n : s[i] \in T
  BY <1>1
<1> HIDE DEF T, n
<1>3. [i \in 1 .. n |-> s[i]] \in [1 .. n -> T]
  BY <1>1, <1>2
<1>4. s \in UNION {[1 .. k -> T] : k \in Nat}
  BY <1>1, <1>3
<1> QED
  BY <1>4, SeqDef DEF IsSeq, T

LEMMA AppendFacts ==
  ASSUME NEW s, IsSeq(s), NEW e
  PROVE  /\ IsSeq(Append(s, e)) /\ Len(Append(s, e)) = Len(s) + 1
         /\ \A i \in 1 .. Len(s) : Append(s, e)[i] = s[i]
         /\ Append(s, e)[Len(s) + 1] = e
<1> DEFINE S == {s[i] : i \in DOMAIN s}
           T == S \cup {e}
<1>1. s \in Seq(T)
  BY SeqMonotonic DEF IsSeq
<1>2. e \in T
  OBVIOUS
<1> HIDE DEF T
<1>3. /\ Append(s, e) \in Seq(T) /\ Len(Append(s, e)) = Len(s) + 1
      /\ \A i \in 1 .. Len(s) : Append(s, e)[i] = s[i]
      /\ Append(s, e)[Len(s) + 1] = e
  BY <1>1, <1>2, AppendProperties
<1> QED
  BY <1>3, SeqOfElements

-----------------------------------------------------------------------------
(* Names and definitions. *)

NamesAre == IsSeq(names) /\ \A i, j \in DOMAIN names : names[i] = names[j] => i = j

IsTimed(key) ==
  key.kind \in TimedKinds => key.args.aggregation \in Nat /\ key.args.window \in Nat

HasSource(key) ==
  "source" \in Fields(key.kind) => key.args.source \in SourcesOf(key.kind, ToSet(EventKinds))

DefinitionIs(interned, d) ==
  /\ IsKey(d.key) /\ IsTimed(d.key) /\ HasSource(d.key)
  /\ d.key.symbol + 1 \in DOMAIN interned /\ d.key.symbol \in Int
  /\ d.name \in Names /\ interned[d.key.symbol + 1] = Canonical[d.name]
  /\ d.custom \in BOOLEAN
  /\ ~ d.custom => d.id = DefaultId(d.key, interned[d.key.symbol + 1])

DefinitionsAre ==
  /\ IsSeq(definitions)
  /\ \A i \in 1 .. Len(definitions) : DefinitionIs(names, definitions[i])

CompilerInvariant == NamesAre /\ DefinitionsAre /\ (extractor = NotYet \/ extractor = Built)

(* Names that are interned keep their symbols, and a name that is gets one. *)
LEMMA InternKeeps ==
  ASSUME NamesAre, NEW name \in Names, Intern(name)
  PROVE  /\ NamesAre'
         /\ \A i \in DOMAIN names : i \in DOMAIN names' /\ names'[i] = names[i]
         /\ SymbolIn(names', name) \in Int /\ SymbolIn(names', name) + 1 \in DOMAIN names'
         /\ names'[SymbolIn(names', name) + 1] = Canonical[name]
<1> DEFINE new == Canonical[name]
           n == Len(names)
<1>1. n \in Nat /\ DOMAIN names = 1 .. n /\ IsSeq(names)
  BY SeqFacts DEF NamesAre
<1>2. CASE Known(name)
  <2>1. names' = names
    BY <1>2 DEF Intern, WithName
  <2>2. NamesAre'
    BY <2>1 DEF NamesAre, IsSeq
  <2>3. \E i \in DOMAIN names : names[i] = new
    BY <1>2 DEF Known, ToSet
  <2> DEFINE at == CHOOSE i \in DOMAIN names : names[i] = new
  <2>4. at \in DOMAIN names /\ names[at] = new
    BY <2>3
  <2>5. SymbolIn(names', name) = at - 1
    BY <2>1 DEF SymbolIn
  <2> HIDE DEF at
  <2>6. at \in Int /\ at - 1 + 1 = at
    BY <1>1, <2>4
  <2> QED
    BY <2>1, <2>2, <2>4, <2>5, <2>6
<1>3. CASE ~ Known(name)
  <2>1. names' = Append(names, new)
    BY <1>3 DEF Intern, WithName
  <2>2. \A i \in 1 .. n : names[i] # new
    BY <1>1, <1>3 DEF Known, ToSet
  <2>3. /\ IsSeq(names') /\ Len(names') = n + 1
        /\ \A i \in 1 .. n : names'[i] = names[i]
        /\ names'[n + 1] = new
    BY <1>1, <2>1, AppendFacts
  <2>4. DOMAIN names' = 1 .. n + 1
    BY <2>3, SeqFacts
  <2>5. ASSUME NEW i \in 1 .. n + 1, NEW j \in 1 .. n + 1, names'[i] = names'[j]
        PROVE  i = j
    BY <1>1, <2>2, <2>3, <2>5 DEF NamesAre
  <2>6. NamesAre'
    BY <2>3, <2>4, <2>5 DEF NamesAre, IsSeq
  <2> DEFINE at == CHOOSE i \in DOMAIN names' : names'[i] = new
  <2>7. at \in DOMAIN names' /\ names'[at] = new
    BY <1>1, <2>3, <2>4
  <2>8. SymbolIn(names', name) = at - 1
    BY DEF SymbolIn
  <2> HIDE DEF at
  <2>9. at \in Int /\ at - 1 + 1 = at
    BY <1>1, <2>4, <2>7
  <2> QED
    BY <1>1, <2>3, <2>4, <2>6, <2>7, <2>8, <2>9
<1> QED
  BY <1>2, <1>3

LEMMA DefinitionStays ==
  ASSUME NEW before, NEW after, NEW d, DefinitionIs(before, d),
         \A i \in DOMAIN before : i \in DOMAIN after /\ after[i] = before[i]
  PROVE  DefinitionIs(after, d)
BY DEF DefinitionIs

LEMMA InternKeepsDefinitions ==
  ASSUME CompilerInvariant, NEW name \in Names, Intern(name), UNCHANGED definitions
  PROVE  NamesAre' /\ DefinitionsAre'
<1>1. NamesAre' /\ \A i \in DOMAIN names : i \in DOMAIN names' /\ names'[i] = names[i]
  BY InternKeeps DEF CompilerInvariant
<1>2. \A i \in 1 .. Len(definitions) : DefinitionIs(names', definitions[i])
  BY <1>1, DefinitionStays DEF CompilerInvariant, DefinitionsAre
<1> QED
  BY <1>1, <1>2 DEF CompilerInvariant, DefinitionsAre, IsSeq

LEMMA AddFeatureKeeps ==
  ASSUME CompilerInvariant, NEW request \in Requests, AddFeature(request)
  PROVE  CompilerInvariant'
<1> DEFINE symbol == SymbolIn(names', request.name)
           key == [kind |-> request.kind, args |-> request.args, symbol |-> symbol]
           d == [key |-> key, name |-> request.name, custom |-> request.id # DefaultIdOf,
                 id |-> IF request.id = DefaultIdOf
                          THEN DefaultId(key, Resolve(names', key.symbol)) ELSE request.id]
           n == Len(definitions)
<1>1. /\ request.name \in Names /\ request.kind \in Kinds
      /\ request.args = [field \in Fields(request.kind) |-> request.args[field]]
  BY CompilerAssumption
<1>2. /\ NamesAre' /\ symbol \in Int /\ symbol + 1 \in DOMAIN names'
      /\ names'[symbol + 1] = Canonical[request.name]
      /\ \A i \in DOMAIN names : i \in DOMAIN names' /\ names'[i] = names[i]
  BY <1>1, InternKeeps DEF AddFeature, CompilerInvariant
<1>3. definitions' = Append(definitions, d)
  BY DEF AddFeature
<1>4. DefinitionIs(names', d)
  <2> HIDE DEF symbol
  <2>1. IsKey(key) /\ IsTimed(key) /\ HasSource(key)
    BY <1>1, CompilerAssumption DEF IsKey, IsTimed, HasSource
  <2>2. key.symbol = symbol
    OBVIOUS
  <2> HIDE DEF key
  <2>3. /\ d.key = key /\ d.name = request.name /\ d.custom \in BOOLEAN
        /\ ~ d.custom => d.id = DefaultId(key, names'[symbol + 1])
    BY <2>2 DEF Resolve
  <2> HIDE DEF d
  <2> QED
    BY <1>1, <1>2, <2>1, <2>2, <2>3 DEF DefinitionIs
<1> HIDE DEF d
<1>5. /\ IsSeq(definitions) /\ n \in Nat
      /\ \A i \in 1 .. n : DefinitionIs(names', definitions[i])
  BY <1>2, DefinitionStays, SeqFacts DEF CompilerInvariant, DefinitionsAre
<1>6. /\ IsSeq(definitions') /\ Len(definitions') = n + 1
      /\ \A i \in 1 .. n : definitions'[i] = definitions[i]
      /\ definitions'[n + 1] = d
  BY <1>3, <1>5, AppendFacts
<1>7. ASSUME NEW i \in 1 .. n + 1
      PROVE  DefinitionIs(names', definitions'[i])
  <2>1. CASE i = n + 1
    BY <1>4, <1>6, <2>1
  <2>2. CASE i # n + 1
    BY <1>5, <1>6, <2>2
  <2> QED
    BY <2>1, <2>2
<1>8. DefinitionsAre'
  BY <1>6, <1>7 DEF DefinitionsAre, IsSeq
<1>9. extractor' = NotYet
  BY DEF AddFeature, Building
<1> QED
  BY <1>2, <1>8, <1>9 DEF CompilerInvariant, NotYet, Refusal, None

(* What a build ends in depends on what was told to the builder alone. *)
LEMMA BuiltStays ==
  ASSUME UNCHANGED <<length, definitions, books>>
  PROVE  Built' = Built
<1>1. Grouped' = Grouped
  BY DEF Grouped, GroupNext, DefinitionError, AddOutput, NewGroup, FoldLeft, MapThenFoldSet
<1> QED
  BY <1>1 DEF Built, BookMissing

LEMMA InitCompiler == CompilerInit => CompilerInvariant
<1> SUFFICES ASSUME CompilerInit PROVE CompilerInvariant
  OBVIOUS
<1>1. names = <<GLOBAL_NAME>> /\ definitions = <<>> /\ extractor = NotYet
  BY DEF CompilerInit, InternInit
<1>2. names \in Seq({GLOBAL_NAME}) /\ Len(names) = 1 /\ DOMAIN names = 1 .. 1
  BY <1>1
<1>3. IsSeq(names)
  BY <1>2, SeqOfElements
<1>4. definitions \in Seq({}) /\ Len(definitions) = 0
  BY <1>1
<1>5. IsSeq(definitions)
  BY <1>4, SeqOfElements
<1> QED
  BY <1>1, <1>2, <1>3, <1>4, <1>5 DEF CompilerInvariant, NamesAre, DefinitionsAre

LEMMA NextCompiler == CompilerInvariant /\ [CompilerNext]_builderVars => CompilerInvariant'
<1> SUFFICES ASSUME CompilerInvariant, [CompilerNext]_builderVars PROVE CompilerInvariant'
  OBVIOUS
<1>1. CASE \E request \in Requests : AddFeature(request)
  BY <1>1, AddFeatureKeeps
<1>2. CASE \E name \in BookNames : AddOrderBook(name)
  <2>1. PICK name \in BookNames : AddOrderBook(name)
    BY <1>2
  <2>2. name \in Names /\ Intern(name) /\ UNCHANGED definitions /\ extractor' = NotYet
    BY <2>1, CompilerAssumption DEF AddOrderBook, Building
  <2>3. NamesAre' /\ DefinitionsAre'
    BY <2>2, InternKeepsDefinitions
  <2> QED
    BY <2>2, <2>3 DEF CompilerInvariant, NotYet, Refusal, None
<1>3. CASE \E name \in Names : UseName(name)
  <2>1. PICK name \in Names : UseName(name)
    BY <1>3
  <2>2. Intern(name) /\ UNCHANGED <<length, definitions, books, extractor>>
    BY <2>1 DEF UseName
  <2>3. NamesAre' /\ DefinitionsAre' /\ Built' = Built
    BY <2>2, InternKeepsDefinitions, BuiltStays
  <2> QED
    BY <2>2, <2>3 DEF CompilerInvariant, NotYet, Refusal, None
<1>4. CASE Build
  <2>1. Built' = Built /\ extractor' = Built /\ UNCHANGED <<names, definitions>>
    BY <1>4, BuiltStays DEF Build
  <2> QED
    BY <2>1 DEF CompilerInvariant, NamesAre, DefinitionsAre, IsSeq
<1>5. CASE UNCHANGED builderVars
  <2>1. Built' = Built /\ UNCHANGED <<names, definitions, extractor>>
    BY <1>5, BuiltStays DEF builderVars
  <2> QED
    BY <2>1 DEF CompilerInvariant, NamesAre, DefinitionsAre, IsSeq, NotYet, Refusal, None
<1> QED
  BY <1>1, <1>2, <1>3, <1>4, <1>5 DEF CompilerNext

(* Whatever is defined and whatever other threads intern meanwhile: names   *)
(* stay apart, a definition keeps its symbol and its ID, and an extractor   *)
(* is that of the definitions that were made.                               *)
THEOREM CompilerInvariance == CompilerSpec => []CompilerInvariant
BY InitCompiler, NextCompiler, PTL DEF CompilerSpec

-----------------------------------------------------------------------------
(* Groups. *)

(* The definitions of a group among the first k. *)
Members(k, key) == {j \in 1 .. k : GroupKey(definitions[j].key) = key}

IsGroup(group) ==
  /\ group = [key |-> group.key, outputs |-> group.outputs, ids |-> group.ids,
              first |-> group.first]
  /\ IsSeq(group.outputs) /\ IsSeq(group.ids)
  /\ Len(group.outputs) = Len(group.ids) /\ Len(group.ids) \in 1 .. MaxOutputs

(* The n-th output of a group is that of the i-th definition. *)
Places(group, n, i) ==
  /\ n \in 1 .. Len(group.ids)
  /\ GroupKey(definitions[i].key) = group.key
  /\ group.outputs[n] = GroupOutput(definitions[i].key) /\ group.ids[n] = definitions[i].id

(* The groups of the first k definitions. *)
GroupsHold(groups, k) ==
  /\ IsSeq(groups)
  /\ \A g \in 1 .. Len(groups) :
       IsGroup(groups[g]) /\ Len(groups[g].ids) = Cardinality(Members(k, groups[g].key))
  /\ \A g, h \in 1 .. Len(groups) : groups[g].key = groups[h].key => g = h
  /\ \A g \in 1 .. Len(groups) : \A n \in 1 .. Len(groups[g].ids) :
       \E i \in 1 .. k : Places(groups[g], n, i)
  /\ \A i \in 1 .. k : \E g \in 1 .. Len(groups) : \E n : Places(groups[g], n, i)
  /\ \A g, h \in 1 .. Len(groups) :
       \A m \in 1 .. Len(groups[g].ids), n \in 1 .. Len(groups[h].ids) :
         groups[g].ids[m] = groups[h].ids[n] => g = h /\ m = n

LEMMA MembersGrow ==
  ASSUME NEW k \in Nat, NEW key
  PROVE  /\ IsFiniteSet(Members(k, key)) /\ Cardinality(Members(k, key)) \in Nat
         /\ Cardinality(Members(k + 1, key))
              = Cardinality(Members(k, key))
                  + (IF GroupKey(definitions[k + 1].key) = key THEN 1 ELSE 0)
<1>1. IsFiniteSet(Members(k, key))
  <2>1. IsFiniteSet(1 .. k) /\ Members(k, key) \subseteq 1 .. k
    BY FS_Interval DEF Members
  <2> QED
    BY <2>1, FS_Subset
<1>2. Cardinality(Members(k, key)) \in Nat
  BY <1>1, FS_CardinalityType
<1>3. CASE GroupKey(definitions[k + 1].key) = key
  <2>1. Members(k + 1, key) = Members(k, key) \cup {k + 1} /\ k + 1 \notin Members(k, key)
    BY <1>3 DEF Members
  <2> QED
    BY <1>1, <1>2, <1>3, <2>1, FS_AddElement
<1>4. CASE GroupKey(definitions[k + 1].key) # key
  <2>1. Members(k + 1, key) = Members(k, key)
    BY <1>4 DEF Members
  <2> QED
    BY <1>1, <1>2, <1>4, <2>1
<1> QED
  BY <1>3, <1>4

(* The group of a key is that of the definitions that share it. *)
LEMMA SameGroupFacts ==
  ASSUME NEW k \in Nat, NEW groups, GroupsHold(groups, k), NEW key
  PROVE  /\ SameGroup(groups, key) = {} <=> Members(k, GroupKey(key)) = {}
         /\ \A g \in SameGroup(groups, key) :
              /\ g \in 1 .. Len(groups) /\ SameGroup(groups, key) = {g}
              /\ groups[g].key = GroupKey(key)
<1>1. DOMAIN groups = 1 .. Len(groups)
  BY SeqFacts DEF GroupsHold
<1>2. SameGroup(groups, key) = {g \in 1 .. Len(groups) : groups[g].key = GroupKey(key)}
  BY <1>1 DEF SameGroup
<1>3. ASSUME NEW g \in SameGroup(groups, key)
      PROVE  SameGroup(groups, key) = {g} /\ Members(k, GroupKey(key)) # {}
  <2>1. g \in 1 .. Len(groups) /\ groups[g].key = GroupKey(key)
    BY <1>2
  <2>2. 1 \in 1 .. Len(groups[g].ids)
    <3>1. Len(groups[g].ids) \in 1 .. MaxOutputs /\ MaxOutputs \in Nat
      BY <2>1, CompilerAssumption DEF GroupsHold, IsGroup
    <3> QED
      BY <3>1
  <2>3. PICK i \in 1 .. k : Places(groups[g], 1, i)
    BY <2>1, <2>2 DEF GroupsHold
  <2>4. i \in Members(k, GroupKey(key))
    BY <2>1, <2>3 DEF Places, Members
  <2>5. \A h \in SameGroup(groups, key) : h = g
    BY <1>2, <2>1 DEF GroupsHold
  <2> QED
    BY <2>4, <2>5
<1>4. ASSUME NEW i \in Members(k, GroupKey(key))
      PROVE  SameGroup(groups, key) # {}
  <2>1. i \in 1 .. k /\ GroupKey(definitions[i].key) = GroupKey(key)
    BY DEF Members
  <2>2. PICK g \in 1 .. Len(groups) : \E n : Places(groups[g], n, i)
    BY <2>1 DEF GroupsHold
  <2> QED
    BY <1>2, <2>1, <2>2 DEF Places
<1> QED
  BY <1>2, <1>3, <1>4

LEMMA SiblingsAreMembers ==
  ASSUME DefinitionsAre, NEW i \in 1 .. Len(definitions)
  PROVE  Siblings(i) = Members(i - 1, GroupKey(definitions[i].key))
<1>1. \A j \in 1 .. i - 1 : IsKey(definitions[j].key) /\ IsKey(definitions[i].key)
  <2>1. Len(definitions) \in Nat
    BY SeqFacts DEF DefinitionsAre
  <2> QED
    BY <2>1 DEF DefinitionsAre, DefinitionIs
<1>2. \A j \in 1 .. i - 1 :
        GroupKey(definitions[j].key) = GroupKey(definitions[i].key)
          <=> /\ definitions[j].key.kind = definitions[i].key.kind
              /\ definitions[j].key.symbol = definitions[i].key.symbol
              /\ \A field \in Fields(definitions[i].key.kind)
                                \ {Parameter(definitions[i].key.kind)} :
                   definitions[j].key.args[field] = definitions[i].key.args[field]
  BY <1>1, SameGroupKeys
<1> QED
  BY <1>2 DEF Siblings, Members

(* A definition is refused for a fault of its own or with earlier ones. *)
LEMMA ErrorsAreFaults ==
  ASSUME NamesAre, DefinitionsAre, NEW i \in 1 .. Len(definitions),
         NEW groups, GroupsHold(groups, i - 1)
  PROVE  /\ DefinitionError(groups, i) # Valid <=> Faulty(i)
         /\ DefinitionError(groups, i) # "DuplicateScalarDerivation"
         /\ DefinitionError(groups, i) = "DuplicateFeatureId" =>
              \E j \in 1 .. i : definitions[j].id = definitions[i].id /\ definitions[j].custom
<1> DEFINE d == definitions[i]
           same == SameGroup(groups, d.key)
           error == DefinitionError(groups, i)
           KeyTaken == \E j \in 1 .. i - 1 : definitions[j].key = d.key
           IdTaken == \E j \in 1 .. i - 1 : definitions[j].id = d.id
           IsFull == \E g \in same : FullGroup(groups[g])
           lone == same # {} /\ Parameter(d.key.kind) = None
<1>1. /\ Len(definitions) \in Nat /\ i \in Nat /\ i - 1 \in Nat
      /\ \A j \in 1 .. i : DefinitionIs(names, definitions[j])
  <2>1. Len(definitions) \in Nat
    BY SeqFacts DEF DefinitionsAre
  <2> QED
    BY <2>1 DEF DefinitionsAre
<1>2. error = IF KeyTaken THEN "DuplicateFeatureKey"
              ELSE IF IdTaken THEN "DuplicateFeatureId"
              ELSE IF d.id \in ReservedIds THEN "ReservedFeatureId"
              ELSE IF KeyError(d.key) # Valid THEN KeyError(d.key)
              ELSE IF IsFull THEN "CompatibleGroupOutputLimitExceeded"
              ELSE IF lone THEN "DuplicateScalarDerivation" ELSE Valid
  <2>1. /\ d.key \in {x.key : x \in {definitions[j] : j \in 1 .. i - 1}} <=> KeyTaken
        /\ d.id \in {x.id : x \in {definitions[j] : j \in 1 .. i - 1}} <=> IdTaken
    BY Zenon
  <2> QED
    BY <2>1 DEF DefinitionError
<1>3. d.key.kind \in Kinds /\ IsKey(d.key)
  BY <1>1 DEF DefinitionIs, IsKey
<1>4. KeyError(d.key) \notin {"DuplicateFeatureId", "DuplicateScalarDerivation"}
  BY <1>3, KeyErrorsAreOwn
<1>5. /\ same = {} <=> Siblings(i) = {}
      /\ IsFull <=> Cardinality(Siblings(i)) >= MaxOutputs
  <2>1. Siblings(i) = Members(i - 1, GroupKey(d.key))
    BY SiblingsAreMembers
  <2>2. CASE same = {}
    <3>1. Cardinality(Siblings(i)) = 0 /\ MaxOutputs \in Nat \ {0} /\ Siblings(i) = {}
      BY <1>1, <2>1, <2>2, SameGroupFacts, FS_EmptySet, CompilerAssumption
    <3> QED
      BY <2>2, <3>1
  <2>3. CASE same # {}
    <3>1. PICK g \in same : TRUE
      BY <2>3
    <3>2. same = {g} /\ g \in 1 .. Len(groups) /\ groups[g].key = GroupKey(d.key)
          /\ Siblings(i) # {}
      BY <1>1, <2>1, <2>3, <3>1, SameGroupFacts
    <3>3. Len(groups[g].ids) = Cardinality(Siblings(i)) /\ Len(groups[g].ids) \in 1 .. MaxOutputs
      BY <2>1, <3>2 DEF GroupsHold, IsGroup
    <3>4. MaxOutputs \in Nat
      BY CompilerAssumption
    <3> QED
      BY <2>3, <3>2, <3>3, <3>4 DEF FullGroup
  <2> QED
    BY <2>2, <2>3
<1>6. Siblings(i) # {} /\ Parameter(d.key.kind) = None => KeyTaken
  <2> SUFFICES ASSUME Siblings(i) # {}, Parameter(d.key.kind) = None PROVE KeyTaken
    OBVIOUS
  <2>1. PICK j \in 1 .. i - 1 : GroupKey(definitions[j].key) = GroupKey(d.key)
    BY SiblingsAreMembers DEF Members
  <2>2. IsKey(definitions[j].key)
    BY <1>1 DEF DefinitionIs
  <2>3. definitions[j].key = d.key
    BY <1>3, <2>1, <2>2, LoneKeys
  <2> QED
    BY <2>3
<1>7. Faulty(i) <=> \/ KeyTaken \/ IdTaken \/ d.id \in ReservedIds \/ KeyError(d.key) # Valid
                    \/ Parameter(d.key.kind) # None /\ Cardinality(Siblings(i)) >= MaxOutputs
  BY DEF Faulty
<1>8. \/ KeyTaken \/ ~ IdTaken
      \/ \E j \in 1 .. i : definitions[j].id = d.id /\ definitions[j].custom
  <2> SUFFICES ASSUME IdTaken, ~ KeyTaken
               PROVE  \E j \in 1 .. i : definitions[j].id = d.id /\ definitions[j].custom
    OBVIOUS
  <2>1. PICK j \in 1 .. i - 1 : definitions[j].id = d.id
    OBVIOUS
  <2>2. CASE d.custom
    BY <1>1, <2>2
  <2>3. CASE definitions[j].custom
    BY <1>1, <2>1, <2>3
  <2>4. CASE ~ d.custom /\ ~ definitions[j].custom
    <3> DEFINE c == definitions[j]
    <3>1. /\ c.id = DefaultId(c.key, names[c.key.symbol + 1]) /\ IsKey(c.key)
          /\ c.key.symbol + 1 \in DOMAIN names /\ c.key.symbol \in Int
      BY <1>1, <2>4 DEF DefinitionIs
    <3>2. /\ d.id = DefaultId(d.key, names[d.key.symbol + 1])
          /\ d.key.symbol + 1 \in DOMAIN names /\ d.key.symbol \in Int
      BY <1>1, <2>4 DEF DefinitionIs
    <3> DEFINE m == names[c.key.symbol + 1]
               n == names[d.key.symbol + 1]
    <3>3. m = n => c.key.symbol = d.key.symbol
      BY <3>1, <3>2 DEF NamesAre
    <3>4. DefaultId(c.key, m) = DefaultId(d.key, n) /\ IsKey(c.key) /\ IsKey(d.key)
      BY <1>3, <2>1, <3>1, <3>2
    <3> HIDE DEF m, n, c, d
    <3>5. c.key = d.key
      BY <3>3, <3>4, DefaultIdsDiffer
    <3> QED
      BY <3>5 DEF c, d
  <2> QED
    BY <1>1, <2>2, <2>3, <2>4
<1> HIDE DEF KeyTaken, IdTaken, error, d, same, IsFull
<1>9. error # Valid <=> Faulty(i)
  <2>1. lone => KeyTaken
    BY <1>5, <1>6 DEF lone
  <2>2. same = {} => ~ IsFull
    BY DEF IsFull
  <2>3. error # Valid <=> \/ KeyTaken \/ IdTaken \/ d.id \in ReservedIds
                          \/ KeyError(d.key) # Valid \/ IsFull
    BY <1>2, <2>1 DEF Valid
  <2>4. IsFull /\ Parameter(d.key.kind) = None => KeyTaken
    BY <2>1, <2>2 DEF lone
  <2> QED
    BY <1>5, <1>7, <2>3, <2>4
<1>10. error # "DuplicateScalarDerivation"
  BY <1>2, <1>4, <1>5, <1>6 DEF Valid, lone
<1>11. error = "DuplicateFeatureId" => ~ KeyTaken /\ IdTaken
  BY <1>2, <1>4 DEF Valid
<1> QED
  BY <1>8, <1>9, <1>10, <1>11 DEF error, d

(* Where a definition is added: at the end of the group of its key, which   *)
(* may be a new one.                                                        *)
Added(groups, next, i, at) ==
  /\ IsSeq(next) /\ at \in 1 .. Len(next)
  /\ \A g \in 1 .. Len(groups) : g \in 1 .. Len(next)
  /\ \A g \in 1 .. Len(next) :
       /\ IsGroup(next[g])
       /\ g # at => /\ g \in 1 .. Len(groups) /\ next[g] = groups[g]
                    /\ groups[g].key # GroupKey(definitions[i].key)
  /\ Places(next[at], Len(next[at].ids), i)
  /\ IF at \in 1 .. Len(groups)
       THEN /\ groups[at].key = next[at].key
            /\ Len(next[at].ids) = Len(groups[at].ids) + 1
            /\ \A m \in 1 .. Len(groups[at].ids) :
                 /\ next[at].ids[m] = groups[at].ids[m]
                 /\ next[at].outputs[m] = groups[at].outputs[m]
       ELSE Len(next[at].ids) = 1

LEMMA NewGroupIsAdded ==
  ASSUME NEW k \in Nat, NEW groups, GroupsHold(groups, k),
         SameGroup(groups, definitions[k + 1].key) = {}
  PROVE  \E at : Added(groups, AddOutput(groups, k + 1), k + 1, at)
<1> DEFINE d == definitions[k + 1]
           next == AddOutput(groups, k + 1)
           n == Len(groups)
           new == NewGroup(d, k + 1)
<1>1. IsSeq(groups) /\ n \in Nat /\ DOMAIN groups = 1 .. n
  BY SeqFacts DEF GroupsHold
<1>2. next = Append(groups, new)
  BY DEF AddOutput
<1>3. /\ IsSeq(next) /\ Len(next) = n + 1
      /\ \A g \in 1 .. n : next[g] = groups[g]
      /\ next[n + 1] = new
  <2> HIDE DEF next, new
  <2> QED
    BY <1>1, <1>2, AppendFacts
<1>4. \A g \in 1 .. n : groups[g].key # GroupKey(d.key) /\ IsGroup(groups[g])
  BY <1>1 DEF SameGroup, GroupsHold
<1>5. IsGroup(new) /\ Places(new, 1, k + 1) /\ Len(new.ids) = 1
  <2> DEFINE out == GroupOutput(d.key)
             id == d.id
             key == GroupKey(d.key)
  <2>1. new = [key |-> key, outputs |-> <<out>>, ids |-> <<id>>, first |-> k + 1]
    BY DEF NewGroup
  <2> HIDE DEF out, id, key, new
  <2>2. /\ new = [key |-> new.key, outputs |-> new.outputs, ids |-> new.ids, first |-> new.first]
        /\ new.outputs = <<out>> /\ new.ids = <<id>> /\ new.key = key
    BY <2>1
  <2>3. <<out>> \in Seq({out}) /\ <<id>> \in Seq({id})
    OBVIOUS
  <2>4. /\ IsSeq(<<out>>) /\ IsSeq(<<id>>) /\ Len(<<out>>) = 1 /\ Len(<<id>>) = 1
        /\ <<out>>[1] = out /\ <<id>>[1] = id
    BY <2>3, SeqOfElements
  <2>5. 1 \in 1 .. MaxOutputs
    BY CompilerAssumption
  <2>6. IsGroup(new)
    BY <2>2, <2>4, <2>5 DEF IsGroup
  <2>7. Places(new, 1, k + 1)
    BY <2>2, <2>4 DEF Places, out, id, key
  <2> QED
    BY <2>2, <2>4, <2>6, <2>7
<1> HIDE DEF d, next, new
<1>6. n + 1 \in 1 .. n + 1 /\ n + 1 \notin 1 .. n
      /\ \A g \in 1 .. n + 1 : g # n + 1 => g \in 1 .. n
  BY <1>1
<1>7. Added(groups, next, k + 1, n + 1)
  BY <1>1, <1>3, <1>4, <1>5, <1>6 DEF Added, d
<1> QED
  BY <1>7 DEF next

LEMMA WithOutputFacts ==
  ASSUME NEW group, IsGroup(group), NEW d
  PROVE  LET new == WithOutput(group, d)
         IN  /\ new = [key |-> new.key, outputs |-> new.outputs, ids |-> new.ids,
                       first |-> new.first]
             /\ new.key = group.key
             /\ new.outputs = Append(group.outputs, GroupOutput(d.key))
             /\ new.ids = Append(group.ids, d.id)
<1> DEFINE outputs == Append(group.outputs, GroupOutput(d.key))
           ids == Append(group.ids, d.id)
<1>1. WithOutput(group, d) = [group EXCEPT !.outputs = outputs, !.ids = ids]
  BY DEF WithOutput
<1> HIDE DEF outputs, ids
<1>2. WithOutput(group, d)
        = [key |-> group.key, outputs |-> outputs, ids |-> ids, first |-> group.first]
  BY <1>1 DEF IsGroup
<1> QED
  BY <1>2 DEF outputs, ids

LEMMA OldGroupIsAdded ==
  ASSUME NEW k \in Nat, NEW groups, GroupsHold(groups, k),
         SameGroup(groups, definitions[k + 1].key) # {},
         \A g \in SameGroup(groups, definitions[k + 1].key) : ~ FullGroup(groups[g])
  PROVE  \E at : Added(groups, AddOutput(groups, k + 1), k + 1, at)
<1> DEFINE d == definitions[k + 1]
           next == AddOutput(groups, k + 1)
           n == Len(groups)
           same == SameGroup(groups, d.key)
           at == CHOOSE g \in same : TRUE
           old == groups[at]
           out == GroupOutput(d.key)
           id == d.id
           new == WithOutput(old, d)
<1>1. IsSeq(groups) /\ n \in Nat /\ DOMAIN groups = 1 .. n
  BY SeqFacts DEF GroupsHold
<1>2. next = [groups EXCEPT ![at] = new]
  BY DEF AddOutput
<1>3. at \in same
  OBVIOUS
<1> HIDE DEF at, new, next, out, id
<1>4. /\ at \in 1 .. n /\ old.key = GroupKey(d.key) /\ IsGroup(old)
      /\ Len(old.ids) # MaxOutputs
      /\ \A g \in 1 .. n : g # at => groups[g].key # GroupKey(d.key)
      /\ \A g \in 1 .. n : IsGroup(groups[g])
  BY <1>1, <1>3 DEF SameGroup, GroupsHold, FullGroup
<1>5. /\ Len(next) = n /\ next[at] = new
      /\ \A g \in 1 .. n : g # at => next[g] = groups[g]
      /\ IsSeq(next)
  <2>1. DOMAIN next = 1 .. n /\ next[at] = new
        /\ \A g \in 1 .. n : g # at => next[g] = groups[g]
    BY <1>1, <1>2, <1>4
  <2> DEFINE S == {groups[g] : g \in 1 .. n} \cup {new}
  <2>2. groups \in Seq(S)
    BY <1>1, SeqMonotonic DEF IsSeq
  <2>3. next \in Seq(S) /\ Len(next) = n
    <3>1. new \in S
      OBVIOUS
    <3> HIDE DEF S
    <3> QED
      BY <1>1, <1>2, <1>4, <2>2, <3>1
  <2> QED
    BY <2>1, <2>3, SeqOfElements
<1>6. /\ new = [key |-> new.key, outputs |-> new.outputs, ids |-> new.ids, first |-> new.first]
      /\ new.key = old.key /\ new.outputs = Append(old.outputs, out)
      /\ new.ids = Append(old.ids, id)
  BY <1>4, WithOutputFacts DEF new, out, id
<1> DEFINE m == Len(old.ids)
<1>7. /\ IsSeq(new.outputs) /\ IsSeq(new.ids) /\ m \in 1 .. MaxOutputs
      /\ Len(new.outputs) = m + 1 /\ Len(new.ids) = m + 1
      /\ new.outputs[m + 1] = out /\ new.ids[m + 1] = id
      /\ \A j \in 1 .. m : new.outputs[j] = old.outputs[j] /\ new.ids[j] = old.ids[j]
  BY <1>4, <1>6, AppendFacts DEF IsGroup
<1>8. MaxOutputs \in Nat /\ m + 1 \in 1 .. MaxOutputs /\ m + 1 \in 1 .. m + 1
  BY <1>4, <1>7, CompilerAssumption
<1>9. IsGroup(new)
  BY <1>6, <1>7, <1>8 DEF IsGroup
<1>10. Places(new, Len(new.ids), k + 1)
  BY <1>4, <1>6, <1>7, <1>8 DEF Places, out, id
<1> HIDE DEF old, d, m
<1>11. Added(groups, next, k + 1, at)
  BY <1>1, <1>4, <1>5, <1>6, <1>7, <1>9, <1>10 DEF Added, d, old, m
<1> QED
  BY <1>11 DEF next

LEMMA OutputIsAdded ==
  ASSUME NEW k \in Nat, NEW groups, GroupsHold(groups, k),
         DefinitionError(groups, k + 1) = Valid
  PROVE  \E at : Added(groups, AddOutput(groups, k + 1), k + 1, at)
<1>1. \A g \in SameGroup(groups, definitions[k + 1].key) : ~ FullGroup(groups[g])
  BY DEF DefinitionError, Valid
<1> QED
  BY <1>1, NewGroupIsAdded, OldGroupIsAdded

LEMMA GroupAdded ==
  ASSUME NEW k \in Nat, NEW groups, GroupsHold(groups, k),
         DefinitionError(groups, k + 1) = Valid
  PROVE  GroupsHold(AddOutput(groups, k + 1), k + 1)
<1> DEFINE i == k + 1
           d == definitions[i]
           next == AddOutput(groups, k + 1)
           n == Len(groups)
<1>1. \A j \in 1 .. k : definitions[j].id # d.id
  <2>1. d.id \notin {x.id : x \in {definitions[j] : j \in 1 .. i - 1}}
    BY DEF DefinitionError, Valid
  <2>2. 1 .. i - 1 = 1 .. k
    OBVIOUS
  <2>3. \A j \in 1 .. i - 1 : definitions[j].id # d.id
    <3> HIDE DEF d, i
    <3> QED
      BY <2>1, Zenon
  <2> QED
    BY <2>2, <2>3
<1>2. PICK at : Added(groups, next, i, at)
  BY OutputIsAdded
<1>3. IsSeq(groups) /\ n \in Nat /\ DOMAIN groups = 1 .. n
  BY SeqFacts DEF GroupsHold
<1> HIDE DEF next, d
<1> DEFINE new == next[at]
           last == Len(new.ids)
<1>4. /\ at \in 1 .. Len(next) /\ IsGroup(new) /\ Places(new, last, i) /\ last \in Nat \ {0}
      /\ new.key = GroupKey(d.key) /\ new.ids[last] = d.id
  <2>1. at \in 1 .. Len(next) /\ IsGroup(new) /\ Places(new, last, i)
    BY <1>2 DEF Added
  <2>2. MaxOutputs \in Nat
    BY CompilerAssumption
  <2> QED
    BY <2>1, <2>2 DEF IsGroup, Places, d
(* Outputs stay where they are, and there is one more. *)
<1>5. ASSUME NEW g \in 1 .. n
      PROVE  /\ g \in 1 .. Len(next) /\ next[g].key = groups[g].key
             /\ g = at => Len(next[g].ids) = Len(groups[g].ids) + 1
             /\ g # at => Len(next[g].ids) = Len(groups[g].ids)
             /\ Len(groups[g].ids) \in Nat
             /\ \A m \in 1 .. Len(groups[g].ids) :
                  next[g].ids[m] = groups[g].ids[m] /\ next[g].outputs[m] = groups[g].outputs[m]
  <2>1. IsGroup(groups[g]) /\ g \in 1 .. Len(next) /\ MaxOutputs \in Nat
    BY <1>2, CompilerAssumption DEF GroupsHold, Added
  <2>2. Len(groups[g].ids) \in Nat
    BY <2>1 DEF IsGroup
  <2>3. CASE g = at
    BY <1>2, <2>1, <2>2, <2>3 DEF Added
  <2>4. CASE g # at
    BY <1>2, <2>1, <2>2, <2>4 DEF Added
  <2> QED
    BY <2>3, <2>4
<1>6. ASSUME NEW g \in 1 .. Len(next), NEW m \in 1 .. Len(next[g].ids), ~ (g = at /\ m = last)
      PROVE  g \in 1 .. n /\ m \in 1 .. Len(groups[g].ids) /\ next[g].ids[m] = groups[g].ids[m]
  <2>1. CASE g = at
    <3>1. at \notin 1 .. n => last = 1
      BY <1>2 DEF Added
    <3>2. at \in 1 .. n
      <4>1. m \in 1 .. last /\ m # last
        BY <1>6, <2>1
      <4> HIDE DEF last
      <4> QED
        BY <3>1, <4>1
    <3>3. Len(next[g].ids) = Len(groups[g].ids) + 1 /\ Len(groups[g].ids) \in Nat
      BY <1>5, <2>1, <3>2
    <3>4. m \in 1 .. Len(groups[g].ids)
      BY <1>6, <2>1, <3>3
    <3> QED
      BY <1>5, <2>1, <3>2, <3>4
  <2>2. CASE g # at
    <3>1. g \in 1 .. n /\ next[g] = groups[g]
      BY <1>2, <2>2 DEF Added
    <3>2. m \in 1 .. Len(groups[g].ids)
      BY <3>1
    <3> QED
      BY <1>5, <3>1, <3>2
  <2> QED
    BY <2>1, <2>2
<1>7. ASSUME NEW g \in 1 .. n, NEW m, NEW j, Places(groups[g], m, j)
      PROVE  Places(next[g], m, j)
  <2> DEFINE before == Len(groups[g].ids)
             after == Len(next[g].ids)
  <2>1. before \in Nat /\ (after = before \/ after = before + 1) /\ m \in 1 .. before
    BY <1>5, <1>7 DEF Places
  <2>2. m \in 1 .. after
    <3> HIDE DEF before, after
    <3> QED
      BY <2>1
  <2> QED
    BY <1>5, <1>7, <2>2 DEF Places
<1>8. IsSeq(next) /\ \A g \in 1 .. Len(next) : IsGroup(next[g])
  BY <1>2 DEF Added
<1>9. ASSUME NEW g \in 1 .. Len(next)
      PROVE  Len(next[g].ids) = Cardinality(Members(i, next[g].key))
  <2> DEFINE key == next[g].key
  <2>1. /\ Cardinality(Members(i, key))
             = Cardinality(Members(k, key)) + (IF GroupKey(d.key) = key THEN 1 ELSE 0)
        /\ Cardinality(Members(k, key)) \in Nat
    BY MembersGrow DEF d
  <2>2. g \in 1 .. n => Len(groups[g].ids) = Cardinality(Members(k, key))
    BY <1>5 DEF GroupsHold
  <2>3. CASE g # at
    <3>1. g \in 1 .. n /\ key # GroupKey(d.key)
      BY <1>2, <1>5, <2>3 DEF Added, d
    <3> QED
      BY <1>5, <2>1, <2>2, <2>3, <3>1
  <2>4. CASE g = at /\ at \in 1 .. n
    BY <1>4, <1>5, <2>1, <2>2, <2>4
  <2>5. CASE g = at /\ at \notin 1 .. n
    <3>1. last = 1
      BY <1>2, <2>5 DEF Added
    <3>2. Members(k, key) = {}
      <4> SUFFICES ASSUME NEW j \in 1 .. k, GroupKey(definitions[j].key) = key PROVE FALSE
        BY DEF Members
      <4>1. PICK h \in 1 .. n : \E m : Places(groups[h], m, j)
        BY DEF GroupsHold
      <4>2. groups[h].key = GroupKey(d.key)
        BY <1>4, <2>5, <4>1 DEF Places
      <4>3. h \in 1 .. Len(next) /\ h # at
        BY <1>5, <2>5
      <4> QED
        BY <1>2, <4>2, <4>3 DEF Added, d
    <3>3. Cardinality(Members(k, key)) = 0
      BY <3>2, FS_EmptySet
    <3> QED
      BY <1>4, <2>1, <2>5, <3>1, <3>3
  <2> QED
    BY <2>3, <2>4, <2>5
<1>10. ASSUME NEW g \in 1 .. Len(next), NEW h \in 1 .. Len(next), next[g].key = next[h].key
       PROVE  g = h
  <2>1. \A f \in 1 .. Len(next) : f # at => f \in 1 .. n /\ next[f].key # next[at].key
    BY <1>2, <1>4, <1>5 DEF Added, d
  <2>2. CASE g = at \/ h = at
    BY <1>10, <2>1, <2>2
  <2>3. CASE g # at /\ h # at
    BY <1>5, <1>10, <2>1, <2>3 DEF GroupsHold
  <2> QED
    BY <2>2, <2>3
<1>11. ASSUME NEW g \in 1 .. Len(next), NEW m \in 1 .. Len(next[g].ids)
       PROVE  \E j \in 1 .. i : Places(next[g], m, j)
  <2>1. CASE g = at /\ m = last
    BY <1>4, <2>1
  <2>2. CASE ~ (g = at /\ m = last)
    <3>1. g \in 1 .. n /\ m \in 1 .. Len(groups[g].ids)
      BY <1>6, <2>2
    <3>2. PICK j \in 1 .. k : Places(groups[g], m, j)
      BY <3>1 DEF GroupsHold
    <3>3. Places(next[g], m, j) /\ j \in 1 .. i
      BY <1>7, <3>1, <3>2
    <3> QED
      BY <3>3
  <2> QED
    BY <2>1, <2>2
<1>12. ASSUME NEW j \in 1 .. i
       PROVE  \E g \in 1 .. Len(next) : \E m : Places(next[g], m, j)
  <2>1. CASE j = i
    BY <1>4, <2>1
  <2>2. CASE j # i
    <3>1. j \in 1 .. k
      BY <2>2
    <3>2. PICK g \in 1 .. n : \E m : Places(groups[g], m, j)
      BY <3>1 DEF GroupsHold
    <3> QED
      BY <1>5, <1>7, <3>2
  <2> QED
    BY <2>1, <2>2
<1>13. ASSUME NEW g \in 1 .. n, NEW m \in 1 .. Len(groups[g].ids)
       PROVE  groups[g].ids[m] # d.id
  <2>1. PICK j \in 1 .. k : Places(groups[g], m, j)
    BY DEF GroupsHold
  <2> QED
    BY <1>1, <2>1 DEF Places
<1>14. ASSUME NEW g \in 1 .. Len(next), NEW h \in 1 .. Len(next),
              NEW m \in 1 .. Len(next[g].ids), NEW p \in 1 .. Len(next[h].ids),
              next[g].ids[m] = next[h].ids[p]
       PROVE  g = h /\ m = p
  <2>1. CASE g = at /\ m = last
    <3>1. h = at /\ p = last
      BY <1>4, <1>6, <1>13, <1>14, <2>1
    <3> QED
      BY <2>1, <3>1
  <2>2. CASE h = at /\ p = last
    <3>1. g = at /\ m = last
      BY <1>4, <1>6, <1>13, <1>14, <2>2
    <3> QED
      BY <2>2, <3>1
  <2>3. CASE ~ (g = at /\ m = last) /\ ~ (h = at /\ p = last)
    <3>1. /\ g \in 1 .. n /\ m \in 1 .. Len(groups[g].ids)
          /\ h \in 1 .. n /\ p \in 1 .. Len(groups[h].ids)
          /\ groups[g].ids[m] = groups[h].ids[p]
      BY <1>6, <1>14, <2>3
    <3> QED
      BY <3>1 DEF GroupsHold
  <2> QED
    BY <2>1, <2>2, <2>3
<1> QED
  BY <1>8, <1>9, <1>10, <1>11, <1>12, <1>14 DEF GroupsHold, next

-----------------------------------------------------------------------------
(* The loop over the definitions. *)

GroupStep(none, g, i) == GroupNext(g, i)

GroupFold == INSTANCE FoldLemmas WITH Step <- GroupStep

NoGroups == [groups |-> <<>>, error |-> Valid, index |-> 0]

LEMMA GroupedIsFold ==
  Grouped = GroupFold!LeftFold({}, NoGroups, [i \in DOMAIN definitions |-> i])
BY DEF Grouped, GroupStep, NoGroups, FoldLeft, MapThenFoldSet, Max,
       GroupFold!LeftFold, GroupFold!FoldLeft, GroupFold!MapThenFoldSet, GroupFold!Max

(* After k definitions: their groups, or what was wrong with the first that *)
(* is at fault.                                                             *)
Refused(g, i) ==
  /\ g.index = i /\ Faulty(i)
  /\ \A j \in 1 .. i - 1 : ~ Faulty(j)
  /\ g.error # "DuplicateScalarDerivation"
  /\ g.error = "DuplicateFeatureId" =>
       \E j \in 1 .. i : definitions[j].id = definitions[i].id /\ definitions[j].custom

LoopHolds(g, k) ==
  /\ g = [groups |-> g.groups, error |-> g.error, index |-> g.index]
  /\ IF g.error = Valid
       THEN GroupsHold(g.groups, k) /\ \A i \in 1 .. k : ~ Faulty(i)
       ELSE \E i \in 1 .. k : Refused(g, i)

LEMMA NoGroupsHold == LoopHolds(NoGroups, 0)
<1>1. <<>> \in Seq({}) /\ Len(<<>>) = 0
  OBVIOUS
<1>2. IsSeq(<<>>)
  BY <1>1, SeqOfElements
<1>3. GroupsHold(<<>>, 0)
  BY <1>1, <1>2 DEF GroupsHold
<1> QED
  BY <1>3 DEF LoopHolds, NoGroups

LEMMA LoopGoesOn ==
  ASSUME NamesAre, DefinitionsAre, NEW k \in Nat, k + 1 \in 1 .. Len(definitions),
         NEW g, LoopHolds(g, k)
  PROVE  LoopHolds(GroupNext(g, k + 1), k + 1)
<1> DEFINE i == k + 1
           error == DefinitionError(g.groups, i)
           next == GroupNext(g, i)
<1>1. CASE g.error # Valid
  <2>1. next = g
    BY <1>1 DEF GroupNext
  <2>2. PICK j \in 1 .. k : Refused(g, j)
    BY <1>1 DEF LoopHolds
  <2>3. j \in 1 .. i
    OBVIOUS
  <2> QED
    BY <1>1, <2>1, <2>2, <2>3 DEF LoopHolds
<1>2. CASE g.error = Valid
  <2>1. /\ g = [groups |-> g.groups, error |-> g.error, index |-> g.index]
        /\ GroupsHold(g.groups, i - 1) /\ GroupsHold(g.groups, k)
        /\ \A j \in 1 .. k : ~ Faulty(j)
    <3>1. i - 1 = k
      OBVIOUS
    <3> QED
      BY <1>2, <3>1 DEF LoopHolds
  <2>2. /\ (error # Valid <=> Faulty(i))
        /\ error # "DuplicateScalarDerivation"
        /\ error = "DuplicateFeatureId" =>
             \E j \in 1 .. i : definitions[j].id = definitions[i].id /\ definitions[j].custom
    BY <2>1, ErrorsAreFaults
  <2>3. next = IF error # Valid THEN [g EXCEPT !.error = error, !.index = i]
               ELSE [g EXCEPT !.groups = AddOutput(@, i)]
    BY <1>2 DEF GroupNext
  <2>4. CASE error # Valid
    <3> HIDE DEF error, next
    <3>1. next = [groups |-> g.groups, error |-> error, index |-> i]
      BY <2>1, <2>3, <2>4
    <3>2. /\ next = [groups |-> next.groups, error |-> next.error, index |-> next.index]
          /\ next.error = error /\ next.index = i
      BY <3>1
    <3>3. \A j \in 1 .. i - 1 : ~ Faulty(j)
      BY <2>1
    <3>4. Refused(next, i)
      BY <2>2, <2>4, <3>2, <3>3 DEF Refused
    <3>5. i \in 1 .. i
      OBVIOUS
    <3> HIDE DEF i
    <3> QED
      BY <2>4, <3>2, <3>4, <3>5 DEF LoopHolds, next, i
  <2>5. CASE error = Valid
    <3> DEFINE added == AddOutput(g.groups, i)
    <3>1. GroupsHold(added, i)
      BY <2>1, <2>5, GroupAdded
    <3>2. next = [g EXCEPT !.groups = added]
      BY <2>3, <2>5
    <3> HIDE DEF added, next, error
    <3>3. next = [groups |-> added, error |-> Valid, index |-> g.index]
      BY <1>2, <2>1, <3>2
    <3>4. /\ next = [groups |-> next.groups, error |-> next.error, index |-> next.index]
          /\ next.error = Valid /\ next.groups = added
      BY <3>3
    <3>5. \A j \in 1 .. i : ~ Faulty(j)
      <4>1. ~ Faulty(i)
        BY <2>2, <2>5
      <4>2. \A j \in 1 .. i : j \in 1 .. k \/ j = i
        OBVIOUS
      <4> QED
        BY <2>1, <4>1, <4>2
    <3> QED
      BY <3>1, <3>4, <3>5 DEF LoopHolds, next
  <2> QED
    BY <2>4, <2>5
<1> QED
  BY <1>1, <1>2

LEMMA LoopEnds ==
  ASSUME NamesAre, DefinitionsAre
  PROVE  LoopHolds(Grouped, Len(definitions))
<1> DEFINE n == Len(definitions)
           indices == [i \in DOMAIN definitions |-> i]
<1>1. n \in Nat /\ DOMAIN indices = 1 .. n /\ \A k \in 1 .. n : indices[k] = k
  BY SeqFacts DEF DefinitionsAre
<1>2. PICK run : GroupFold!LeftRun({}, NoGroups, indices, n, run)
  <2> HIDE DEF indices, n
  <2> QED
    BY <1>1, GroupFold!LeftFoldRuns
<1>3. /\ run[0] = NoGroups /\ Grouped = run[n]
      /\ \A k \in 1 .. n : run[k] = GroupNext(run[k - 1], indices[k])
  BY <1>2, GroupedIsFold DEF GroupFold!LeftRun, GroupStep
<1> DEFINE Good == {k \in 0 .. n : LoopHolds(run[k], k)}
<1>4. 0 \in Good
  BY <1>1, <1>3, NoGroupsHold
<1>5. ASSUME NEW k \in 1 .. n, k - 1 \in Good
      PROVE  k \in Good
  <2> DEFINE m == k - 1
             before == run[m]
  <2>1. /\ m \in Nat /\ m + 1 = k /\ m + 1 \in 1 .. n /\ LoopHolds(before, m)
        /\ run[k] = GroupNext(before, k)
    BY <1>1, <1>3, <1>5
  <2> HIDE DEF m, before
  <2>2. LoopHolds(GroupNext(before, m + 1), m + 1)
    BY <2>1, LoopGoesOn
  <2> QED
    BY <1>1, <2>1, <2>2
<1>6. \A k \in 0 .. n : k \in Good
  <2> HIDE DEF Good
  <2> QED
    BY <1>1, <1>4, <1>5, UpwardInduction
<1> QED
  BY <1>1, <1>3, <1>6

(* A refusal of the build names the first definition at fault. *)
LEMMA CompilerRefusals == CompilerInvariant => RefusalsNameTheFault
<1> SUFFICES ASSUME CompilerInvariant, extractor # NotYet, Len(definitions) = length
             PROVE  LET faults == {i \in DOMAIN definitions : Faulty(i)}
                    IN  IF faults = {}
                          THEN extractor.built \/ extractor.index = 0
                          ELSE /\ ~ extractor.built
                               /\ extractor.index = Min(faults)
                               /\ extractor.error # "DuplicateScalarDerivation"
                               /\ extractor.error = "DuplicateFeatureId" =>
                                    \E j \in 1 .. extractor.index :
                                      /\ definitions[j].id = definitions[extractor.index].id
                                      /\ definitions[j].custom
  BY DEF RefusalsNameTheFault
<1> DEFINE n == Len(definitions)
           g == Grouped
           faults == {i \in DOMAIN definitions : Faulty(i)}
<1>1. LoopHolds(g, n) /\ n \in Nat /\ faults = {i \in 1 .. n : Faulty(i)}
  BY LoopEnds, SeqFacts DEF CompilerInvariant, DefinitionsAre
<1>2. extractor = Built
  BY DEF CompilerInvariant
<1> HIDE DEF g, faults
<1>3. CASE g.error = Valid
  <2>1. faults = {}
    BY <1>1, <1>3 DEF LoopHolds
  <2>2. extractor \in {Refusal("RuntimeFeatures", 0), Refusal("Subscribers", 0),
                       Refusal("DuplicateOrderBook", 0), Refusal("OrderBookNotConfigured", 0),
                       Compiled(g.groups)}
    BY <1>2, <1>3 DEF Built, g
  <2>3. Compiled(g.groups).built
    BY DEF Compiled
  <2>4. extractor.built \/ extractor.index = 0
    BY <2>2, <2>3 DEF Refusal
  <2> QED
    BY <2>1, <2>4 DEF faults
<1>4. CASE g.error # Valid
  <2>1. PICK i \in 1 .. n : Refused(g, i)
    BY <1>1, <1>4 DEF LoopHolds
  <2>2. extractor = Refusal(g.error, g.index)
    BY <1>2, <1>4 DEF Built, g
  <2>3. ~ extractor.built /\ extractor.error = g.error /\ extractor.index = i
    BY <2>1, <2>2 DEF Refusal, Refused
  <2>4. i \in faults /\ \A j \in faults : i <= j
    BY <1>1, <2>1 DEF Refused
  <2>5. Min(faults) = i
    <3>1. \A j \in faults : j \in Int
      BY <1>1
    <3>2. \A j \in faults : (\A h \in faults : j <= h) => j = i
      BY <2>4, <3>1
    <3> QED
      BY <2>4, <3>2 DEF Min
  <2>6. faults # {}
    BY <2>4
  <2> QED
    BY <2>1, <2>3, <2>5, <2>6 DEF Refused, faults
<1> QED
  BY <1>3, <1>4

(* A refused build names the first definition at fault, whatever was        *)
(* defined, in whatever order: two definitions that share a derivation have *)
(* outputs of their own, and default IDs never clash.                       *)
THEOREM RefusalsStayOfFaults == CompilerSpec => []RefusalsNameTheFault
BY CompilerInvariance, CompilerRefusals, PTL

-----------------------------------------------------------------------------
-----------------------------------------------------------------------------
(* Selections and flattened sequences. *)

Enumerates(s, S, n) ==
  /\ IsSeq(s)
  /\ \A i \in 1 .. Len(s) : s[i] \in S /\ s[i] \in 1 .. n
  /\ \A i, j \in 1 .. Len(s) : i < j => s[i] < s[j]
  /\ \A x \in 1 .. n : x \in S => \E i \in 1 .. Len(s) : s[i] = x

OrderStep(S, chosen, i) == IF i \in S THEN Append(chosen, i) ELSE chosen

OrderFold == INSTANCE FoldLemmas WITH Step <- OrderStep

LEMMA InOrderIsFold ==
  ASSUME NEW S, NEW n
  PROVE  InOrder(S, n) = OrderFold!LeftFold(S, <<>>, [i \in 1 .. n |-> i])
BY DEF InOrder, OrderStep, FoldLeft, MapThenFoldSet, Max,
       OrderFold!LeftFold, OrderFold!FoldLeft, OrderFold!MapThenFoldSet, OrderFold!Max

LEMMA EmptyIsSeq == IsSeq(<<>>) /\ Len(<<>>) = 0
<1>1. <<>> \in Seq({}) /\ Len(<<>>) = 0
  OBVIOUS
<1> QED
  BY <1>1, SeqOfElements

LEMMA EnumeratesNext ==
  ASSUME NEW S, NEW k \in Nat, NEW s, Enumerates(s, S, k)
  PROVE  Enumerates(OrderStep(S, s, k + 1), S, k + 1)
<1> DEFINE x == k + 1
           next == OrderStep(S, s, x)
           n == Len(s)
<1>1. IsSeq(s) /\ n \in Nat
  BY SeqFacts DEF Enumerates
<1>2. \A y \in 1 .. x : y \in 1 .. k \/ y = x
  OBVIOUS
<1>3. \A y \in 1 .. k : y \in 1 .. x /\ y < x
  OBVIOUS
<1>4. CASE x \in S
  <2>1. next = Append(s, x)
    BY <1>4 DEF OrderStep
  <2> HIDE DEF next, n, x
  <2>2. /\ IsSeq(next) /\ Len(next) = n + 1
        /\ \A i \in 1 .. n : next[i] = s[i]
        /\ next[n + 1] = x
    BY <1>1, <2>1, AppendFacts DEF n
  <2>3. \A i \in 1 .. n + 1 : i \in 1 .. n \/ i = n + 1
    BY <1>1
  <2>4. \A i \in 1 .. n + 1 : next[i] \in S /\ next[i] \in 1 .. x
    <3>1. x \in 1 .. x
      BY DEF x
    <3> QED
      BY <1>3, <1>4, <2>2, <2>3, <3>1 DEF Enumerates, n
  <2>5. ASSUME NEW i \in 1 .. n + 1, NEW j \in 1 .. n + 1, i < j
        PROVE  next[i] < next[j]
    <3>1. i \in 1 .. n
      BY <1>1, <2>5
    <3>2. CASE j \in 1 .. n
      BY <2>2, <2>5, <3>1, <3>2 DEF Enumerates, n
    <3>3. CASE j = n + 1
      BY <1>3, <2>2, <3>1, <3>3 DEF Enumerates, n
    <3> QED
      BY <2>3, <3>2, <3>3
  <2>6. ASSUME NEW y \in 1 .. x, y \in S
        PROVE  \E i \in 1 .. n + 1 : next[i] = y
    <3>1. CASE y = x
      <4>1. n + 1 \in 1 .. n + 1
        BY <1>1
      <4> QED
        BY <2>2, <3>1, <4>1
    <3>2. CASE y \in 1 .. k
      <4>1. PICK i \in 1 .. n : s[i] = y
        BY <2>6, <3>2 DEF Enumerates, n
      <4>2. i \in 1 .. n + 1 /\ next[i] = y
        BY <1>1, <2>2, <4>1
      <4> QED
        BY <4>2
    <3> QED
      BY <1>2, <3>1, <3>2
  <2> QED
    BY <2>2, <2>4, <2>5, <2>6 DEF Enumerates, next, x
<1>5. CASE x \notin S
  <2>1. next = s
    BY <1>5 DEF OrderStep
  <2> HIDE DEF x, next
  <2> QED
    BY <1>2, <1>3, <1>5, <2>1 DEF Enumerates, x, next
<1> QED
  BY <1>4, <1>5

LEMMA InOrderFacts ==
  ASSUME NEW S, NEW n \in Nat
  PROVE  Enumerates(InOrder(S, n), S, n)
<1> DEFINE indices == [i \in 1 .. n |-> i]
<1>1. DOMAIN indices = 1 .. n /\ \A k \in 1 .. n : indices[k] = k
  OBVIOUS
<1>2. PICK run : OrderFold!LeftRun(S, <<>>, indices, n, run)
  <2> HIDE DEF indices
  <2> QED
    BY <1>1, OrderFold!LeftFoldRuns
<1>3. /\ run[0] = <<>> /\ InOrder(S, n) = run[n]
      /\ \A k \in 1 .. n : run[k] = OrderStep(S, run[k - 1], indices[k])
  BY <1>2, InOrderIsFold DEF OrderFold!LeftRun
<1> DEFINE Good == {k \in 0 .. n : Enumerates(run[k], S, k)}
<1>4. 0 \in Good
  <2>1. Enumerates(<<>>, S, 0)
    BY EmptyIsSeq DEF Enumerates
  <2> QED
    BY <1>3, <2>1
<1>5. ASSUME NEW k \in 1 .. n, k - 1 \in Good
      PROVE  k \in Good
  <2> DEFINE m == k - 1
             before == run[m]
  <2>1. m \in Nat /\ m + 1 = k /\ Enumerates(before, S, m) /\ run[k] = OrderStep(S, before, k)
    BY <1>1, <1>3, <1>5
  <2> HIDE DEF m, before
  <2>2. Enumerates(OrderStep(S, before, m + 1), S, m + 1)
    BY <2>1, EnumeratesNext
  <2> QED
    BY <2>1, <2>2
<1>6. \A k \in 0 .. n : k \in Good
  <2> HIDE DEF Good
  <2> QED
    BY <1>4, <1>5, UpwardInduction
<1> QED
  BY <1>3, <1>6

(* Where the parts of a flattened sequence start. *)
IsStarts(start, len, n) ==
  /\ start[1] = 0
  /\ \A g \in 1 .. n + 1 : start[g] \in Nat
  /\ \A g \in 1 .. n : len[g] \in Nat /\ start[g + 1] = start[g] + len[g]

LEMMA StartsExist ==
  ASSUME NEW n \in Nat, NEW len, \A g \in 1 .. n : len[g] \in Nat
  PROVE  \E start : IsStarts(start, len, n)
<1> DEFINE start == [g \in 1 .. n + 1 |-> SumFunctionOnSet(len, 1 .. g - 1)]
<1>1. start[1] = 0
  <2>1. 1 .. 1 - 1 = {} /\ 1 \in 1 .. n + 1
    OBVIOUS
  <2>2. start[1] = SumFunctionOnSet(len, 1 .. 1 - 1)
    BY <2>1
  <2> QED
    BY <2>1, <2>2, SumEmpty
<1>2. ASSUME NEW g \in 1 .. n + 1
      PROVE  start[g] \in Nat
  <2>1. IsFiniteSet(1 .. g - 1) /\ \A x \in 1 .. g - 1 : len[x] \in Nat
    BY FS_Interval
  <2>2. SumFunctionOnSet(len, 1 .. g - 1) \in Nat
    BY <2>1, SumNat
  <2> QED
    BY <2>2
<1>3. ASSUME NEW g \in 1 .. n
      PROVE  start[g + 1] = start[g] + len[g]
  <2> DEFINE S == 1 .. g - 1
  <2>1. /\ IsFiniteSet(S) /\ g \notin S /\ 1 .. (g + 1) - 1 = S \cup {g}
        /\ \A x \in S \cup {g} : len[x] \in Int
    BY FS_Interval
  <2>2. start[g + 1] = SumFunctionOnSet(len, S \cup {g}) /\ start[g] = SumFunctionOnSet(len, S)
    <3>1. g + 1 \in 1 .. n + 1 /\ g \in 1 .. n + 1
      OBVIOUS
    <3>2. start[g + 1] = SumFunctionOnSet(len, 1 .. (g + 1) - 1)
      BY <3>1
    <3> QED
      BY <2>1, <3>1, <3>2
  <2> HIDE DEF S, start
  <2>3. SumFunctionOnSet(len, S \cup {g}) = SumFunctionOnSet(len, S) + len[g]
    BY <2>1, SumAdd
  <2> QED
    BY <2>2, <2>3
<1> HIDE DEF start
<1> QED
  BY <1>1, <1>2, <1>3 DEF IsStarts

LEMMA StartsGrow ==
  ASSUME NEW n \in Nat, NEW len, NEW start, IsStarts(start, len, n),
         NEW g \in 1 .. n, NEW h \in 1 .. n + 1, g < h
  PROVE  start[g] + len[g] <= start[h]
<1> DEFINE Good == {k \in 0 .. n - g : start[g] + len[g] <= start[g + 1 + k]}
<1>1. start[g] \in Nat /\ len[g] \in Nat /\ start[g + 1] = start[g] + len[g]
  BY DEF IsStarts
<1>2. 0 \in Good
  BY <1>1
<1>3. ASSUME NEW k \in 1 .. n - g, k - 1 \in Good
      PROVE  k \in Good
  <2> DEFINE i == g + k
  <2>1. i \in 1 .. n /\ g + 1 + (k - 1) = i /\ g + 1 + k = i + 1 /\ i \in 1 .. n + 1
    OBVIOUS
  <2>2. start[i + 1] = start[i] + len[i] /\ len[i] \in Nat /\ start[i] \in Nat
    BY <2>1 DEF IsStarts
  <2>3. start[g] + len[g] <= start[i]
    BY <1>3, <2>1
  <2> HIDE DEF i
  <2>4. start[g] + len[g] <= start[i + 1]
    BY <1>1, <2>2, <2>3
  <2> QED
    BY <2>1, <2>4
<1>4. \A k \in 0 .. n - g : k \in Good
  <2> HIDE DEF Good
  <2>1. n - g \in Nat
    OBVIOUS
  <2> QED
    BY <1>2, <1>3, <2>1, UpwardInduction
<1>5. h - g - 1 \in 0 .. n - g /\ g + 1 + (h - g - 1) = h
  OBVIOUS
<1> QED
  BY <1>4, <1>5

(* Every place of the whole is in one part. *)
LEMMA PartsCover ==
  ASSUME NEW n \in Nat, NEW len, NEW start, IsStarts(start, len, n),
         NEW c \in 1 .. start[n + 1]
  PROVE  \E g \in 1 .. n : \E m \in 1 .. len[g] : c = start[g] + m
<1> DEFINE Above == {g \in 1 .. n + 1 : c <= start[g]}
<1>1. n + 1 \in Above
  BY DEF IsStarts
<1>2. PICK h \in Above : \A g \in Above : h <= g
  <2>1. Above \in SUBSET Nat /\ Above # {}
    BY <1>1
  <2> HIDE DEF Above
  <2> QED
    BY <2>1, LeastElement
<1>3. h # 1
  BY DEF IsStarts
<1> DEFINE g == h - 1
<1>4. g \in 1 .. n /\ h = g + 1 /\ g \in 1 .. n + 1
  BY <1>3
<1>5. g \notin Above
  BY <1>2, <1>4
<1>6. start[g] \in Nat /\ len[g] \in Nat /\ start[g + 1] = start[g] + len[g]
  BY <1>4 DEF IsStarts
<1>7. start[g] < c /\ c <= start[g + 1] /\ c \in Nat
  <2>1. c \in Nat
    BY DEF IsStarts
  <2> QED
    BY <1>2, <1>4, <1>5, <1>6, <2>1
<1> HIDE DEF g
<1>8. c - start[g] \in 1 .. len[g] /\ c = start[g] + (c - start[g])
  BY <1>6, <1>7
<1> QED
  BY <1>4, <1>8

LEMMA PartsApart ==
  ASSUME NEW n \in Nat, NEW len, NEW start, IsStarts(start, len, n),
         NEW g \in 1 .. n, NEW m \in 1 .. len[g], NEW h \in 1 .. n, NEW p \in 1 .. len[h],
         start[g] + m = start[h] + p
  PROVE  g = h /\ m = p
<1>1. /\ start[g] \in Nat /\ start[h] \in Nat /\ len[g] \in Nat /\ len[h] \in Nat
      /\ g \in 1 .. n + 1 /\ h \in 1 .. n + 1
  BY DEF IsStarts
<1>2. CASE g < h
  <2>1. start[g] + len[g] <= start[h]
    BY <1>1, <1>2, StartsGrow
  <2> QED
    BY <1>1, <2>1
<1>3. CASE h < g
  <2>1. start[h] + len[h] <= start[g]
    BY <1>1, <1>3, StartsGrow
  <2> QED
    BY <1>1, <2>1
<1>4. CASE g = h
  BY <1>1, <1>4
<1> QED
  BY <1>2, <1>3, <1>4

LEMMA PlaceInWhole ==
  ASSUME NEW n \in Nat, NEW len, NEW start, IsStarts(start, len, n),
         NEW g \in 1 .. n, NEW m \in 1 .. len[g]
  PROVE  start[g] + m \in 1 .. start[n + 1]
<1>1. start[g] \in Nat /\ len[g] \in Nat /\ start[n + 1] \in Nat /\ n + 1 \in 1 .. n + 1 /\ g < n + 1
  BY DEF IsStarts
<1>2. start[g] + len[g] <= start[n + 1]
  BY <1>1, StartsGrow
<1> QED
  BY <1>1, <1>2

LEMMA ConcatFacts ==
  ASSUME NEW s, IsSeq(s), NEW t, IsSeq(t)
  PROVE  /\ IsSeq(s \o t) /\ Len(s \o t) = Len(s) + Len(t)
         /\ \A i \in 1 .. Len(s) : (s \o t)[i] = s[i]
         /\ \A i \in 1 .. Len(t) : (s \o t)[Len(s) + i] = t[i]
<1> DEFINE S == {s[i] : i \in DOMAIN s} \cup {t[i] : i \in DOMAIN t}
<1>1. s \in Seq(S) /\ t \in Seq(S)
  BY SeqMonotonic DEF IsSeq
<1>2. Len(s) \in Nat /\ Len(t) \in Nat
  BY SeqFacts
<1> HIDE DEF S
<1>3. /\ s \o t \in Seq(S) /\ Len(s \o t) = Len(s) + Len(t)
      /\ \A i \in 1 .. Len(s) + Len(t) :
           (s \o t)[i] = IF i <= Len(s) THEN s[i] ELSE t[i - Len(s)]
  BY <1>1, ConcatProperties
<1>4. IsSeq(s \o t)
  BY <1>3, SeqOfElements
<1>5. ASSUME NEW i \in 1 .. Len(s)
      PROVE  (s \o t)[i] = s[i]
  <2>1. i \in 1 .. Len(s) + Len(t) /\ i <= Len(s)
    BY <1>2
  <2> QED
    BY <1>3, <2>1
<1>6. ASSUME NEW i \in 1 .. Len(t)
      PROVE  (s \o t)[Len(s) + i] = t[i]
  <2>1. /\ Len(s) + i \in 1 .. Len(s) + Len(t) /\ ~ (Len(s) + i <= Len(s))
        /\ Len(s) + i - Len(s) = i
    BY <1>2
  <2> QED
    BY <1>3, <2>1
<1> QED
  BY <1>3, <1>4, <1>5, <1>6

(* The whole of parts. *)
IsFlat(flat, seqs, start, n) ==
  /\ IsSeq(flat) /\ Len(flat) = start[n + 1]
  /\ \A g \in 1 .. n : \A m \in 1 .. Len(seqs[g]) : flat[start[g] + m] = seqs[g][m]

ConcatStep(none, s, t) == s \o t

ConcatFold == INSTANCE FoldLemmas WITH Step <- ConcatStep

LEMMA FlatNext ==
  ASSUME NEW n \in Nat, NEW len, NEW start, IsStarts(start, len, n), NEW seqs,
         NEW k \in Nat, k + 1 \in 1 .. n, NEW flat, IsFlat(flat, seqs, start, k),
         \A g \in 1 .. n : IsSeq(seqs[g]) /\ len[g] = Len(seqs[g])
  PROVE  IsFlat(flat \o seqs[k + 1], seqs, start, k + 1)
<1> DEFINE x == k + 1
           part == seqs[x]
           next == flat \o part
<1>1. /\ IsSeq(flat) /\ IsSeq(part) /\ Len(flat) = start[x] /\ Len(part) = len[x]
      /\ Len(flat) \in Nat /\ Len(part) \in Nat /\ start[x + 1] = start[x] + len[x]
  BY SeqFacts DEF IsFlat, IsStarts
<1> HIDE DEF part
<1>2. /\ IsSeq(next) /\ Len(next) = Len(flat) + Len(part)
      /\ \A i \in 1 .. Len(flat) : next[i] = flat[i]
      /\ \A i \in 1 .. Len(part) : next[Len(flat) + i] = part[i]
  <2>1. IsSeq(flat) /\ IsSeq(part)
    BY <1>1
  <2> QED
    BY <2>1, ConcatFacts
<1>3. \A g \in 1 .. x : g = x \/ g \in 1 .. k
  OBVIOUS
<1> HIDE DEF next
<1>4. ASSUME NEW g \in 1 .. x, NEW m \in 1 .. Len(seqs[g])
      PROVE  next[start[g] + m] = seqs[g][m]
  <2>1. CASE g = x
    BY <1>1, <1>2, <2>1 DEF part
  <2>2. CASE g \in 1 .. k
    <3>1. g \in 1 .. n /\ x \in 1 .. n + 1 /\ g < x
      BY <2>2
    <3>2. start[g] + len[g] <= start[x] /\ start[g] \in Nat /\ len[g] = Len(seqs[g])
          /\ len[g] \in Nat
      <4>1. start[g] \in Nat /\ len[g] = Len(seqs[g]) /\ len[g] \in Nat
        BY <3>1 DEF IsStarts
      <4> HIDE DEF x
      <4> QED
        BY <3>1, <4>1, StartsGrow
    <3> DEFINE i == start[g] + m
    <3>3. i \in 1 .. Len(flat)
      <4>1. m \in 1 .. len[g] /\ start[g] \in Nat /\ len[g] \in Nat
        BY <3>2
      <4>2. Len(flat) \in Nat /\ start[g] + len[g] <= Len(flat)
        BY <1>1, <3>2
      <4> HIDE DEF x
      <4> QED
        BY <4>1, <4>2
    <3>4. flat[i] = seqs[g][m]
      BY <2>2 DEF IsFlat
    <3> HIDE DEF i
    <3>5. next[i] = flat[i]
      BY <1>2, <3>3
    <3> QED
      BY <3>4, <3>5 DEF i
  <2> QED
    BY <1>3, <2>1, <2>2
<1> QED
  BY <1>1, <1>2, <1>4 DEF IsFlat, next, part

LEMMA FlattenFacts ==
  ASSUME NEW seqs, IsSeq(seqs), NEW start, NEW len, IsStarts(start, len, Len(seqs)),
         \A g \in 1 .. Len(seqs) : IsSeq(seqs[g]) /\ len[g] = Len(seqs[g])
  PROVE  IsFlat(FlattenSeq(seqs), seqs, start, Len(seqs))
<1> DEFINE n == Len(seqs)
<1>1. n \in Nat /\ DOMAIN seqs = 1 .. n
  BY SeqFacts
<1>2. CASE n = 0
  <2>1. FlattenSeq(seqs) = seqs
    BY <1>2 DEF FlattenSeq
  <2> QED
    BY <1>2, <2>1 DEF IsFlat, IsStarts
<1>3. CASE n # 0
  <2>1. PICK run : ConcatFold!LeftRun({}, <<>>, seqs, n, run)
    <3> HIDE DEF n
    <3> QED
      BY <1>1, ConcatFold!LeftFoldRuns
  <2>2. run[0] = <<>> /\ \A k \in 1 .. n : run[k] = run[k - 1] \o seqs[k]
    BY <2>1 DEF ConcatFold!LeftRun, ConcatStep
  <2> DEFINE Good == {k \in 0 .. n : IsFlat(run[k], seqs, start, k)}
  <2>3. 0 \in Good
    <3>1. start[0 + 1] = 0
      BY DEF IsStarts
    <3> QED
      BY <1>1, <2>2, <3>1, EmptyIsSeq DEF IsFlat
  <2>4. ASSUME NEW k \in 1 .. n, k - 1 \in Good
        PROVE  k \in Good
    <3> DEFINE m == k - 1
               before == run[m]
    <3>1. m \in Nat /\ m + 1 = k /\ m + 1 \in 1 .. n /\ IsFlat(before, seqs, start, m)
          /\ run[k] = before \o seqs[k]
      BY <1>1, <2>2, <2>4
    <3> HIDE DEF m, before, n
    <3>2. IsFlat(before \o seqs[m + 1], seqs, start, m + 1)
      BY <1>1, <3>1, FlatNext DEF n
    <3>3. k \in 0 .. n
      BY <1>1
    <3> QED
      BY <3>1, <3>2, <3>3
  <2>5. \A k \in 0 .. n : k \in Good
    <3> HIDE DEF Good
    <3> QED
      BY <1>1, <2>3, <2>4, UpwardInduction
  <2> DEFINE IsTable(table) == table = [i \in 1 .. n |->
                                 IF i = 1 THEN seqs[i] ELSE table[i - 1] \o seqs[i]]
             looked == CHOOSE table : IsTable(table)
  <2>6. FlattenSeq(seqs) = looked[n]
    BY <1>3 DEF FlattenSeq
  <2>7. run[1] = seqs[1]
    <3>1. 1 \in 1 .. n /\ 1 - 1 = 0
      BY <1>1, <1>3
    <3>2. run[1] = <<>> \o seqs[1]
      BY <2>2, <3>1
    <3>3. IsSeq(seqs[1])
      BY <3>1
    <3> QED
      BY <3>2, <3>3, ConcatEmptySeq DEF IsSeq
  <2>8. IsTable([i \in 1 .. n |-> run[i]])
    <3> DEFINE table == [i \in 1 .. n |-> run[i]]
    <3>1. ASSUME NEW i \in 1 .. n
          PROVE  table[i] = IF i = 1 THEN seqs[i] ELSE table[i - 1] \o seqs[i]
      <4>1. CASE i = 1
        BY <2>7, <4>1
      <4>2. CASE i # 1
        <5>1. i - 1 \in 1 .. n
          BY <1>1, <4>2
        <5> QED
          BY <2>2, <4>2, <5>1
      <4> QED
        BY <4>1, <4>2
    <3> QED
      BY <3>1
  <2>9. IsTable(looked)
    BY <2>8
  <2> HIDE DEF looked
  <2> DEFINE Same == {k \in 0 .. n : k # 0 => looked[k] = run[k]}
  <2>10. \A k \in 0 .. n : k \in Same
    <3>1. 0 \in Same
      BY <1>1
    <3>2. ASSUME NEW k \in 1 .. n, k - 1 \in Same
          PROVE  k \in Same
      <4>1. looked[k] = IF k = 1 THEN seqs[k] ELSE looked[k - 1] \o seqs[k]
        BY <2>9
      <4>2. k # 1 => looked[k - 1] = run[k - 1]
        BY <3>2
      <4>3. looked[k] = run[k]
        BY <2>2, <2>7, <4>1, <4>2
      <4> QED
        BY <4>3
    <3> HIDE DEF Same
    <3> QED
      BY <1>1, <3>1, <3>2, UpwardInduction
  <2>11. FlattenSeq(seqs) = run[n] /\ n \in 0 .. n
    BY <1>1, <1>3, <2>6, <2>10
  <2> QED
    BY <2>5, <2>11
<1> QED
  BY <1>2, <1>3

LEMMA PrefixFacts ==
  ASSUME NEW s, IsSeq(s), NEW k \in 0 .. Len(s)
  PROVE  /\ IsSeq(SubSeq(s, 1, k)) /\ Len(SubSeq(s, 1, k)) = k
         /\ \A i \in 1 .. k : SubSeq(s, 1, k)[i] = s[i]
<1> DEFINE S == {s[i] : i \in DOMAIN s}
           n == Len(s)
<1>1. n \in Nat /\ DOMAIN s = 1 .. n /\ k \in Nat /\ k <= n
  BY SeqFacts
<1>2. \A i \in 1 .. k : s[i] \in S
  BY <1>1
<1> HIDE DEF S, n
<1>3. /\ SubSeq(s, 1, k) \in Seq(S)
      /\ Len(SubSeq(s, 1, k)) = IF 1 <= k THEN k - 1 + 1 ELSE 0
      /\ \A i \in 1 .. k - 1 + 1 : SubSeq(s, 1, k)[i] = s[1 + i - 1]
  BY <1>1, <1>2, SubSeqProperties
<1>4. IsSeq(SubSeq(s, 1, k))
  BY <1>3, SeqOfElements
<1>5. k - 1 + 1 = k /\ \A i \in 1 .. k : 1 + i - 1 = i
  BY <1>1
<1> QED
  BY <1>1, <1>3, <1>4, <1>5

LEMMA StartsOfPrefix ==
  ASSUME NEW n \in Nat, NEW len, NEW start, IsStarts(start, len, n), NEW k \in 0 .. n
  PROVE  IsStarts(start, len, k)
BY DEF IsStarts

CountStep(none, sum, group) == sum + Len(group.ids)

CountFold == INSTANCE FoldLemmas WITH Step <- CountStep

LEMMA CountIsFold ==
  ASSUME NEW groups
  PROVE  Count(groups) = CountFold!LeftFold({}, 0, groups)
BY DEF Count, CountStep, FoldLeft, MapThenFoldSet, Max,
       CountFold!LeftFold, CountFold!FoldLeft, CountFold!MapThenFoldSet, CountFold!Max

LEMMA CountIsEnd ==
  ASSUME NEW groups, IsSeq(groups), NEW len, NEW start, IsStarts(start, len, Len(groups)),
         \A g \in 1 .. Len(groups) : len[g] = Len(groups[g].ids)
  PROVE  Count(groups) = start[Len(groups) + 1]
<1> DEFINE n == Len(groups)
<1>1. n \in Nat /\ DOMAIN groups = 1 .. n
  BY SeqFacts
<1>2. PICK run : CountFold!LeftRun({}, 0, groups, n, run)
  <2> HIDE DEF n
  <2> QED
    BY <1>1, CountFold!LeftFoldRuns
<1>3. /\ run[0] = 0 /\ Count(groups) = run[n]
      /\ \A k \in 1 .. n : run[k] = run[k - 1] + Len(groups[k].ids)
  BY <1>2, CountIsFold DEF CountFold!LeftRun, CountStep
<1> DEFINE Good == {k \in 0 .. n : run[k] = start[k + 1]}
<1>4. 0 \in Good
  BY <1>1, <1>3 DEF IsStarts
<1>5. ASSUME NEW k \in 1 .. n, k - 1 \in Good
      PROVE  k \in Good
  <2>1. run[k] = run[k - 1] + len[k] /\ start[k + 1] = start[k] + len[k]
    BY <1>3 DEF IsStarts
  <2>2. run[k - 1] = start[k]
    BY <1>5
  <2> QED
    BY <1>1, <2>1, <2>2
<1>6. \A k \in 0 .. n : k \in Good
  <2> HIDE DEF Good
  <2> QED
    BY <1>1, <1>4, <1>5, UpwardInduction
<1> QED
  BY <1>1, <1>3, <1>6

LEMMA CountIsStart ==
  ASSUME NEW groups, IsSeq(groups), NEW len, NEW start, IsStarts(start, len, Len(groups)),
         \A g \in 1 .. Len(groups) : len[g] = Len(groups[g].ids), NEW g \in 1 .. Len(groups)
  PROVE  RangeOf(groups, g) = [start |-> start[g], count |-> len[g]]
<1> DEFINE k == g - 1
           before == SubSeq(groups, 1, k)
<1>1. k \in 0 .. Len(groups) /\ Len(groups) \in Nat /\ k + 1 = g
  BY SeqFacts
<1> HIDE DEF k
<1>2. IsSeq(before) /\ Len(before) = k /\ \A i \in 1 .. k : before[i] = groups[i]
  BY <1>1, PrefixFacts
<1>3. IsStarts(start, len, k) /\ \A i \in 1 .. k : i \in 1 .. Len(groups)
  BY <1>1, StartsOfPrefix
<1>4. Count(before) = start[k + 1]
  <2> HIDE DEF before
  <2> QED
    BY <1>2, <1>3, CountIsEnd
<1> QED
  BY <1>1, <1>4 DEF RangeOf, k

-----------------------------------------------------------------------------
(* Cells. *)

(* Where the cells of each group start. *)
Layout(groups, start) ==
  IsStarts(start, [g \in 1 .. Len(groups) |-> Len(groups[g].ids)], Len(groups))

LEMMA LayoutExists ==
  ASSUME NEW k, NEW groups, GroupsHold(groups, k)
  PROVE  \E start : Layout(groups, start)
<1> DEFINE n == Len(groups)
           len == [g \in 1 .. Len(groups) |-> Len(groups[g].ids)]
<1>1. n \in Nat
  BY SeqFacts DEF GroupsHold
<1>2. \A g \in 1 .. n : len[g] \in Nat
  BY SeqFacts DEF GroupsHold, IsGroup
<1>3. \E start : IsStarts(start, len, n)
  <2> HIDE DEF len, n
  <2> QED
    BY <1>1, <1>2, StartsExist
<1> QED
  BY <1>3 DEF Layout

(* What holds of cells of groups that repeat a value, or have one each. *)
LEMMA FlatOfGroups ==
  ASSUME NEW k, NEW groups, GroupsHold(groups, k), NEW start, Layout(groups, start),
         NEW seqs, IsSeq(seqs), Len(seqs) = Len(groups),
         \A g \in 1 .. Len(groups) : IsSeq(seqs[g]) /\ Len(seqs[g]) = Len(groups[g].ids)
  PROVE  IsFlat(FlattenSeq(seqs), seqs, start, Len(groups))
<1> DEFINE n == Len(groups)
           len == [g \in 1 .. Len(groups) |-> Len(groups[g].ids)]
<1>1. \A g \in 1 .. n : len[g] = Len(seqs[g])
  OBVIOUS
<1>2. IsStarts(start, len, n)
  BY DEF Layout
<1> HIDE DEF len
<1>3. IsFlat(FlattenSeq(seqs), seqs, start, Len(seqs))
  BY <1>1, <1>2, FlattenFacts
<1> QED
  BY <1>3

LEMMA TableIsSeq ==
  ASSUME NEW n \in Nat, NEW f, f = [i \in 1 .. n |-> f[i]]
  PROVE  IsSeq(f) /\ Len(f) = n
<1> DEFINE S == {f[i] : i \in 1 .. n}
<1>1. f \in [1 .. n -> S]
  OBVIOUS
<1> HIDE DEF S
<1>2. f \in Seq(S) /\ Len(f) = n
  BY <1>1
<1> QED
  BY <1>2, SeqOfElements

RepeatedCells(groups, value) ==
  FlattenSeq([g \in DOMAIN groups |-> [n \in DOMAIN groups[g].ids |-> value[g]]])

LEMMA CellsRepeat ==
  ASSUME NEW k, NEW groups, GroupsHold(groups, k), NEW start, Layout(groups, start), NEW value
  PROVE  \A g \in 1 .. Len(groups) : \A m \in 1 .. Len(groups[g].ids) :
           RepeatedCells(groups, value)[start[g] + m] = value[g]
<1> DEFINE seqs == [g \in DOMAIN groups |-> [n \in DOMAIN groups[g].ids |-> value[g]]]
<1>1. Len(groups) \in Nat /\ DOMAIN groups = 1 .. Len(groups)
  BY SeqFacts DEF GroupsHold
<1>2. IsSeq(seqs) /\ Len(seqs) = Len(groups)
  <2>1. seqs = [i \in 1 .. Len(groups) |-> seqs[i]]
    BY <1>1
  <2> HIDE DEF seqs
  <2> QED
    BY <1>1, <2>1, TableIsSeq
<1>3. ASSUME NEW g \in 1 .. Len(groups)
      PROVE  /\ IsSeq(seqs[g]) /\ Len(seqs[g]) = Len(groups[g].ids)
             /\ \A m \in 1 .. Len(groups[g].ids) : seqs[g][m] = value[g]
  <2> DEFINE part == [n \in DOMAIN groups[g].ids |-> value[g]]
             n == Len(groups[g].ids)
  <2>1. n \in Nat /\ DOMAIN groups[g].ids = 1 .. n
    BY SeqFacts DEF GroupsHold, IsGroup
  <2>2. part = [i \in 1 .. n |-> part[i]] /\ \A m \in 1 .. n : part[m] = value[g]
    BY <2>1
  <2>3. seqs[g] = part
    BY <1>1
  <2> HIDE DEF part, n, seqs
  <2>4. IsSeq(part) /\ Len(part) = n
    BY <2>1, <2>2, TableIsSeq
  <2> QED
    BY <2>2, <2>3, <2>4 DEF n
<1> HIDE DEF seqs
<1>4. IsFlat(FlattenSeq(seqs), seqs, start, Len(groups))
  BY <1>2, <1>3, FlatOfGroups
<1>5. ASSUME NEW g \in 1 .. Len(groups), NEW m \in 1 .. Len(groups[g].ids)
      PROVE  FlattenSeq(seqs)[start[g] + m] = value[g]
  BY <1>3, <1>4 DEF IsFlat
<1> QED
  BY <1>5 DEF RepeatedCells, seqs

(* There are as many cells as definitions, whose IDs differ. *)
LEMMA CellsAreCounted ==
  ASSUME NEW k \in Nat, NEW groups, GroupsHold(groups, k), NEW start, Layout(groups, start),
         \A i, j \in 1 .. k : definitions[i].id = definitions[j].id => i = j
  PROVE  start[Len(groups) + 1] = k
<1> DEFINE n == Len(groups)
           len == [g \in 1 .. Len(groups) |-> Len(groups[g].ids)]
           total == start[n + 1]
           Is(c, i) == \E g \in 1 .. n : \E m \in 1 .. Len(groups[g].ids) :
                         c = start[g] + m /\ Places(groups[g], m, i)
           f == [c \in 1 .. total |-> CHOOSE i \in 1 .. k : Is(c, i)]
<1>1. /\ n \in Nat /\ IsStarts(start, len, n) /\ total \in Nat
      /\ \A g \in 1 .. n : len[g] = Len(groups[g].ids)
  BY SeqFacts DEF GroupsHold, Layout, IsStarts
<1> HIDE DEF n, total, len
<1>2. ASSUME NEW c \in 1 .. total
      PROVE  \E i \in 1 .. k : Is(c, i)
  <2>1. PICK g \in 1 .. n : \E m \in 1 .. len[g] : c = start[g] + m
    BY <1>1, PartsCover DEF total
  <2>2. PICK m \in 1 .. Len(groups[g].ids) : c = start[g] + m
    BY <1>1, <2>1
  <2>3. PICK i \in 1 .. k : Places(groups[g], m, i)
    BY DEF GroupsHold, n
  <2> QED
    BY <2>2, <2>3
<1>3. ASSUME NEW c \in 1 .. total
      PROVE  f[c] \in 1 .. k /\ Is(c, f[c])
  BY <1>2
<1>4. ASSUME NEW c \in 1 .. total, NEW d \in 1 .. total, NEW i \in 1 .. k, NEW j \in 1 .. k,
             Is(c, i), Is(d, j)
      PROVE  c = d <=> i = j
  <2>1. PICK g \in 1 .. n : \E m \in 1 .. Len(groups[g].ids) :
          c = start[g] + m /\ Places(groups[g], m, i)
    BY <1>4
  <2>2. PICK m \in 1 .. Len(groups[g].ids) : c = start[g] + m /\ Places(groups[g], m, i)
    BY <2>1
  <2>3. PICK h \in 1 .. n : \E p \in 1 .. Len(groups[h].ids) :
          d = start[h] + p /\ Places(groups[h], p, j)
    BY <1>4
  <2>4. PICK p \in 1 .. Len(groups[h].ids) : d = start[h] + p /\ Places(groups[h], p, j)
    BY <2>3
  <2>5. ASSUME c = d
        PROVE  i = j
    <3>1. m \in 1 .. len[g] /\ p \in 1 .. len[h] /\ start[g] + m = start[h] + p
      BY <1>1, <2>2, <2>4, <2>5
    <3>2. g = h /\ m = p
      BY <1>1, <3>1, PartsApart
    <3> QED
      BY <2>2, <2>4, <3>2 DEF Places
  <2>6. ASSUME i = j
        PROVE  c = d
    <3>1. groups[g].ids[m] = groups[h].ids[p]
      BY <2>2, <2>4, <2>6 DEF Places
    <3>2. g = h /\ m = p
      BY <3>1 DEF GroupsHold, n
    <3> QED
      BY <2>2, <2>4, <3>2
  <2> QED
    BY <2>5, <2>6
<1>5. ASSUME NEW i \in 1 .. k
      PROVE  \E c \in 1 .. total : f[c] = i
  <2>1. PICK g \in 1 .. n : \E m : Places(groups[g], m, i)
    BY DEF GroupsHold, n
  <2>2. PICK m : Places(groups[g], m, i)
    BY <2>1
  <2>3. m \in 1 .. Len(groups[g].ids) /\ m \in 1 .. len[g]
    BY <1>1, <2>2 DEF Places
  <2> DEFINE c == start[g] + m
  <2>4. c \in 1 .. total
    BY <1>1, <2>3, PlaceInWhole DEF total
  <2>5. Is(c, i)
    BY <2>2, <2>3
  <2> HIDE DEF c, Is, f
  <2>6. f[c] = i
    BY <1>3, <1>4, <2>4, <2>5
  <2> QED
    BY <2>4, <2>6
<1> HIDE DEF Is, f
<1>6. f \in Bijection(1 .. total, 1 .. k)
  <2>1. f \in [1 .. total -> 1 .. k]
    BY <1>3 DEF f
  <2>2. \A c, d \in 1 .. total : f[c] = f[d] => c = d
    BY <1>3, <1>4
  <2> QED
    BY <1>5, <2>1, <2>2 DEF Bijection, Injection, Surjection, IsInjective
<1>7. Cardinality(1 .. k) = Cardinality(1 .. total)
  BY <1>1, <1>6, FS_Interval, FS_Bijection DEF ExistsBijection
<1>8. Cardinality(1 .. k) = k /\ Cardinality(1 .. total) = total
  BY <1>1, FS_Interval
<1> QED
  BY <1>7, <1>8 DEF total, n

(* What the extractor of groups looks up, with where their cells start. *)
LooksUp(groups, start) ==
  LET derived == Derived(groups)
  IN  /\ IsSeq(extractor.ids) /\ Len(extractor.ids) = start[Len(groups) + 1]
      /\ \A g \in 1 .. Len(groups) : \A m \in 1 .. Len(groups[g].ids) :
           /\ extractor.ids[start[g] + m] = groups[g].ids[m]
           /\ extractor.contextSlots[start[g] + m] = IsContext(groups[g])
           /\ extractor.sources[start[g] + m][1] = groups[g].key.symbol
      /\ Enumerates(derived, {g \in 1 .. Len(groups) : ~ IsContext(groups[g])}, Len(groups))
      /\ DOMAIN extractor.features = 1 .. Len(derived)
      /\ \A f \in 1 .. Len(derived) :
           extractor.features[f]
             = [key |-> groups[derived[f]].key, parameters |-> groups[derived[f]].outputs,
                range |-> [start |-> start[derived[f]], count |-> Len(groups[derived[f]].ids)]]
      /\ extractor.router = RouterOf(extractor.features)

LEMMA CompiledLooksUp ==
  ASSUME NEW k, NEW groups, GroupsHold(groups, k), NEW start, Layout(groups, start),
         extractor = Compiled(groups)
  PROVE  LooksUp(groups, start)
<1> DEFINE n == Len(groups)
           derived == Derived(groups)
           context == [g \in DOMAIN groups |-> IsContext(groups[g])]
           source == [g \in DOMAIN groups |->
             <<groups[g].key.symbol, SourceKind(groups[g].key, IsGlobal(groups[g].key))>>]
           ids == [g \in DOMAIN groups |-> groups[g].ids]
<1>1. n \in Nat /\ DOMAIN groups = 1 .. n
  BY SeqFacts DEF GroupsHold
<1>2. /\ extractor.features = Features(groups)
      /\ extractor.ids = FlattenSeq(ids)
      /\ extractor.contextSlots = RepeatedCells(groups, context)
      /\ extractor.sources = RepeatedCells(groups, source)
      /\ extractor.router = RouterOf(extractor.features)
  <2>1. Cells(groups, IsContext) = RepeatedCells(groups, context)
    <3>1. [g \in DOMAIN groups |-> [m \in DOMAIN groups[g].ids |-> IsContext(groups[g])]]
            = [g \in DOMAIN groups |-> [m \in DOMAIN groups[g].ids |-> context[g]]]
      OBVIOUS
    <3> QED
      BY <3>1 DEF Cells, RepeatedCells
  <2>2. Cells(groups, LAMBDA group : <<group.key.symbol, SourceKind(group.key, IsGlobal(group.key))>>)
          = RepeatedCells(groups, source)
    <3>1. [g \in DOMAIN groups |-> [m \in DOMAIN groups[g].ids |->
              <<groups[g].key.symbol, SourceKind(groups[g].key, IsGlobal(groups[g].key))>>]]
            = [g \in DOMAIN groups |-> [m \in DOMAIN groups[g].ids |-> source[g]]]
      OBVIOUS
    <3> QED
      BY <3>1 DEF Cells, RepeatedCells
  <2> HIDE DEF context, source, ids
  <2>3. Compiled(groups).features = Features(groups)
        /\ Compiled(groups).router = RouterOf(Features(groups))
    BY DEF Compiled
  <2>4. Compiled(groups).ids = FlattenSeq(ids)
    BY DEF Compiled, ids
  <2>5. /\ Compiled(groups).contextSlots = Cells(groups, IsContext)
        /\ Compiled(groups).sources
             = Cells(groups, LAMBDA group :
                       <<group.key.symbol, SourceKind(group.key, IsGlobal(group.key))>>)
    BY DEF Compiled
  <2> QED
    BY <2>1, <2>2, <2>3, <2>4, <2>5
<1>3. IsSeq(ids) /\ Len(ids) = n
  <2>1. ids = [g \in 1 .. n |-> ids[g]]
    BY <1>1
  <2> HIDE DEF ids
  <2> QED
    BY <1>1, <2>1, TableIsSeq
<1>4. ASSUME NEW g \in 1 .. n
      PROVE  IsSeq(ids[g]) /\ Len(ids[g]) = Len(groups[g].ids) /\ ids[g] = groups[g].ids
  BY <1>1 DEF GroupsHold, IsGroup
<1>5. IsFlat(extractor.ids, ids, start, n)
  <2> HIDE DEF ids
  <2> QED
    BY <1>2, <1>3, <1>4, FlatOfGroups
<1>6. ASSUME NEW g \in 1 .. n, NEW m \in 1 .. Len(groups[g].ids)
      PROVE  /\ extractor.ids[start[g] + m] = groups[g].ids[m]
             /\ extractor.contextSlots[start[g] + m] = IsContext(groups[g])
             /\ extractor.sources[start[g] + m][1] = groups[g].key.symbol
  <2>1. extractor.ids[start[g] + m] = groups[g].ids[m]
    BY <1>4, <1>5 DEF IsFlat
  <2>2. context[g] = IsContext(groups[g]) /\ source[g][1] = groups[g].key.symbol
    BY <1>1
  <2> HIDE DEF context, source, n
  <2>3. \A value : RepeatedCells(groups, value)[start[g] + m] = value[g]
    BY CellsRepeat DEF n
  <2>4. extractor.contextSlots[start[g] + m] = context[g] /\ extractor.sources[start[g] + m] = source[g]
    BY <1>2, <2>3
  <2> QED
    BY <2>1, <2>2, <2>4
<1>7. Enumerates(derived, {g \in 1 .. n : ~ IsContext(groups[g])}, n)
  BY <1>1, InOrderFacts DEF Derived
<1>8. DOMAIN derived = 1 .. Len(derived) /\ \A f \in 1 .. Len(derived) : derived[f] \in 1 .. n
  BY <1>7, SeqFacts DEF Enumerates
<1>9. ASSUME NEW f \in 1 .. Len(derived)
      PROVE  Features(groups)[f]
               = [key |-> groups[derived[f]].key, parameters |-> groups[derived[f]].outputs,
                  range |-> [start |-> start[derived[f]], count |-> Len(groups[derived[f]].ids)]]
  <2> DEFINE len == [g \in 1 .. n |-> Len(groups[g].ids)]
             g == derived[f]
  <2>1. IsSeq(groups) /\ IsStarts(start, len, n) /\ \A h \in 1 .. n : len[h] = Len(groups[h].ids)
    BY DEF GroupsHold, Layout
  <2>2. Features(groups)[f] = BuildGroup(groups[g], RangeOf(groups, g)) /\ g \in 1 .. n
    BY <1>8 DEF Features
  <2> HIDE DEF len, g
  <2>3. RangeOf(groups, g) = [start |-> start[g], count |-> len[g]]
    BY <2>1, <2>2, CountIsStart
  <2>4. Features(groups)[f] = [key |-> groups[g].key, parameters |-> groups[g].outputs,
                               range |-> [start |-> start[g], count |-> Len(groups[g].ids)]]
    BY <2>1, <2>2, <2>3 DEF BuildGroup
  <2> QED
    BY <2>4 DEF g
<1>10. DOMAIN Features(groups) = 1 .. Len(derived)
  BY <1>8 DEF Features
<1> HIDE DEF derived, n, ids
<1>11. IsSeq(extractor.ids) /\ Len(extractor.ids) = start[n + 1]
  BY <1>5 DEF IsFlat
<1> QED
  BY <1>2, <1>6, <1>7, <1>9, <1>10, <1>11 DEF LooksUp, derived, n

-----------------------------------------------------------------------------
(* The key of a cell. *)

(* A whole number of buckets is the window again. *)
LEMMA WindowComesBack ==
  ASSUME NEW window \in Nat, NEW aggregation \in Nat, aggregation # 0, window % aggregation = 0
  PROVE  (window \div aggregation) * aggregation = window
<1>1. /\ window = (window \div aggregation) * aggregation + (window % aggregation)
      /\ window \div aggregation \in Int
  OBVIOUS
<1> DEFINE whole == (window \div aggregation) * aggregation
<1>2. whole \in Int
  BY <1>1
<1> HIDE DEF whole
<1>3. window = whole + 0
  BY <1>1 DEF whole
<1> QED
  BY <1>2, <1>3 DEF whole

(* A key's parameter, put back. *)
WithParameter(group, parameter) ==
  [group EXCEPT !.args =
     [field \in Fields(group.kind) |->
        IF field = Parameter(group.kind)
          THEN IF group.kind \in TimedKinds THEN parameter * group.args.aggregation ELSE parameter
          ELSE group.args[field]]]

(* The parameter of a valid key is its group's output, put back. *)
LEMMA ParameterComesBack ==
  ASSUME NEW key, IsKey(key), IsTimed(key), KeyError(key) = Valid, Parameter(key.kind) # None,
         NEW args, \A field \in Fields(key.kind) \ {Parameter(key.kind)} : args[field] = key.args[field]
  PROVE  key.args[Parameter(key.kind)]
           = IF key.kind \in TimedKinds THEN GroupOutput(key) * args.aggregation
             ELSE GroupOutput(key)
<1>1. CASE key.kind \notin TimedKinds
  BY <1>1 DEF GroupOutput
<1>2. CASE key.kind \in TimedKinds
  <2> DEFINE window == key.args.window
             aggregation == key.args.aggregation
  <2>1. key.kind \notin OrderBookKinds \cup SampleKinds \cup ReturnKinds
                         \cup {"Context", "Imbalance", "TimeSinceFirstEventOfDay"}
    BY <1>2 DEF TimedKinds, TimedFieldKinds, TimedTradeKinds, OrderBookKinds, QuoteKinds,
       PriceKinds, RankKinds, SizeKinds, ReturnKinds, SampleKinds
  <2>2. Parameter(key.kind) = "window"
    BY <1>2, <2>1 DEF Parameter
  <2>3. "aggregation" \in Fields(key.kind)
    BY <1>2 DEF Fields, TimedKinds, TimedFieldKinds, TimedTradeKinds, OrderBookKinds, QuoteKinds,
       PriceKinds, RankKinds, SizeKinds, ReturnKinds, SampleKinds
  <2>4. args.aggregation = aggregation
    BY <2>2, <2>3
  <2>5. TimedError(aggregation, window) = Valid
    BY <1>2, <2>1 DEF KeyError
  <2>6. aggregation # 0 /\ window % aggregation = 0
    BY <2>5 DEF TimedError, Valid, DurationError
  <2>7. aggregation \in Nat /\ window \in Nat
    BY <1>2 DEF IsTimed
  <2>8. GroupOutput(key) = window \div aggregation
    BY <1>2 DEF GroupOutput
  <2> HIDE DEF window, aggregation
  <2>9. (window \div aggregation) * aggregation = window
    BY <2>6, <2>7, WindowComesBack
  <2> QED
    BY <1>2, <2>2, <2>4, <2>8, <2>9 DEF window
<1> QED
  BY <1>1, <1>2

LEMMA KeyComesBack ==
  ASSUME NEW key, IsKey(key), IsTimed(key), KeyError(key) = Valid
  PROVE  WithParameter(GroupKey(key), GroupOutput(key)) = key
<1> DEFINE kind == key.kind
           p == Parameter(key.kind)
           args == [field \in Fields(kind) \ {p} |-> key.args[field]]
           group == GroupKey(key)
           output == GroupOutput(key)
           whole == [field \in Fields(kind) |->
                       IF field = p
                         THEN IF kind \in TimedKinds THEN output * args.aggregation ELSE output
                         ELSE args[field]]
<1>1. group = [kind |-> kind, args |-> args, symbol |-> key.symbol]
  <2>1. DOMAIN key.args = Fields(kind)
    BY DEF IsKey
  <2>2. Restrict(key.args, DOMAIN key.args \ {p}) = args
    BY <2>1 DEF Restrict
  <2> HIDE DEF args
  <2> QED
    BY <2>2 DEF GroupKey, IsKey
<1>2. \A field \in Fields(kind) \ {p} : args[field] = key.args[field]
  OBVIOUS
<1> HIDE DEF args, group, output
<1>3. p # None => key.args[p] = IF kind \in TimedKinds THEN output * args.aggregation ELSE output
  BY <1>2, ParameterComesBack DEF output
<1>4. None \notin Fields(kind)
  BY NoneIsNoField DEF IsKey
<1>5. \A field \in Fields(kind) : whole[field] = key.args[field]
  BY <1>2, <1>3, <1>4
<1>6. whole = [field \in Fields(kind) |-> whole[field]]
      /\ key.args = [field \in Fields(kind) |-> key.args[field]]
  BY DEF IsKey
<1>7. whole = key.args
  <2> HIDE DEF whole
  <2> QED
    BY <1>5, <1>6, Zenon
<1>8. WithParameter(group, output) = [group EXCEPT !.args = whole]
  <2>1. group.kind = kind /\ group.args = args
    BY <1>1
  <2> QED
    BY <2>1 DEF WithParameter
<1> HIDE DEF whole
<1>9. WithParameter(group, output) = [kind |-> kind, args |-> key.args, symbol |-> key.symbol]
  BY <1>1, <1>7, <1>8
<1> QED
  BY <1>9 DEF IsKey, group, output

-----------------------------------------------------------------------------
(* What definitions find. *)

(* The groups of an extractor hold the definitions, none of which is faulty. *)
LEMMA BuiltOfGroups ==
  ASSUME CompilerInvariant, IsBuilt
  PROVE  /\ Len(definitions) = length
         /\ GroupsHold(Grouped.groups, Len(definitions)) /\ extractor = Compiled(Grouped.groups)
         /\ RangesFit(Ranges(SubscriberGroups(RoutesOf(Features(Grouped.groups)))))
         /\ \A i \in 1 .. Len(definitions) : ~ Faulty(i)
<1> DEFINE n == Len(definitions)
           g == Grouped
<1>1. LoopHolds(g, n)
  BY LoopEnds DEF CompilerInvariant
<1>2. extractor # NotYet /\ \A error, index : extractor # Refusal(error, index)
  BY DEF IsBuilt, NotYet, Refusal
<1>3. extractor = Built
  BY <1>2 DEF CompilerInvariant
<1> HIDE DEF g
<1>4. /\ Len(definitions) = length /\ g.error = Valid /\ extractor = Compiled(g.groups)
      /\ RangesFit(Ranges(SubscriberGroups(RoutesOf(Features(g.groups)))))
  BY <1>2, <1>3 DEF Built, g
<1> QED
  BY <1>1, <1>4 DEF LoopHolds, g

LEMMA SoundDefinitionsDiffer ==
  ASSUME DefinitionsAre, \A i \in 1 .. Len(definitions) : ~ Faulty(i),
         NEW i \in 1 .. Len(definitions), NEW j \in 1 .. Len(definitions),
         definitions[i].id = definitions[j].id
  PROVE  i = j
<1>1. Len(definitions) \in Nat
  BY SeqFacts DEF DefinitionsAre
<1>2. CASE i < j
  <2>1. i \in 1 .. j - 1
    BY <1>1, <1>2
  <2> QED
    BY <2>1 DEF Faulty
<1>3. CASE j < i
  <2>1. j \in 1 .. i - 1
    BY <1>1, <1>3
  <2> QED
    BY <2>1 DEF Faulty
<1> QED
  BY <1>1, <1>2, <1>3

LEMMA GroupKeyFacts ==
  ASSUME NEW key, IsKey(key)
  PROVE  GroupKey(key).kind = key.kind /\ GroupKey(key).symbol = key.symbol
BY DEF GroupKey, IsKey

(* The place, in a part of a sequence, of a position that lies in it. *)
LEMMA OffsetInPart ==
  ASSUME NEW from \in Nat, NEW size \in Nat, NEW a \in Nat, NEW b \in Nat,
         a + b \in from + 1 .. from + size
  PROVE  a + b - from \in 1 .. size /\ a + b = from + (a + b - from)
OBVIOUS

(* The cells of the derivations: those of one group each. *)
LEMMA OwnersOfCell ==
  ASSUME NEW k, NEW groups, GroupsHold(groups, k), NEW start, Layout(groups, start),
         LooksUp(groups, start),
         NEW g \in 1 .. Len(groups), NEW m \in 1 .. Len(groups[g].ids)
  PROVE  \A f \in DOMAIN extractor.features :
           start[g] + m \in CellsOfFeature(f) <=> Derived(groups)[f] = g
<1> DEFINE len == [h \in 1 .. Len(groups) |-> Len(groups[h].ids)]
           n == Len(groups)
           derived == Derived(groups)
<1>1. n \in Nat /\ IsStarts(start, len, n) /\ \A h \in 1 .. n : len[h] = Len(groups[h].ids)
  BY SeqFacts DEF GroupsHold, Layout
<1> HIDE DEF len, n, derived
<1>2. SUFFICES ASSUME NEW f \in DOMAIN extractor.features
               PROVE  start[g] + m \in CellsOfFeature(f) <=> derived[f] = g
  BY DEF derived
<1> DEFINE h == derived[f]
<1>3. /\ h \in 1 .. n
      /\ extractor.features[f].range = [start |-> start[h], count |-> Len(groups[h].ids)]
  <2>1. f \in 1 .. Len(derived)
    BY DEF LooksUp, derived
  <2>2. derived[f] \in 1 .. n
    BY <2>1 DEF LooksUp, Enumerates, derived, n
  <2>3. extractor.features[f]
          = [key |-> groups[derived[f]].key, parameters |-> groups[derived[f]].outputs,
             range |-> [start |-> start[derived[f]], count |-> Len(groups[derived[f]].ids)]]
    BY <2>1 DEF LooksUp, derived
  <2> QED
    BY <2>2, <2>3
<1> HIDE DEF h
<1>4. CellsOfFeature(f) = start[h] + 1 .. start[h] + len[h]
  BY <1>1, <1>3 DEF CellsOfFeature
<1>5. start[g] \in Nat /\ start[h] \in Nat /\ len[h] \in Nat /\ g \in 1 .. n /\ m \in 1 .. len[g]
  BY <1>1, <1>3 DEF IsStarts, n
<1>6. ASSUME start[g] + m \in CellsOfFeature(f)
      PROVE  h = g
  <2> DEFINE p == start[g] + m - start[h]
  <2>1. p \in 1 .. len[h] /\ start[g] + m = start[h] + p
    <3>1. start[g] + m \in start[h] + 1 .. start[h] + len[h]
      BY <1>4, <1>6
    <3>2. start[g] \in Nat /\ start[h] \in Nat /\ len[h] \in Nat /\ m \in Nat
      BY <1>5
    <3> QED
      BY <3>1, <3>2, OffsetInPart
  <2> HIDE DEF p
  <2> QED
    BY <1>1, <1>3, <1>5, <2>1, PartsApart
<1>7. ASSUME h = g
      PROVE  start[g] + m \in CellsOfFeature(f)
  BY <1>4, <1>5, <1>7
<1> QED
  BY <1>6, <1>7 DEF h

(* The one cell of a definition. *)
LEMMA DefinitionsFind ==
  ASSUME DefinitionsAre, \A i \in 1 .. Len(definitions) : ~ Faulty(i),
         NEW groups, GroupsHold(groups, Len(definitions)), NEW start, Layout(groups, start),
         LooksUp(groups, start), NEW i \in 1 .. Len(definitions)
  PROVE  LET definition == definitions[i]
         IN  \E c \in DOMAIN extractor.ids :
               /\ CellsOf(definition.id) = {c}
               /\ extractor.sources[c][1] = definition.key.symbol
               /\ extractor.contextSlots[c] = (definition.key.kind = "Context")
               /\ LET owners == {f \in DOMAIN extractor.features : c \in CellsOfFeature(f)}
                  IN  IF definition.key.kind = "Context" THEN owners = {}
                      ELSE \E f \in owners :
                             owners = {f} /\ KeyOfCell(f, c) = definition.key
<1> DEFINE size == Len(groups)
           len == [g \in 1 .. Len(groups) |-> Len(groups[g].ids)]
           d == definitions[i]
           derived == Derived(groups)
<1>1. /\ size \in Nat /\ IsStarts(start, len, size) /\ \A g \in 1 .. size : len[g] = Len(groups[g].ids)
      /\ IsSeq(extractor.ids) /\ Len(extractor.ids) = start[size + 1]
      /\ DOMAIN extractor.ids = 1 .. start[size + 1]
  BY SeqFacts DEF GroupsHold, Layout, LooksUp
<1>2. IsKey(d.key) /\ IsTimed(d.key) /\ KeyError(d.key) = Valid
  BY DEF DefinitionsAre, DefinitionIs, Faulty
<1> HIDE DEF size, len
<1>3. PICK g \in 1 .. size : \E m : Places(groups[g], m, i)
  BY DEF GroupsHold, size
<1>4. PICK m : Places(groups[g], m, i)
  BY <1>3
<1> DEFINE cell == start[g] + m
<1>5. /\ m \in 1 .. Len(groups[g].ids) /\ m \in 1 .. len[g]
      /\ groups[g].key = GroupKey(d.key) /\ groups[g].ids[m] = d.id
      /\ groups[g].outputs[m] = GroupOutput(d.key)
      /\ groups[g].key.kind = d.key.kind /\ groups[g].key.symbol = d.key.symbol
  BY <1>1, <1>2, <1>4, GroupKeyFacts DEF Places
<1>6. cell \in DOMAIN extractor.ids
  BY <1>1, <1>5, PlaceInWhole
<1>7. /\ extractor.ids[cell] = d.id
      /\ extractor.sources[cell][1] = d.key.symbol
      /\ extractor.contextSlots[cell] = (d.key.kind = "Context")
  BY <1>5 DEF LooksUp, IsContext, size
<1>8. ASSUME NEW e \in DOMAIN extractor.ids, extractor.ids[e] = d.id
      PROVE  e = cell
  <2>1. e \in 1 .. start[size + 1]
    BY <1>1
  <2>2. PICK h \in 1 .. size : \E p \in 1 .. len[h] : e = start[h] + p
    <3>1. size \in Nat /\ IsStarts(start, len, size)
      BY <1>1
    <3> QED
      BY <2>1, <3>1, PartsCover
  <2>3. PICK p \in 1 .. Len(groups[h].ids) : e = start[h] + p
    BY <1>1, <2>2
  <2>4. groups[h].ids[p] = groups[g].ids[m]
    BY <1>5, <1>8, <2>3 DEF LooksUp, size
  <2>5. h = g /\ p = m
    <3>1. m \in 1 .. Len(groups[g].ids)
      BY <1>5
    <3>2. \A a, b \in 1 .. size :
            \A x \in 1 .. Len(groups[a].ids), y \in 1 .. Len(groups[b].ids) :
              groups[a].ids[x] = groups[b].ids[y] => a = b /\ x = y
      BY DEF GroupsHold, size
    <3> QED
      BY <2>4, <3>1, <3>2
  <2> QED
    BY <2>3, <2>5
<1>9. CellsOf(d.id) = {cell}
  <2> HIDE DEF cell, d
  <2> QED
    BY <1>6, <1>7, <1>8 DEF CellsOf
<1>10. \A f \in DOMAIN extractor.features : cell \in CellsOfFeature(f) <=> derived[f] = g
  BY <1>5, OwnersOfCell DEF size
<1>11. /\ DOMAIN extractor.features = 1 .. Len(derived)
       /\ Enumerates(derived, {h \in 1 .. size : ~ IsContext(groups[h])}, size)
  BY DEF LooksUp, size
<1> DEFINE owners == {f \in DOMAIN extractor.features : cell \in CellsOfFeature(f)}
<1>12. CASE d.key.kind = "Context"
  <2>1. IsContext(groups[g])
    BY <1>5, <1>12 DEF IsContext
  <2>2. owners = {}
    <3> HIDE DEF cell, derived
    <3> QED
      BY <1>10, <1>11, <2>1 DEF Enumerates
  <2> HIDE DEF owners, cell, d
  <2> QED
    BY <1>6, <1>7, <1>9, <1>12, <2>2 DEF owners, d
<1>13. CASE d.key.kind # "Context"
  <2>1. ~ IsContext(groups[g])
    BY <1>5, <1>13 DEF IsContext
  <2> HIDE DEF derived, d
  <2>2. PICK f \in 1 .. Len(derived) : derived[f] = g
    BY <1>11, <2>1 DEF Enumerates
  <2>3. \A e \in 1 .. Len(derived) : derived[e] = g => e = f
    <3>1. IsSeq(derived) /\ \A e, h \in 1 .. Len(derived) : e < h => derived[e] < derived[h]
      BY <1>11 DEF Enumerates
    <3>2. Len(derived) \in Nat /\ g \in Nat
      BY <3>1, <1>1, SeqFacts
    <3> QED
      BY <2>2, <3>1, <3>2
  <2>4. owners = {f}
    <3> HIDE DEF cell
    <3> QED
      BY <1>10, <1>11, <2>2, <2>3
  <2>5. extractor.features[f]
          = [key |-> groups[g].key, parameters |-> groups[g].outputs,
             range |-> [start |-> start[g], count |-> Len(groups[g].ids)]]
    BY <2>2 DEF LooksUp, derived
  <2>6. start[g] \in Nat /\ m \in Nat
    BY <1>1, <1>5 DEF IsStarts
  <2>7. cell - extractor.features[f].range.start = m
    BY <2>5, <2>6
  <2> DEFINE key == groups[g].key
             output == groups[g].outputs[m]
  <2>8. /\ extractor.features[f].key = key
        /\ extractor.features[f].parameters[cell - extractor.features[f].range.start] = output
    BY <2>5, <2>7
  <2> HIDE DEF key, output, cell
  <2>9. KeyOfCell(f, cell) = WithParameter(key, output)
    BY <2>8 DEF KeyOfCell, WithParameter
  <2>10. WithParameter(key, output) = d.key
    BY <1>2, <1>5, KeyComesBack DEF key, output, d
  <2> HIDE DEF owners
  <2> QED
    BY <1>6, <1>7, <1>9, <1>13, <2>4, <2>9, <2>10 DEF owners, d
<1> QED
  BY <1>12, <1>13

LEMMA CompilerFinds == CompilerInvariant => DefinitionsFindTheirCells
<1> SUFFICES ASSUME CompilerInvariant, IsBuilt
             PROVE  /\ Len(extractor.ids) = length
                    /\ \A i \in DOMAIN definitions :
                         LET definition == definitions[i]
                         IN  \E c \in DOMAIN extractor.ids :
                               /\ CellsOf(definition.id) = {c}
                               /\ extractor.sources[c][1] = definition.key.symbol
                               /\ extractor.contextSlots[c] = (definition.key.kind = "Context")
                               /\ LET owners == {f \in DOMAIN extractor.features :
                                                   c \in CellsOfFeature(f)}
                                  IN  IF definition.key.kind = "Context" THEN owners = {}
                                      ELSE \E f \in owners :
                                             owners = {f} /\ KeyOfCell(f, c) = definition.key
  BY DEF DefinitionsFindTheirCells
<1> DEFINE n == Len(definitions)
           groups == Grouped.groups
<1>1. /\ n = length /\ GroupsHold(groups, n) /\ extractor = Compiled(groups)
      /\ \A i \in 1 .. n : ~ Faulty(i)
  BY BuiltOfGroups
<1>2. DefinitionsAre /\ n \in Nat /\ DOMAIN definitions = 1 .. n
  BY SeqFacts DEF CompilerInvariant, DefinitionsAre
<1> HIDE DEF groups
<1>3. PICK start : Layout(groups, start)
  BY <1>1, LayoutExists
<1>4. LooksUp(groups, start)
  BY <1>1, <1>3, CompiledLooksUp
<1>5. \A i, j \in 1 .. n : definitions[i].id = definitions[j].id => i = j
  BY <1>1, <1>2, SoundDefinitionsDiffer
<1>6. Len(extractor.ids) = length
  <2>1. start[Len(groups) + 1] = n
    BY <1>1, <1>2, <1>3, <1>5, CellsAreCounted
  <2> QED
    BY <1>1, <1>4, <2>1 DEF LooksUp
<1>7. ASSUME NEW i \in 1 .. n
      PROVE  LET definition == definitions[i]
             IN  \E c \in DOMAIN extractor.ids :
                   /\ CellsOf(definition.id) = {c}
                   /\ extractor.sources[c][1] = definition.key.symbol
                   /\ extractor.contextSlots[c] = (definition.key.kind = "Context")
                   /\ LET owners == {f \in DOMAIN extractor.features : c \in CellsOfFeature(f)}
                      IN  IF definition.key.kind = "Context" THEN owners = {}
                          ELSE \E f \in owners :
                                 owners = {f} /\ KeyOfCell(f, c) = definition.key
  BY <1>1, <1>2, <1>3, <1>4, DefinitionsFind
<1> QED
  BY <1>2, <1>6, <1>7

(* Every definition of an extractor finds one cell, computed by a           *)
(* derivation with exactly its key, however definitions were grouped.       *)
THEOREM DefinitionsStayFound == CompilerSpec => []DefinitionsFindTheirCells
BY CompilerInvariance, CompilerFinds, PTL

-----------------------------------------------------------------------------
(* Routing tables. *)

(* The greatest element of a sequence of numbers, or -1. *)
LEMMA GreatestOfSeq ==
  ASSUME NEW s, IsSeq(s), \A i \in 1 .. Len(s) : s[i] \in Nat
  PROVE  /\ Max({-1} \cup ToSet(s)) \in Int
         /\ \A i \in 1 .. Len(s) : s[i] <= Max({-1} \cup ToSet(s))
<1> DEFINE n == Len(s)
           Upto(k) == {-1} \cup {s[i] : i \in 1 .. k}
           Good == {k \in 0 .. n : \E x \in Upto(k) : \A y \in Upto(k) : x >= y}
<1>1. n \in Nat /\ DOMAIN s = 1 .. n
  BY SeqFacts
<1>2. \A k \in 0 .. n : \A x \in Upto(k) : x \in Int
  BY <1>1
<1>3. 0 \in Good
  BY <1>1
<1>4. ASSUME NEW k \in 1 .. n, k - 1 \in Good
      PROVE  k \in Good
  <2>1. Upto(k) = Upto(k - 1) \cup {s[k]} /\ s[k] \in Int /\ k - 1 \in 0 .. n
    <3>1. 1 .. k = (1 .. k - 1) \cup {k}
      OBVIOUS
    <3> QED
      BY <1>1, <3>1
  <2>2. PICK x \in Upto(k - 1) : \A y \in Upto(k - 1) : x >= y
    BY <1>4
  <2>3. x \in Int /\ \A y \in Upto(k - 1) : y \in Int
    BY <1>2, <2>1
  <2> HIDE DEF Upto
  <2>4. CASE s[k] <= x
    BY <2>1, <2>2, <2>3, <2>4
  <2>5. CASE x < s[k]
    <3>1. s[k] \in Upto(k) /\ \A y \in Upto(k) : s[k] >= y
      BY <2>1, <2>2, <2>3, <2>5
    <3> QED
      BY <3>1
  <2> QED
    BY <2>1, <2>3, <2>4, <2>5
<1>5. \A k \in 0 .. n : k \in Good
  <2> HIDE DEF Good
  <2> QED
    BY <1>1, <1>3, <1>4, UpwardInduction
<1>6. {-1} \cup ToSet(s) = Upto(n)
  BY <1>1 DEF ToSet
<1> DEFINE greatest == Max(Upto(n))
<1>7. greatest \in Upto(n) /\ \A y \in Upto(n) : greatest >= y
  <2> DEFINE S == Upto(n)
  <2>1. \E x \in S : \A y \in S : x >= y
    <3> HIDE DEF Upto
    <3>1. n \in Good
      BY <1>1, <1>5
    <3> QED
      BY <3>1
  <2> HIDE DEF S, Upto
  <2>2. Max(S) \in S /\ \A y \in S : Max(S) >= y
    BY <2>1, Zenon DEF Max
  <2> QED
    BY <2>2 DEF S
<1> HIDE DEF greatest
<1>8. greatest \in Int /\ \A i \in 1 .. n : s[i] <= greatest
  <2>1. \A i \in 1 .. n : s[i] \in Upto(n) /\ s[i] \in Int
    OBVIOUS
  <2> HIDE DEF Upto
  <2> QED
    BY <1>1, <1>2, <1>7, <2>1
<1> HIDE DEF Upto
<1> QED
  BY <1>6, <1>8 DEF greatest

(* The routers of the first k routes. *)
RoutersHold(symbols, routes, k) ==
  /\ IsSeq(symbols)
  /\ \A i, j \in 1 .. Len(symbols) : symbols[i] = symbols[j] => i = j
  /\ \A i \in 1 .. Len(symbols) :
       \E f \in 1 .. k : routes[f].route # <<"Any">> /\ routes[f].symbol = symbols[i]
  /\ \A f \in 1 .. k :
       routes[f].route # <<"Any">> => \E i \in 1 .. Len(symbols) : symbols[i] = routes[f].symbol

RouterStep(none, symbols, r) == AddRouter(symbols, r)

RouterFold == INSTANCE FoldLemmas WITH Step <- RouterStep

LEMMA RoutersIsFold ==
  ASSUME NEW routes
  PROVE  Routers(routes) = RouterFold!LeftFold({}, <<>>, routes)
BY DEF Routers, RouterStep, FoldLeft, MapThenFoldSet, Max,
       RouterFold!LeftFold, RouterFold!FoldLeft, RouterFold!MapThenFoldSet, RouterFold!Max

LEMMA RouterAdded ==
  ASSUME NEW routes, NEW k \in Nat, NEW symbols, RoutersHold(symbols, routes, k)
  PROVE  RoutersHold(AddRouter(symbols, routes[k + 1]), routes, k + 1)
<1> DEFINE x == k + 1
           r == routes[x]
           next == AddRouter(symbols, r)
           n == Len(symbols)
<1>1. IsSeq(symbols) /\ n \in Nat /\ DOMAIN symbols = 1 .. n
  BY SeqFacts DEF RoutersHold
<1>2. /\ \A f \in 1 .. x : f \in 1 .. k \/ f = x
      /\ \A f \in 1 .. k : f \in 1 .. x
      /\ x \in 1 .. x
  OBVIOUS
<1>3. ToSet(symbols) = {symbols[i] : i \in 1 .. n}
  BY <1>1 DEF ToSet
<1> HIDE DEF x
<1>4. CASE r.route = <<"Any">> \/ r.symbol \in ToSet(symbols)
  <2>1. next = symbols
    BY <1>4 DEF AddRouter
  <2>2. r.route # <<"Any">> => \E i \in 1 .. n : symbols[i] = r.symbol
    BY <1>3, <1>4
  <2> HIDE DEF next
  <2> QED
    BY <1>2, <2>1, <2>2 DEF RoutersHold, next, x
<1>5. CASE r.route # <<"Any">> /\ r.symbol \notin ToSet(symbols)
  <2>1. next = Append(symbols, r.symbol)
    BY <1>5 DEF AddRouter
  <2> HIDE DEF next, n
  <2>2. /\ IsSeq(next) /\ Len(next) = n + 1
        /\ \A i \in 1 .. n : next[i] = symbols[i]
        /\ next[n + 1] = r.symbol
    BY <1>1, <2>1, AppendFacts DEF n
  <2>3. /\ \A i \in 1 .. n + 1 : i \in 1 .. n \/ i = n + 1
        /\ \A i \in 1 .. n : i \in 1 .. n + 1
        /\ n + 1 \in 1 .. n + 1
    BY <1>1
  <2>4. \A i \in 1 .. n : symbols[i] # r.symbol
    BY <1>3, <1>5
  <2>5. \A i, j \in 1 .. n + 1 : next[i] = next[j] => i = j
    BY <2>2, <2>3, <2>4 DEF RoutersHold, n
  <2>6. \A i \in 1 .. n + 1 :
          \E f \in 1 .. x : routes[f].route # <<"Any">> /\ routes[f].symbol = next[i]
    BY <1>2, <1>5, <2>2, <2>3 DEF RoutersHold, n
  <2>7. \A f \in 1 .. x :
          routes[f].route # <<"Any">> => \E i \in 1 .. n + 1 : next[i] = routes[f].symbol
    BY <1>2, <1>5, <2>2, <2>3 DEF RoutersHold, n
  <2> QED
    BY <2>2, <2>5, <2>6, <2>7 DEF RoutersHold, next, x
<1> QED
  BY <1>4, <1>5

LEMMA RoutersFacts ==
  ASSUME NEW routes, IsSeq(routes)
  PROVE  RoutersHold(Routers(routes), routes, Len(routes))
<1> DEFINE n == Len(routes)
<1>1. n \in Nat /\ DOMAIN routes = 1 .. n
  BY SeqFacts
<1>2. PICK run : RouterFold!LeftRun({}, <<>>, routes, n, run)
  <2> HIDE DEF n
  <2> QED
    BY <1>1, RouterFold!LeftFoldRuns
<1>3. /\ run[0] = <<>> /\ Routers(routes) = run[n]
      /\ \A k \in 1 .. n : run[k] = AddRouter(run[k - 1], routes[k])
  BY <1>2, RoutersIsFold DEF RouterFold!LeftRun, RouterStep
<1> DEFINE Good == {k \in 0 .. n : RoutersHold(run[k], routes, k)}
<1>4. 0 \in Good
  <2>1. RoutersHold(<<>>, routes, 0)
    BY EmptyIsSeq DEF RoutersHold
  <2> QED
    BY <1>1, <1>3, <2>1
<1>5. ASSUME NEW k \in 1 .. n, k - 1 \in Good
      PROVE  k \in Good
  <2> DEFINE m == k - 1
             before == run[m]
  <2>1. m \in Nat /\ m + 1 = k /\ RoutersHold(before, routes, m)
        /\ run[k] = AddRouter(before, routes[k])
    BY <1>3, <1>5
  <2> HIDE DEF m, before
  <2>2. RoutersHold(AddRouter(before, routes[m + 1]), routes, m + 1)
    BY <2>1, RouterAdded
  <2> QED
    BY <1>1, <2>1, <2>2
<1>6. \A k \in 0 .. n : k \in Good
  <2> HIDE DEF Good
  <2> QED
    BY <1>1, <1>4, <1>5, UpwardInduction
<1> QED
  BY <1>1, <1>3, <1>6

(* The table of symbols knows the routers and no other symbol. *)
LEMMA SymbolsAreLookedUp ==
  ASSUME NEW routes, IsSeq(routes), \A f \in 1 .. Len(routes) : routes[f].symbol \in Nat,
         NEW symbol \in Nat
  PROVE  LET routers == Routers(routes)
             table   == SymbolToIndex(routes)
         IN  /\ \A r \in 1 .. Len(routers) :
                  routers[r] = symbol => symbol \in DOMAIN table /\ table[symbol] = r - 1
             /\ (\A r \in 1 .. Len(routers) : routers[r] # symbol)
                  => symbol \notin DOMAIN table \/ table[symbol] = -1
<1> DEFINE routers == Routers(routes)
           table == SymbolToIndex(routes)
           last == Max({-1} \cup ToSet(Routers(routes)))
<1>1. RoutersHold(routers, routes, Len(routes))
  BY RoutersFacts
<1>2. /\ IsSeq(routers) /\ DOMAIN routers = 1 .. Len(routers) /\ Len(routers) \in Nat
      /\ \A r \in 1 .. Len(routers) : routers[r] \in Nat
  BY <1>1, SeqFacts DEF RoutersHold
<1>3. ToSet(routers) = {routers[r] : r \in 1 .. Len(routers)}
  BY <1>2 DEF ToSet
<1>4. table = [s \in 0 .. last |->
                 IF s \in ToSet(routers) THEN (CHOOSE r \in DOMAIN routers : routers[r] = s) - 1
                 ELSE -1]
  BY DEF SymbolToIndex
<1>5. last \in Int /\ \A r \in 1 .. Len(routers) : routers[r] <= last
  <2> HIDE DEF routers
  <2>1. /\ Max({-1} \cup ToSet(routers)) \in Int
        /\ \A i \in 1 .. Len(routers) : routers[i] <= Max({-1} \cup ToSet(routers))
    BY <1>2, GreatestOfSeq
  <2> QED
    BY <2>1 DEF routers
<1> HIDE DEF last, routers, table
<1>6. ASSUME NEW r \in 1 .. Len(routers), routers[r] = symbol
      PROVE  symbol \in DOMAIN table /\ table[symbol] = r - 1
  <2>1. symbol \in 0 .. last /\ symbol \in ToSet(routers)
    BY <1>3, <1>5, <1>6
  <2>2. \A s \in DOMAIN routers : routers[s] = symbol <=> s = r
    BY <1>1, <1>2, <1>6 DEF RoutersHold
  <2>3. (CHOOSE s \in DOMAIN routers : routers[s] = symbol) = r
    BY <1>2, <2>2
  <2> QED
    BY <1>4, <2>1, <2>3
<1>7. ASSUME \A r \in 1 .. Len(routers) : routers[r] # symbol, symbol \in DOMAIN table
      PROVE  table[symbol] = -1
  <2>1. symbol \notin ToSet(routers)
    BY <1>3, <1>7
  <2> QED
    BY <1>4, <1>7, <2>1
<1> QED
  BY <1>6, <1>7 DEF routers, table

(* Ranges are of natural numbers. *)
LEMMA RangesAreNaturals ==
  ASSUME NEW parts, IsSeq(parts), \A i \in 1 .. Len(parts) : IsSeq(parts[i])
  PROVE  Ranges(parts) = [i \in 1 .. Len(parts) |->
                            [start |-> Ranges(parts)[i].start, len |-> Ranges(parts)[i].len]]
         /\ \A i \in 1 .. Len(parts) :
              Ranges(parts)[i].start \in Nat /\ Ranges(parts)[i].len \in Nat
<1> DEFINE n == Len(parts)
           ranges == Ranges(parts)
<1>1. n \in Nat /\ DOMAIN parts = 1 .. n /\ \A i \in 1 .. n : Len(parts[i]) \in Nat
  BY SeqFacts
<1>2. ASSUME NEW i \in 1 .. n
      PROVE  Len(FlattenSeq(SubSeq(parts, 1, i - 1))) \in Nat
  <2> DEFINE k == i - 1
             before == SubSeq(parts, 1, k)
             len == [j \in 1 .. Len(before) |-> Len(before[j])]
  <2>1. k \in 0 .. n /\ \A j \in 1 .. k : j \in 1 .. n
    BY <1>1
  <2> HIDE DEF k
  <2>2. IsSeq(before) /\ Len(before) = k /\ \A j \in 1 .. k : before[j] = parts[j]
    BY <2>1, PrefixFacts DEF n
  <2>3. Len(before) \in Nat /\ \A j \in 1 .. Len(before) : IsSeq(before[j]) /\ Len(before[j]) \in Nat
    BY <1>1, <2>1, <2>2
  <2> HIDE DEF before
  <2>4. \A j \in 1 .. Len(before) : len[j] = Len(before[j]) /\ len[j] \in Nat
    BY <2>3
  <2> HIDE DEF len
  <2>5. PICK start : IsStarts(start, len, Len(before))
    BY <2>3, <2>4, StartsExist
  <2>6. IsFlat(FlattenSeq(before), before, start, Len(before))
    BY <2>2, <2>3, <2>4, <2>5, FlattenFacts
  <2>7. IsSeq(FlattenSeq(before))
    BY <2>6 DEF IsFlat
  <2> QED
    BY <2>7, SeqFacts DEF before, k
<1>3. /\ \A i \in 1 .. n :
           ranges[i] = [start |-> Len(FlattenSeq(SubSeq(parts, 1, i - 1))), len |-> Len(parts[i])]
      /\ ranges = [i \in 1 .. n |-> ranges[i]]
  BY <1>1 DEF Ranges
<1> HIDE DEF ranges
<1>4. \A i \in 1 .. n : /\ ranges[i].start \in Nat /\ ranges[i].len \in Nat
                        /\ ranges[i] = [start |-> ranges[i].start, len |-> ranges[i].len]
  BY <1>1, <1>2, <1>3
<1>5. ranges = [i \in 1 .. n |-> [start |-> ranges[i].start, len |-> ranges[i].len]]
  BY <1>3, <1>4
<1> QED
  BY <1>4, <1>5 DEF ranges

(* A number that fits keeps its value at its width. *)
LEMMA FittingNumber == \A number \in 0 .. MaxU16 : AsU16(number) = number
BY CompilerAssumption DEF AsU16

(* Ranges that fit are stored as they are. *)
LEMMA FittingAreStored ==
  ASSUME NEW parts, IsSeq(parts), \A i \in 1 .. Len(parts) : IsSeq(parts[i]),
         RangesFit(Ranges(parts))
  PROVE  Stored(Ranges(parts)) = Ranges(parts)
<1> DEFINE ranges == Ranges(parts)
           n == Len(parts)
<1>1. /\ ranges = [i \in 1 .. n |-> [start |-> ranges[i].start, len |-> ranges[i].len]]
      /\ \A i \in 1 .. n : ranges[i].start \in Nat /\ ranges[i].len \in Nat
  BY RangesAreNaturals
<1>2. RangesFit(ranges)
  OBVIOUS
<1> HIDE DEF ranges
<1>3. DOMAIN ranges = 1 .. n
  BY <1>1
<1>4. \A i \in 1 .. n : ranges[i].start \in 0 .. MaxU16 /\ ranges[i].len \in 0 .. MaxU16
  BY <1>1, <1>2, <1>3, CompilerAssumption DEF RangesFit
<1>5. \A i \in 1 .. n : AsU16(ranges[i].start) = ranges[i].start /\ AsU16(ranges[i].len) = ranges[i].len
  BY <1>4, FittingNumber
<1>6. Stored(ranges) = [i \in 1 .. n |-> [start |-> ranges[i].start, len |-> ranges[i].len]]
  BY <1>3, <1>5 DEF Stored
<1> QED
  BY <1>1, <1>6 DEF ranges

(* A range of the flat list is the part it was made for. *)
LEMMA SliceIsPart ==
  ASSUME NEW parts, IsSeq(parts), \A i \in 1 .. Len(parts) : IsSeq(parts[i]),
         NEW router, router.ranges = Ranges(parts), router.subscribers = FlattenSeq(parts)
  PROVE  /\ Len(router.ranges) = Len(parts)
         /\ \A i \in 1 .. Len(parts) : Slice(router, i) = parts[i]
<1> DEFINE n == Len(parts)
           len == [i \in 1 .. Len(parts) |-> Len(parts[i])]
           flat == FlattenSeq(parts)
           ranges == Ranges(parts)
<1>1. n \in Nat /\ DOMAIN parts = 1 .. n /\ \A i \in 1 .. n : len[i] = Len(parts[i]) /\ len[i] \in Nat
  BY SeqFacts
<1>2. Len(ranges) = n
  <2>1. ranges = [i \in 1 .. n |-> ranges[i]]
    BY <1>1 DEF Ranges
  <2> HIDE DEF ranges
  <2> QED
    BY <1>1, <2>1, TableIsSeq
<1> HIDE DEF len, n
<1>3. PICK start : IsStarts(start, len, n)
  BY <1>1, StartsExist
<1>4. IsFlat(flat, parts, start, n)
  BY <1>1, <1>3, FlattenFacts DEF n
<1>5. ASSUME NEW i \in 1 .. n
      PROVE  Slice(router, i) = parts[i]
  <2> DEFINE k == i - 1
             before == SubSeq(parts, 1, k)
             whole == FlattenSeq(before)
  <2>1. k \in 0 .. n /\ k + 1 = i /\ k \in Nat
    BY <1>1
  <2> HIDE DEF k
  <2>2. IsSeq(before) /\ Len(before) = k /\ \A j \in 1 .. k : before[j] = parts[j]
    BY <2>1, PrefixFacts DEF n
  <2>3. IsStarts(start, len, k) /\ \A j \in 1 .. k : j \in 1 .. n
    BY <1>1, <1>3, <2>1, StartsOfPrefix
  <2>4. Len(whole) = start[i]
    <3> HIDE DEF before
    <3>1. \A j \in 1 .. Len(before) : IsSeq(before[j]) /\ len[j] = Len(before[j])
      BY <1>1, <2>2, <2>3 DEF n
    <3>2. IsStarts(start, len, Len(before))
      BY <2>2, <2>3
    <3>3. IsFlat(FlattenSeq(before), before, start, Len(before))
      BY <2>2, <3>1, <3>2, FlattenFacts
    <3> QED
      BY <2>1, <2>2, <3>3 DEF IsFlat
  <2>5. ranges[i] = [start |-> start[i], len |-> len[i]]
    <3>1. ranges[i] = [start |-> Len(whole), len |-> Len(parts[i])]
      BY <1>1 DEF Ranges, k
    <3> HIDE DEF whole, ranges
    <3> QED
      BY <1>1, <2>4, <3>1
  <2> HIDE DEF ranges, flat
  <2> DEFINE low == start[i] + 1
             high == start[i] + len[i]
             slice == SubSeq(flat, low, high)
             part == parts[i]
             S == {part[j] : j \in DOMAIN part}
  <2>6. Slice(router, i) = slice
    <3>1. router.ranges[i].start = start[i] /\ router.ranges[i].len = len[i]
      BY <2>5 DEF ranges
    <3>2. router.subscribers = flat
      BY DEF flat
    <3> QED
      BY <3>1, <3>2 DEF Slice
  <2>7. IsSeq(part) /\ Len(part) = len[i] /\ DOMAIN part = 1 .. len[i] /\ len[i] \in Nat
    <3>1. IsSeq(part)
      BY DEF n
    <3> QED
      BY <1>1, <3>1, SeqFacts
  <2>8. start[i] \in Nat /\ \A j \in 1 .. len[i] : flat[start[i] + j] = part[j]
    <3>1. start[i] \in Nat
      BY <1>1, <1>3 DEF IsStarts
    <3>2. \A j \in 1 .. Len(parts[i]) : flat[start[i] + j] = parts[i][j]
      BY <1>4 DEF IsFlat
    <3> QED
      BY <2>7, <3>1, <3>2
  <2> HIDE DEF part
  <2>9. low \in Int /\ high \in Int /\ \A j \in low .. high : flat[j] \in S
    <3>1. ASSUME NEW j \in low .. high
          PROVE  flat[j] \in S
      <4>1. j - start[i] \in 1 .. len[i] /\ start[i] + (j - start[i]) = j
        BY <2>7, <2>8
      <4> QED
        BY <2>7, <2>8, <4>1
    <3> QED
      BY <2>7, <2>8, <3>1
  <2>10. /\ (high - low) + 1 = len[i]
         /\ (IF low <= high THEN (high - low) + 1 ELSE 0) = len[i]
         /\ \A j \in 1 .. len[i] : (low + j) - 1 = start[i] + j
    BY <2>7, <2>8
  <2> HIDE DEF low, high, S
  <2>11. /\ SubSeq(flat, low, high) \in Seq(S)
         /\ Len(SubSeq(flat, low, high)) = IF low <= high THEN high - low + 1 ELSE 0
         /\ \A j \in 1 .. high - low + 1 : SubSeq(flat, low, high)[j] = flat[low + j - 1]
    BY <2>9, SubSeqProperties
  <2>12. Len(slice) = len[i] /\ \A j \in 1 .. len[i] : slice[j] = part[j]
    BY <2>8, <2>10, <2>11
  <2>13. part \in Seq(S)
    BY <2>7 DEF IsSeq, S
  <2> HIDE DEF slice
  <2>14. slice \in Seq(S)
    BY <2>11 DEF slice
  <2>15. slice = part
    BY <2>7, <2>12, <2>13, <2>14, SeqEqual
  <2> QED
    BY <2>6, <2>15 DEF part
<1> QED
  BY <1>2, <1>5 DEF n, ranges

(* The derivations of a set, numbered from 0. *)
Called(S, n) == [i \in DOMAIN InOrder(S, n) |-> InOrder(S, n)[i] - 1]

WantKind(routes, symbol, k) ==
  {f \in DOMAIN routes : /\ routes[f].symbol = symbol
                         /\ routes[f].route \in {<<"Kind", EventKinds[k]>>, <<"SymbolAny">>}}

WantBook(routes, symbol) ==
  {f \in DOMAIN routes : routes[f].symbol = symbol /\ routes[f].route = <<"OrderBook">>}

WantAny(routes) == {f \in DOMAIN routes : routes[f].route = <<"Any">>}

GroupsOfSymbol(routes, symbol) ==
  [k \in DOMAIN EventKinds |-> Called(WantKind(routes, symbol, k), Len(routes))]
    \o <<Called(WantBook(routes, symbol), Len(routes))>>

LEMMA SubscriberGroupsAre ==
  ASSUME NEW routes
  PROVE  SubscriberGroups(routes)
           = FlattenSeq([r \in DOMAIN Routers(routes) |-> GroupsOfSymbol(routes, Routers(routes)[r])])
               \o <<Called(WantAny(routes), Len(routes))>>
<1> DEFINE routers == Routers(routes)
           n == Len(routes)
<1>1. Subscribing(routes, LAMBDA p : p.route = <<"Any">>) = Called(WantAny(routes), n)
  BY DEF Subscribing, Called, WantAny
<1>2. ASSUME NEW r \in DOMAIN routers
      PROVE  Subscribing(routes, LAMBDA p : p.symbol = routers[r] /\ p.route = <<"OrderBook">>)
               = Called(WantBook(routes, routers[r]), n)
  BY DEF Subscribing, Called, WantBook
<1>3. ASSUME NEW r \in DOMAIN routers, NEW k \in DOMAIN EventKinds
      PROVE  Subscribing(routes, LAMBDA p :
               /\ p.symbol = routers[r]
               /\ p.route \in {<<"Kind", EventKinds[k]>>, <<"SymbolAny">>})
               = Called(WantKind(routes, routers[r], k), n)
  BY DEF Subscribing, Called, WantKind
<1> QED
  BY <1>1, <1>2, <1>3 DEF SubscriberGroups, GroupsOfSymbol

LEMMA CalledIsSeq ==
  ASSUME NEW S, NEW n \in Nat
  PROVE  IsSeq(Called(S, n)) /\ Len(Called(S, n)) = Len(InOrder(S, n))
<1> DEFINE called == Called(S, n)
           chosen == InOrder(S, n)
           k == Len(InOrder(S, n))
<1>1. k \in Nat /\ DOMAIN chosen = 1 .. k
  BY InOrderFacts, SeqFacts DEF Enumerates
<1>2. called = [i \in 1 .. k |-> called[i]]
  BY <1>1 DEF Called
<1> HIDE DEF called, k
<1> QED
  BY <1>1, <1>2, TableIsSeq DEF called, k

LEMMA LastFacts ==
  ASSUME NEW s, IsSeq(s), NEW x
  PROVE  /\ IsSeq(s \o <<x>>) /\ Len(s \o <<x>>) = Len(s) + 1
         /\ \A i \in 1 .. Len(s) : (s \o <<x>>)[i] = s[i]
         /\ (s \o <<x>>)[Len(s) + 1] = x
<1> DEFINE last == <<x>>
<1>1. last \in Seq({x}) /\ Len(last) = 1 /\ last[1] = x
  OBVIOUS
<1> HIDE DEF last
<1>2. IsSeq(last)
  BY <1>1, SeqOfElements
<1>3. /\ IsSeq(s \o last) /\ Len(s \o last) = Len(s) + Len(last)
      /\ \A i \in 1 .. Len(s) : (s \o last)[i] = s[i]
      /\ \A i \in 1 .. Len(last) : (s \o last)[Len(s) + i] = last[i]
  BY <1>2, ConcatFacts
<1>4. (s \o last)[Len(s) + 1] = x
  BY <1>1, <1>3
<1> QED
  BY <1>1, <1>3, <1>4 DEF last

LEMMA EventKindsAreSeq == Len(EventKinds) \in Nat /\ DOMAIN EventKinds = 1 .. Len(EventKinds)
BY CompilerAssumption

LEMMA GroupsOfSymbolFacts ==
  ASSUME NEW routes, IsSeq(routes), NEW symbol
  PROVE  LET groups == GroupsOfSymbol(routes, symbol)
         IN  /\ IsSeq(groups) /\ Len(groups) = GroupsPerRouter
             /\ \A k \in 1 .. GroupsPerRouter : IsSeq(groups[k])
             /\ \A k \in DOMAIN EventKinds :
                  groups[k] = Called(WantKind(routes, symbol, k), Len(routes))
             /\ groups[GroupsPerRouter] = Called(WantBook(routes, symbol), Len(routes))
<1> DEFINE n == Len(EventKinds)
           kinds == [k \in DOMAIN EventKinds |-> Called(WantKind(routes, symbol, k), Len(routes))]
           book == Called(WantBook(routes, symbol), Len(routes))
           groups == GroupsOfSymbol(routes, symbol)
<1>1. n \in Nat /\ DOMAIN EventKinds = 1 .. n /\ GroupsPerRouter = n + 1 /\ Len(routes) \in Nat
  BY EventKindsAreSeq, SeqFacts DEF GroupsPerRouter
<1>2. \A k \in 1 .. n : kinds[k] = Called(WantKind(routes, symbol, k), Len(routes)) /\ IsSeq(kinds[k])
  BY <1>1, CalledIsSeq
<1>3. groups = kinds \o <<book>> /\ IsSeq(book)
  BY <1>1, CalledIsSeq DEF GroupsOfSymbol
<1>4. IsSeq(kinds) /\ Len(kinds) = n
  <2>1. kinds = [k \in 1 .. n |-> kinds[k]]
    BY <1>1
  <2> HIDE DEF kinds, n
  <2> QED
    BY <1>1, <2>1, TableIsSeq
<1> HIDE DEF kinds, n, book, groups
<1>5. /\ IsSeq(groups) /\ Len(groups) = n + 1
      /\ \A k \in 1 .. n : groups[k] = kinds[k]
      /\ groups[n + 1] = book
  BY <1>3, <1>4, LastFacts
<1>6. \A k \in 1 .. n + 1 : k \in 1 .. n \/ k = n + 1
  BY <1>1
<1> QED
  BY <1>1, <1>2, <1>3, <1>5, <1>6 DEF groups, book

(* The parts of equal length start at its multiples. *)
LEMMA EvenStarts ==
  ASSUME NEW n \in Nat, NEW size \in Nat
  PROVE  IsStarts([r \in 1 .. n + 1 |-> (r - 1) * size], [r \in 1 .. n |-> size], n)
<1> DEFINE start == [r \in 1 .. n + 1 |-> (r - 1) * size]
<1>1. start[1] = 0
  <2>1. 1 \in 1 .. n + 1 /\ (1 - 1) * size = 0
    OBVIOUS
  <2> QED
    BY <2>1
<1>2. \A r \in 1 .. n + 1 : start[r] \in Nat
  <2>1. \A r \in Nat : r * size \in Nat
    OBVIOUS
  <2>2. \A r \in 1 .. n + 1 : r - 1 \in Nat
    OBVIOUS
  <2> QED
    BY <2>1, <2>2
<1>3. \A r \in 1 .. n : start[r + 1] = start[r] + size
  <2> TAKE r \in 1 .. n
  <2> DEFINE k == r - 1
  <2>1. r \in 1 .. n + 1 /\ r + 1 \in 1 .. n + 1 /\ k \in Nat /\ (r + 1) - 1 = k + 1
    OBVIOUS
  <2>2. start[r + 1] = (k + 1) * size /\ start[r] = k * size
    BY <2>1
  <2> HIDE DEF k, start
  <2>3. (k + 1) * size = k * size + size
    BY <2>1
  <2> QED
    BY <2>2, <2>3
<1> HIDE DEF start
<1> QED
  BY <1>1, <1>2, <1>3 DEF IsStarts, start

LEMMA SubscriberGroupsLayout ==
  ASSUME NEW routes, IsSeq(routes)
  PROVE  LET groups == SubscriberGroups(routes)
             routers == Routers(routes)
         IN  /\ IsSeq(groups) /\ Len(groups) = Len(routers) * GroupsPerRouter + 1
             /\ \A i \in 1 .. Len(groups) : IsSeq(groups[i])
             /\ \A r \in 1 .. Len(routers) : \A k \in 1 .. GroupsPerRouter :
                  /\ (r - 1) * GroupsPerRouter + k \in 1 .. Len(groups)
                  /\ groups[(r - 1) * GroupsPerRouter + k] = GroupsOfSymbol(routes, routers[r])[k]
             /\ groups[Len(groups)] = Called(WantAny(routes), Len(routes))
<1> DEFINE n == Len(Routers(routes))
           routers == Routers(routes)
           size == GroupsPerRouter
           parts == [r \in DOMAIN Routers(routes) |-> GroupsOfSymbol(routes, Routers(routes)[r])]
           start == [r \in 1 .. n + 1 |-> (r - 1) * size]
           len == [r \in 1 .. n |-> size]
           flat == FlattenSeq(parts)
           any == Called(WantAny(routes), Len(routes))
           groups == SubscriberGroups(routes)
<1>1. IsSeq(routers) /\ n \in Nat /\ DOMAIN routers = 1 .. n /\ Len(routes) \in Nat
  BY RoutersFacts, SeqFacts DEF RoutersHold
<1>2. groups = flat \o <<any>>
  BY SubscriberGroupsAre
<1>3. size \in Nat
  BY EventKindsAreSeq DEF GroupsPerRouter
<1>4. \A r \in 1 .. n :
        /\ parts[r] = GroupsOfSymbol(routes, routers[r])
        /\ IsSeq(parts[r]) /\ Len(parts[r]) = size /\ \A k \in 1 .. size : IsSeq(parts[r][k])
  BY <1>1, GroupsOfSymbolFacts
<1>5. IsSeq(parts) /\ Len(parts) = n
  <2>1. parts = [r \in 1 .. n |-> parts[r]]
    BY <1>1
  <2> HIDE DEF parts
  <2> QED
    BY <1>1, <2>1, TableIsSeq
<1>6. IsStarts(start, len, n) /\ \A r \in 1 .. n : len[r] = size
  <2> HIDE DEF n, size
  <2> QED
    BY <1>1, <1>3, EvenStarts
<1>7. start[n + 1] = n * size /\ \A r \in 1 .. n : start[r] = (r - 1) * size
  <2> HIDE DEF n, size
  <2>1. n + 1 \in 1 .. n + 1 /\ (n + 1) - 1 = n /\ \A r \in 1 .. n : r \in 1 .. n + 1
    BY <1>1
  <2> QED
    BY <2>1
<1> HIDE DEF n, size, start, len, parts, routers, flat, any, groups
<1>8. IsFlat(flat, parts, start, n)
  <2>1. \A r \in 1 .. Len(parts) : IsSeq(parts[r]) /\ len[r] = Len(parts[r])
    BY <1>4, <1>5, <1>6
  <2> QED
    BY <1>5, <1>6, <2>1, FlattenFacts DEF flat
<1> DEFINE total == n * size
<1>9. IsSeq(flat) /\ Len(flat) = total /\ total \in Nat
  BY <1>1, <1>3, <1>7, <1>8 DEF IsFlat
<1> HIDE DEF total
<1>10. /\ IsSeq(groups) /\ Len(groups) = total + 1 /\ total \in Nat
       /\ \A i \in 1 .. total : groups[i] = flat[i]
       /\ groups[total + 1] = any
  BY <1>2, <1>9, LastFacts
<1>11. ASSUME NEW r \in 1 .. n, NEW k \in 1 .. size
       PROVE  start[r] + k \in 1 .. total /\ groups[start[r] + k] = parts[r][k]
  <2>1. start[r] + k \in 1 .. total
    <3>1. k \in 1 .. len[r]
      BY <1>6
    <3> QED
      BY <1>1, <1>6, <1>7, <3>1, PlaceInWhole DEF total
  <2>2. flat[start[r] + k] = parts[r][k]
    BY <1>4, <1>8 DEF IsFlat
  <2> QED
    BY <1>10, <2>1, <2>2
<1>12. ASSUME NEW i \in 1 .. Len(groups)
       PROVE  IsSeq(groups[i])
  <2>1. CASE i = total + 1
    <3>1. IsSeq(any)
      BY <1>1, CalledIsSeq DEF any
    <3> QED
      BY <1>10, <2>1, <3>1
  <2>2. CASE i # total + 1
    <3>1. i \in 1 .. start[n + 1]
      BY <1>7, <1>10, <2>2 DEF total
    <3>2. PICK r \in 1 .. n : \E k \in 1 .. len[r] : i = start[r] + k
      BY <1>1, <1>6, <3>1, PartsCover
    <3>3. PICK k \in 1 .. size : i = start[r] + k
      BY <1>6, <3>2
    <3> QED
      BY <1>4, <1>11, <3>3
  <2> QED
    BY <2>1, <2>2
<1>13. ASSUME NEW r \in 1 .. n, NEW k \in 1 .. size
       PROVE  /\ (r - 1) * size + k \in 1 .. Len(groups)
              /\ groups[(r - 1) * size + k] = GroupsOfSymbol(routes, routers[r])[k]
  <2>1. start[r] + k \in 1 .. Len(groups)
    BY <1>10, <1>11
  <2> QED
    BY <1>4, <1>7, <1>11, <2>1
<1> QED
  BY <1>10, <1>12, <1>13 DEF groups, routers, n, size, any, total

-----------------------------------------------------------------------------
(* What a key is told of. *)

(* The kinds that read a source of their own. *)
SourceReaders == {"Field", "Volatility"} \cup ReturnKinds \cup CalendarKinds

LEMMA KindsAreApart ==
  ASSUME NEW kind \in Kinds
  PROVE  /\ kind = "Context" \/ kind \in OrderBookKinds \/ kind \in {"Cvd", "Vpt"}
            \/ kind \in TimedKinds \/ kind \in SourceReaders
         /\ kind \in OrderBookKinds =>
              kind \notin {"Cvd", "Vpt", "Context"} \cup TimedKinds \cup SourceReaders
         /\ kind \in {"Cvd", "Vpt"} => kind \notin {"Context"} \cup TimedKinds \cup SourceReaders
         /\ kind \in TimedKinds => kind \notin {"Context"} \cup SourceReaders
         /\ kind \in SourceReaders => kind # "Context"
         /\ kind \in CalendarKinds => kind \in SourceReaders
BY DEF Kinds, SourceReaders, TimedKinds, TimedFieldKinds, TimedTradeKinds, OrderBookKinds,
   QuoteKinds, PriceKinds, RankKinds, SizeKinds, ReturnKinds, SampleKinds, CalendarKinds

LEMMA SourcesAreKept ==
  ASSUME NEW key, IsKey(key), key.kind \in SourceReaders
  PROVE  "source" \in Fields(key.kind) /\ GroupKey(key).args.source = key.args.source
<1> DEFINE kind == key.kind
           p == Parameter(key.kind)
<1>1. "source" \in Fields(kind)
  BY DEF Fields, SourceReaders, TimedKinds, TimedFieldKinds, TimedTradeKinds, OrderBookKinds,
     QuoteKinds, PriceKinds, RankKinds, SizeKinds, ReturnKinds, SampleKinds, CalendarKinds
<1>2. p \in {"n_levels", "lag", "window", None}
  BY DEF Parameter
<1>3. DOMAIN key.args = Fields(kind)
  BY DEF IsKey
<1>4. "source" \in DOMAIN key.args \ {p}
  BY <1>1, <1>2, <1>3 DEF None
<1> HIDE DEF p
<1>5. Restrict(key.args, DOMAIN key.args \ {p})["source"] = key.args["source"]
  BY <1>4 DEF Restrict
<1>6. GroupKey(key).args = Restrict(key.args, DOMAIN key.args \ {p})
  BY DEF GroupKey, IsKey, p
<1> QED
  BY <1>1, <1>5, <1>6

LEMMA RoutesDiffer ==
  /\ \A x, y : <<"Kind", x>> = <<"Kind", y>> => x = y
  /\ \A x : /\ <<"Kind", x>> # <<"Any">> /\ <<"Kind", x>> # <<"SymbolAny">>
            /\ <<"Kind", x>> # <<"OrderBook">>
            /\ <<"Field", x>> # <<"AnyEvent">> /\ <<"Event", x>> # <<"AnyEvent">>
  /\ \A x, y : <<"Field", x>> # <<"Event", y>>
  /\ \A x, y : <<"Field", x>> = <<"Field", y>> => x = y
  /\ \A x, y : <<"Event", x>> = <<"Event", y>> => x = y
  /\ <<"Any">> # <<"SymbolAny">> /\ <<"Any">> # <<"OrderBook">> /\ <<"SymbolAny">> # <<"OrderBook">>
<1>1. \A x : /\ <<"Kind", x>>[1] = "Kind" /\ <<"Kind", x>>[2] = x
             /\ <<"Field", x>>[1] = "Field" /\ <<"Field", x>>[2] = x
             /\ <<"Event", x>>[1] = "Event" /\ <<"Event", x>>[2] = x
  OBVIOUS
<1>2. /\ <<"Any">>[1] = "Any" /\ <<"SymbolAny">>[1] = "SymbolAny"
      /\ <<"OrderBook">>[1] = "OrderBook" /\ <<"AnyEvent">>[1] = "AnyEvent"
  OBVIOUS
<1>3. /\ "Any" # "SymbolAny" /\ "Any" # "OrderBook" /\ "SymbolAny" # "OrderBook"
      /\ "Kind" # "Any" /\ "Kind" # "SymbolAny" /\ "Kind" # "OrderBook"
      /\ "Field" # "AnyEvent" /\ "Event" # "AnyEvent" /\ "Field" # "Event"
  OBVIOUS
<1> QED
  BY <1>1, <1>2, <1>3

(* The route of a group is what its definitions hear. *)
LEMMA RoutesTell ==
  ASSUME NEW key, IsKey(key), HasSource(key), key.kind # "Context"
  PROVE  LET group == GroupKey(key)
             route == Route(group, IsGlobal(group))
         IN  /\ \A event \in ToSet(EventKinds) :
                  route \in {<<"Kind", event>>, <<"SymbolAny">>} <=> event \in HearsEvents(key)
             /\ route = <<"OrderBook">> <=> key.kind \in OrderBookKinds
             /\ route = <<"Any">> <=> HearsAny(key)
<1> DEFINE group == GroupKey(key)
           kind == key.kind
           source == key.args.source
           global == IsGlobal(GroupKey(key))
           route == Route(group, global)
<1>1. /\ group.kind = kind /\ group.symbol = key.symbol /\ kind \in Kinds
      /\ global <=> key.symbol = GLOBAL
  BY GroupKeyFacts DEF IsGlobal, IsKey
<1>2. CASE kind \in OrderBookKinds
  <2>1. kind \notin {"Cvd", "Vpt", "Context"} \cup TimedKinds \cup SourceReaders
        /\ kind \notin CalendarKinds
    BY <1>1, <1>2, KindsAreApart
  <2>2. route = <<"OrderBook">>
    BY <1>1, <1>2, <2>1 DEF Route
  <2>3. HearsEvents(key) = {}
    BY <1>2, <2>1 DEF HearsEvents
  <2> HIDE DEF route
  <2> QED
    BY <1>2, <2>1, <2>2, <2>3, RoutesDiffer DEF HearsAny, route
<1>3. CASE kind \in {"Cvd", "Vpt"}
  <2>1. kind \notin {"Context"} \cup OrderBookKinds \cup TimedKinds \cup SourceReaders
        /\ kind \notin CalendarKinds
    BY <1>1, <1>3, KindsAreApart
  <2>2. route = <<"Kind", "Trade">>
    BY <1>1, <1>3, <2>1 DEF Route
  <2>3. HearsEvents(key) = {"Trade"}
    BY <1>3, <2>1 DEF HearsEvents
  <2> HIDE DEF route
  <2> QED
    BY <2>1, <2>2, <2>3, RoutesDiffer DEF HearsAny, route
<1>4. CASE kind \in TimedKinds
  <2>1. kind \notin {"Cvd", "Vpt", "Context"} \cup OrderBookKinds \cup SourceReaders
        /\ kind \notin CalendarKinds
    BY <1>1, <1>4, KindsAreApart
  <2>2. route = <<"SymbolAny">>
    BY <1>1, <1>4, <2>1 DEF Route
  <2>3. HearsEvents(key) = ToSet(EventKinds)
    BY <1>4, <2>1 DEF HearsEvents
  <2> HIDE DEF route
  <2> QED
    BY <2>1, <2>2, <2>3, RoutesDiffer DEF HearsAny, route
<1>5. CASE kind \in SourceReaders
  <2> DEFINE FieldNames == {"Price", "Volume", "TradePrice", "TradeVolume"}
  <2>1. kind \notin {"Cvd", "Vpt", "Context"} \cup OrderBookKinds \cup TimedKinds
    BY <1>1, <1>5, KindsAreApart
  <2>2. group.args.source = source /\ source \in SourcesOf(kind, ToSet(EventKinds))
    BY <1>5, SourcesAreKept DEF HasSource
  <2>3. route = RouteForSource(source, global)
    BY <1>1, <2>1, <2>2 DEF Route
  <2>4. HearsEvents(key)
          = {event \in ToSet(EventKinds) :
               \/ source = <<"AnyEvent">> /\ key.symbol # GLOBAL
               \/ source = <<"Event", event>>
               \/ \E field \in FieldNames : source = <<"Field", field>> /\ EventKindOf(field) = event}
    BY <2>1 DEF HearsEvents
  <2>5. HearsAny(key) <=> kind \in CalendarKinds /\ source = <<"AnyEvent">> /\ key.symbol = GLOBAL
    BY DEF HearsAny
  <2> HIDE DEF route, group, source, global
  <2>6. CASE \E field \in FieldNames : source = <<"Field", field>>
    <3>1. PICK field \in FieldNames : source = <<"Field", field>>
      BY <2>6
    <3>2. source[1] = "Field" /\ source[2] = field
      BY <3>1
    <3>3. route = <<"Kind", EventKindOf(field)>>
      BY <2>3, <3>2 DEF RouteForSource
    <3>4. HearsEvents(key) = {event \in ToSet(EventKinds) : EventKindOf(field) = event}
      BY <2>4, <3>1, RoutesDiffer
    <3>5. ~ HearsAny(key)
      BY <2>5, <3>1, RoutesDiffer
    <3> QED
      BY <2>1, <3>3, <3>4, <3>5, RoutesDiffer DEF route, group, global
  <2>7. CASE kind \in CalendarKinds /\ \E event \in ToSet(EventKinds) : source = <<"Event", event>>
    <3>1. PICK heard \in ToSet(EventKinds) : source = <<"Event", heard>>
      BY <2>7
    <3>2. source[1] = "Event" /\ source[2] = heard
      BY <3>1
    <3>3. route = <<"Kind", heard>>
      BY <2>3, <3>2 DEF RouteForSource
    <3>4. HearsEvents(key) = {event \in ToSet(EventKinds) : heard = event}
      BY <2>4, <3>1, RoutesDiffer
    <3>5. ~ HearsAny(key)
      BY <2>5, <3>1, RoutesDiffer
    <3> QED
      BY <2>1, <3>3, <3>4, <3>5, RoutesDiffer DEF route, group, global
  <2>8. CASE kind \in CalendarKinds /\ source = <<"AnyEvent">>
    <3>1. source[1] = "AnyEvent"
      BY <2>8
    <3>2. route = IF global THEN <<"Any">> ELSE <<"SymbolAny">>
      BY <2>3, <3>1 DEF RouteForSource
    <3>3. HearsEvents(key) = {event \in ToSet(EventKinds) : key.symbol # GLOBAL}
      BY <2>4, <2>8, RoutesDiffer
    <3>4. HearsAny(key) <=> key.symbol = GLOBAL
      BY <2>5, <2>8
    <3> QED
      BY <1>1, <2>1, <3>2, <3>3, <3>4, RoutesDiffer DEF route, group, global
  <2> QED
    BY <2>2, <2>6, <2>7, <2>8 DEF SourcesOf
<1> QED
  BY <1>1, <1>2, <1>3, <1>4, <1>5, KindsAreApart

(* The derivations that are called reach the definitions that are wanted,   *)
(* if of a group either all definitions are wanted or none.                 *)
LEMMA ReachedAreWanted ==
  ASSUME NEW groups, GroupsHold(groups, Len(definitions)), NEW start, Layout(groups, start),
         LooksUp(groups, start), DefinitionsAre,
         NEW F, NEW W \in SUBSET (1 .. Len(definitions)),
         \A f \in 1 .. Len(Derived(groups)) : \A j \in 1 .. Len(definitions) :
           GroupKey(definitions[j].key) = groups[Derived(groups)[f]].key => (f \in F <=> j \in W),
         \A j \in W : definitions[j].key.kind # "Context",
         NEW called, called = Called(F, Len(Derived(groups)))
  PROVE  CalledInOrder(called) /\ Reached(called) = {definitions[j].id : j \in W}
<1> DEFINE derived == Derived(groups)
           size == Len(derived)
           chosen == InOrder(F, size)
           count == Len(chosen)
           last == Len(definitions)
<1>1. /\ Enumerates(derived, {g \in 1 .. Len(groups) : ~ IsContext(groups[g])}, Len(groups))
      /\ IsSeq(derived) /\ size \in Nat
      /\ DOMAIN extractor.features = 1 .. size
      /\ \A f \in 1 .. size : derived[f] \in 1 .. Len(groups)
  BY SeqFacts DEF LooksUp, Enumerates
<1>2. Enumerates(chosen, F, size) /\ count \in Nat /\ DOMAIN chosen = 1 .. count
  BY <1>1, InOrderFacts, SeqFacts DEF Enumerates
<1>3. /\ DOMAIN called = 1 .. count /\ Len(called) = count
      /\ \A i \in 1 .. count : called[i] = chosen[i] - 1
  <2>1. DOMAIN called = 1 .. count /\ \A i \in 1 .. count : called[i] = chosen[i] - 1
    BY <1>2 DEF Called
  <2>2. Len(called) = count
    BY <1>1, CalledIsSeq
  <2> QED
    BY <2>1, <2>2
<1> HIDE DEF derived, size, chosen, count
<1>4. /\ \A i \in 1 .. count : chosen[i] \in F /\ chosen[i] \in 1 .. size
      /\ \A i, j \in 1 .. count : i < j => chosen[i] < chosen[j]
      /\ \A f \in 1 .. size : f \in F => \E i \in 1 .. count : chosen[i] = f
  BY <1>2 DEF Enumerates, count
<1>5. CalledInOrder(called)
  <2>1. ASSUME NEW i \in 2 .. count
        PROVE  called[i - 1] < called[i]
    <3>1. i - 1 \in 1 .. count /\ i \in 1 .. count /\ i - 1 < i
      BY <1>2
    <3>2. chosen[i - 1] < chosen[i] /\ chosen[i - 1] \in Int /\ chosen[i] \in Int
      BY <1>1, <1>4, <3>1
    <3> QED
      BY <1>3, <3>1, <3>2
  <2> QED
    BY <1>3, <2>1 DEF CalledInOrder
<1>6. ASSUME NEW f \in 1 .. size, NEW c \in CellsOfFeature(f)
      PROVE  \E m \in 1 .. Len(groups[derived[f]].ids) : c = start[derived[f]] + m
  <2> DEFINE g == derived[f]
             len == Len(groups[g].ids)
  <2>1. extractor.features[f].range = [start |-> start[g], count |-> len]
    <3>1. extractor.features[f]
            = [key |-> groups[g].key, parameters |-> groups[g].outputs,
               range |-> [start |-> start[g], count |-> len]]
      BY DEF LooksUp, derived, size
    <3> HIDE DEF len, g
    <3> QED
      BY <3>1
  <2>2. len \in Nat /\ start[g] \in Nat
    <3>1. g \in 1 .. Len(groups)
      BY <1>1
    <3>2. len \in Nat
      BY <3>1, SeqFacts DEF GroupsHold, IsGroup
    <3>3. Len(groups) \in Nat
      BY SeqFacts DEF GroupsHold
    <3>4. g \in 1 .. Len(groups) + 1
      BY <3>1, <3>3
    <3>5. start[g] \in Nat
      BY <3>4 DEF Layout, IsStarts
    <3> QED
      BY <3>2, <3>5
  <2> HIDE DEF g, len
  <2>3. c \in start[g] + 1 .. start[g] + len
    BY <2>1 DEF CellsOfFeature
  <2>4. c - start[g] \in 1 .. len /\ c = start[g] + (c - start[g])
    BY <2>2, <2>3
  <2> QED
    BY <2>4 DEF g, len
<1>7. ASSUME NEW i \in 1 .. count, NEW c \in CellsOfFeature(called[i] + 1)
      PROVE  \E j \in W : extractor.ids[c] = definitions[j].id
  <2> DEFINE f == chosen[i]
             g == derived[f]
  <2>1. f \in 1 .. size /\ f \in F /\ called[i] + 1 = f /\ g \in 1 .. Len(groups)
    BY <1>1, <1>3, <1>4
  <2> HIDE DEF f
  <2>2. PICK m \in 1 .. Len(groups[g].ids) : c = start[g] + m
    BY <1>6, <2>1
  <2> HIDE DEF g
  <2>3. extractor.ids[c] = groups[g].ids[m]
    BY <2>1, <2>2 DEF LooksUp
  <2>4. PICK j \in 1 .. last : Places(groups[g], m, j)
    BY <2>1, <2>2 DEF GroupsHold
  <2>5. j \in W
    BY <2>1, <2>4 DEF Places, g, derived, size
  <2> QED
    BY <2>3, <2>4, <2>5 DEF Places
<1>8. ASSUME NEW j \in W
      PROVE  \E i \in 1 .. count : \E c \in CellsOfFeature(called[i] + 1) :
               extractor.ids[c] = definitions[j].id
  <2>1. PICK g \in 1 .. Len(groups) : \E m : Places(groups[g], m, j)
    BY DEF GroupsHold
  <2>2. PICK m : Places(groups[g], m, j)
    BY <2>1
  <2>3. m \in 1 .. Len(groups[g].ids) /\ GroupKey(definitions[j].key) = groups[g].key
        /\ groups[g].ids[m] = definitions[j].id
    BY <2>2 DEF Places
  <2>4. ~ IsContext(groups[g])
    <3>1. IsKey(definitions[j].key)
      BY DEF DefinitionsAre, DefinitionIs
    <3> QED
      BY <2>3, <3>1, GroupKeyFacts DEF IsContext
  <2>5. PICK f \in 1 .. size : derived[f] = g
    BY <1>1, <2>4 DEF Enumerates, size
  <2>6. f \in F
    BY <2>3, <2>5 DEF derived, size
  <2>7. PICK i \in 1 .. count : chosen[i] = f
    BY <1>4, <2>6
  <2>8. called[i] + 1 = f
    BY <1>3, <2>7
  <2>9. start[g] + m \in CellsOfFeature(f)
    <3>1. m \in 1 .. Len(groups[g].ids)
      BY <2>3
    <3>2. \A e \in DOMAIN extractor.features :
            start[g] + m \in CellsOfFeature(e) <=> Derived(groups)[e] = g
      BY <3>1, OwnersOfCell
    <3> QED
      BY <1>1, <2>5, <3>2 DEF derived
  <2>10. extractor.ids[start[g] + m] = definitions[j].id
    BY <2>3 DEF LooksUp
  <2> QED
    BY <2>8, <2>9, <2>10
<1>9. Reached(called) = {definitions[j].id : j \in W}
  <2> HIDE DEF last
  <2>1. ASSUME NEW id
        PROVE  id \in Reached(called)
                 <=> \E i \in 1 .. count : \E c \in CellsOfFeature(called[i] + 1) :
                       id = extractor.ids[c]
    <3>1. DOMAIN called = 1 .. count
      BY <1>3
    <3> HIDE DEF count
    <3> QED
      BY <3>1, SMT DEF Reached
  <2>2. ASSUME NEW id \in Reached(called)
        PROVE  id \in {definitions[j].id : j \in W}
    <3>1. PICK i \in 1 .. count : \E c \in CellsOfFeature(called[i] + 1) : id = extractor.ids[c]
      BY <2>1
    <3>2. PICK c \in CellsOfFeature(called[i] + 1) : id = extractor.ids[c]
      BY <3>1
    <3>3. PICK j \in W : extractor.ids[c] = definitions[j].id
      BY <1>7
    <3> QED
      BY <3>2, <3>3
  <2>3. ASSUME NEW j \in W
        PROVE  definitions[j].id \in Reached(called)
    BY <2>1, <1>8, Zenon
  <2> QED
    BY <2>2, <2>3, Zenon
<1> QED
  BY <1>5, <1>9

LEMMA NobodyIsCalled ==
  ASSUME NEW n \in Nat, NEW S, S \cap (1 .. n) = {}
  PROVE  Called(S, n) = <<>>
<1> DEFINE called == Called(S, n)
           chosen == InOrder(S, n)
<1>1. Enumerates(chosen, S, n) /\ IsSeq(called) /\ Len(called) = Len(chosen)
  BY InOrderFacts, CalledIsSeq
<1> HIDE DEF called, chosen
<1>2. Len(chosen) \in Nat /\ \A i \in 1 .. Len(chosen) : chosen[i] \in S \cap (1 .. n)
  BY <1>1, SeqFacts DEF Enumerates
<1>3. Len(called) = 0
  BY <1>1, <1>2
<1>4. called = <<>>
  BY <1>1, <1>3, EmptySeq DEF IsSeq
<1> QED
  BY <1>4 DEF called

(* What the tables give for a symbol, and for any event. *)
LEMMA RouteIsGroup ==
  ASSUME NEW features, IsSeq(RoutesOf(features)),
         RangesFit(Ranges(SubscriberGroups(RoutesOf(features)))),
         \A f \in 1 .. Len(RoutesOf(features)) : RoutesOf(features)[f].symbol \in Nat
  PROVE  LET routes == RoutesOf(features)
         IN  /\ \A symbol \in Nat : \A k \in 1 .. GroupsPerRouter :
                  RouteOf(RouterOf(features), symbol, k) = GroupsOfSymbol(routes, symbol)[k]
             /\ AnyOf(RouterOf(features)) = Called(WantAny(routes), Len(routes))
<1> DEFINE routes == RoutesOf(features)
           router == RouterOf(features)
           parts == SubscriberGroups(routes)
           routers == Routers(routes)
           table == SymbolToIndex(routes)
           size == GroupsPerRouter
<1>1. router.ranges = Stored(Ranges(parts)) /\ router.subscribers = FlattenSeq(parts)
      /\ router.symbolToIndex = table
  BY DEF RouterOf
<1>2. /\ IsSeq(routes) /\ Len(routes) \in Nat /\ DOMAIN routes = 1 .. Len(routes)
      /\ \A f \in 1 .. Len(routes) : routes[f].symbol \in Nat
  BY SeqFacts
<1> HIDE DEF routes, router
<1>3. /\ IsSeq(parts) /\ Len(parts) = Len(routers) * size + 1
      /\ \A i \in 1 .. Len(parts) : IsSeq(parts[i])
      /\ \A r \in 1 .. Len(routers) : \A k \in 1 .. size :
           /\ (r - 1) * size + k \in 1 .. Len(parts)
           /\ parts[(r - 1) * size + k] = GroupsOfSymbol(routes, routers[r])[k]
      /\ parts[Len(parts)] = Called(WantAny(routes), Len(routes))
  BY <1>2, SubscriberGroupsLayout
<1>8. RangesFit(Ranges(parts))
  BY DEF routes
<1> HIDE DEF parts
<1>4. Len(router.ranges) = Len(parts) /\ \A i \in 1 .. Len(parts) : Slice(router, i) = parts[i]
  <2>1. router.ranges = Ranges(parts)
    BY <1>1, <1>3, <1>8, FittingAreStored
  <2> QED
    BY <1>1, <1>3, <2>1, SliceIsPart
<1>5. size \in Nat /\ Len(routers) \in Nat /\ RoutersHold(routers, routes, Len(routes))
      /\ size = Len(EventKinds) + 1 /\ DOMAIN EventKinds = 1 .. Len(EventKinds)
  <2>1. RoutersHold(routers, routes, Len(routes))
    BY <1>2, RoutersFacts
  <2>2. Len(routers) \in Nat
    BY <2>1, SeqFacts DEF RoutersHold
  <2> QED
    BY <2>1, <2>2, EventKindsAreSeq DEF GroupsPerRouter
<1>6. AnyOf(router) = Called(WantAny(routes), Len(routes))
  <2>1. Len(parts) \in 1 .. Len(parts)
    <3>1. Len(routers) * size \in Nat
      BY <1>5
    <3> DEFINE total == Len(routers) * size
    <3> HIDE DEF total
    <3>2. total \in Nat /\ Len(parts) = total + 1
      BY <1>3, <3>1 DEF total
    <3> QED
      BY <3>2
  <2> QED
    BY <1>3, <1>4, <2>1 DEF AnyOf
<1>7. ASSUME NEW symbol \in Nat, NEW k \in 1 .. size
      PROVE  RouteOf(router, symbol, k) = GroupsOfSymbol(routes, symbol)[k]
  <2>1. /\ \A r \in 1 .. Len(routers) :
             routers[r] = symbol => symbol \in DOMAIN table /\ table[symbol] = r - 1
        /\ (\A r \in 1 .. Len(routers) : routers[r] # symbol)
             => symbol \notin DOMAIN table \/ table[symbol] = -1
    BY <1>2, SymbolsAreLookedUp
  <2> HIDE DEF table
  <2>2. CASE \E r \in 1 .. Len(routers) : routers[r] = symbol
    <3>1. PICK r \in 1 .. Len(routers) : routers[r] = symbol
      BY <2>2
    <3>2. symbol \in DOMAIN table /\ table[symbol] = r - 1 /\ r - 1 # -1
      BY <1>5, <2>1, <3>1
    <3>3. RouteOf(router, symbol, k) = Slice(router, (r - 1) * size + k)
      BY <1>1, <3>2 DEF RouteOf
    <3> QED
      BY <1>3, <1>4, <3>1, <3>3
  <2>3. CASE \A r \in 1 .. Len(routers) : routers[r] # symbol
    <3>1. RouteOf(router, symbol, k) = <<>>
      BY <1>1, <2>1, <2>3 DEF RouteOf
    <3>2. \A f \in 1 .. Len(routes) : routes[f].symbol = symbol => routes[f].route = <<"Any">>
      BY <1>5, <2>3 DEF RoutersHold
    <3>3. CASE k \in DOMAIN EventKinds
      <4>1. WantKind(routes, symbol, k) = {}
        BY <1>2, <3>2, RoutesDiffer DEF WantKind
      <4>2. Called(WantKind(routes, symbol, k), Len(routes)) = <<>>
        BY <1>2, <4>1, NobodyIsCalled
      <4> QED
        BY <1>2, <3>1, <3>3, <4>2, GroupsOfSymbolFacts
    <3>4. CASE k = size
      <4>1. WantBook(routes, symbol) = {}
        BY <1>2, <3>2, RoutesDiffer DEF WantBook
      <4>2. Called(WantBook(routes, symbol), Len(routes)) = <<>>
        BY <1>2, <4>1, NobodyIsCalled
      <4> QED
        BY <1>2, <3>1, <3>4, <4>2, GroupsOfSymbolFacts
    <3>5. k \in DOMAIN EventKinds \/ k = size
      BY <1>5
    <3> QED
      BY <3>3, <3>4, <3>5
  <2> QED
    BY <2>2, <2>3
<1> QED
  BY <1>6, <1>7 DEF routes, router

(* The routes of the derivations. *)
LEMMA RoutesAre ==
  ASSUME DefinitionsAre, NEW groups, GroupsHold(groups, Len(definitions)),
         NEW start, LooksUp(groups, start), IsSeq(names)
  PROVE  LET routes == RoutesOf(extractor.features)
             size   == Len(Derived(groups))
         IN  /\ size \in Nat /\ IsSeq(routes) /\ Len(routes) = size
             /\ \A f \in 1 .. size : routes[f].symbol \in Nat
             /\ \A f \in 1 .. size : \A j \in 1 .. Len(definitions) :
                  LET group == GroupKey(definitions[j].key)
                  IN  group = groups[Derived(groups)[f]].key =>
                        /\ routes[f].symbol = definitions[j].key.symbol
                        /\ routes[f].route = Route(group, IsGlobal(group))
                        /\ definitions[j].key.kind # "Context"
<1> DEFINE derived == Derived(groups)
           size == Len(Derived(groups))
           features == extractor.features
           routes == RoutesOf(extractor.features)
<1>1. /\ Enumerates(derived, {g \in 1 .. Len(groups) : ~ IsContext(groups[g])}, Len(groups))
      /\ size \in Nat /\ DOMAIN features = 1 .. size
  BY SeqFacts DEF LooksUp, Enumerates
<1>2. \A f \in 1 .. size : derived[f] \in 1 .. Len(groups) /\ ~ IsContext(groups[derived[f]])
  BY <1>1 DEF Enumerates
<1>3. ASSUME NEW f \in 1 .. size
      PROVE  features[f].key = groups[derived[f]].key
  <2>1. features[f]
          = [key |-> groups[derived[f]].key, parameters |-> groups[derived[f]].outputs,
             range |-> [start |-> start[derived[f]], count |-> Len(groups[derived[f]].ids)]]
    BY DEF LooksUp
  <2> HIDE DEF features, derived
  <2> QED
    BY <2>1
<1>4. routes = [f \in 1 .. size |->
                  [symbol |-> features[f].key.symbol,
                   route  |-> Route(features[f].key, IsGlobal(features[f].key))]]
  BY <1>1 DEF RoutesOf
<1> HIDE DEF derived, size, features, routes
<1>5. IsSeq(routes) /\ Len(routes) = size
  <2>1. routes = [f \in 1 .. size |-> routes[f]]
    BY <1>4
  <2> QED
    BY <1>1, <2>1, TableIsSeq
<1>6. ASSUME NEW f \in 1 .. size, NEW j \in 1 .. Len(definitions),
             GroupKey(definitions[j].key) = groups[derived[f]].key
      PROVE  LET group == GroupKey(definitions[j].key)
             IN  /\ routes[f].symbol = definitions[j].key.symbol
                 /\ routes[f].route = Route(group, IsGlobal(group))
                 /\ definitions[j].key.kind # "Context"
  <2> DEFINE group == GroupKey(definitions[j].key)
             key == definitions[j].key
  <2>1. group.kind = key.kind /\ group.symbol = key.symbol
    BY GroupKeyFacts DEF DefinitionsAre, DefinitionIs
  <2>2. features[f].key = group
    BY <1>3, <1>6
  <2>3. group.kind # "Context"
    BY <1>2, <1>6 DEF IsContext
  <2> HIDE DEF group
  <2>4. routes[f].symbol = group.symbol /\ routes[f].route = Route(group, IsGlobal(group))
    BY <1>4, <2>2
  <2> QED
    BY <2>1, <2>3, <2>4 DEF group
<1>7. ASSUME NEW f \in 1 .. size
      PROVE  routes[f].symbol \in Nat
  <2> DEFINE g == derived[f]
  <2>1. g \in 1 .. Len(groups)
    BY <1>2
  <2>2. 1 \in 1 .. Len(groups[g].ids)
    <3>1. Len(groups[g].ids) \in 1 .. MaxOutputs /\ MaxOutputs \in Nat
      BY <2>1, CompilerAssumption DEF GroupsHold, IsGroup
    <3> QED
      BY <3>1
  <2>3. PICK j \in 1 .. Len(definitions) : Places(groups[g], 1, j)
    BY <2>1, <2>2 DEF GroupsHold
  <2>4. routes[f].symbol = definitions[j].key.symbol
    BY <1>6, <2>3 DEF Places
  <2>5. definitions[j].key.symbol + 1 \in 1 .. Len(names) /\ definitions[j].key.symbol \in Int
    BY SeqFacts DEF DefinitionsAre, DefinitionIs
  <2> QED
    BY <2>4, <2>5
<1> QED
  BY <1>1, <1>5, <1>6, <1>7 DEF derived, size, routes

(* A known name has a symbol, which definitions share that spell it alike.  *)
LEMMA SymbolOfName ==
  ASSUME NamesAre, DefinitionsAre, NEW name, Known(name)
  PROVE  /\ SymbolIn(names, name) \in Nat
         /\ \A j \in 1 .. Len(definitions) :
              Canonical[definitions[j].name] = Canonical[name]
                <=> definitions[j].key.symbol = SymbolIn(names, name)
<1> DEFINE at == CHOOSE i \in DOMAIN names : names[i] = Canonical[name]
           symbol == SymbolIn(names, name)
<1>1. Len(names) \in Nat /\ DOMAIN names = 1 .. Len(names)
  BY SeqFacts DEF NamesAre
<1>2. \E i \in DOMAIN names : names[i] = Canonical[name]
  BY DEF Known, ToSet
<1>3. at \in DOMAIN names /\ names[at] = Canonical[name]
  BY <1>2
<1>4. symbol = at - 1
  BY DEF SymbolIn
<1> HIDE DEF at, symbol
<1>5. symbol \in Nat /\ symbol + 1 = at
  BY <1>1, <1>3, <1>4
<1>6. ASSUME NEW j \in 1 .. Len(definitions)
      PROVE  Canonical[definitions[j].name] = Canonical[name] <=> definitions[j].key.symbol = symbol
  <2> DEFINE other == definitions[j].key.symbol
  <2>1. /\ other + 1 \in DOMAIN names /\ other \in Int
        /\ names[other + 1] = Canonical[definitions[j].name]
    BY DEF DefinitionsAre, DefinitionIs
  <2> HIDE DEF other
  <2>2. names[other + 1] = names[at] <=> other + 1 = at
    BY <1>3, <2>1 DEF NamesAre
  <2>3. other + 1 = at <=> other = symbol
    BY <1>5, <2>1
  <2> QED
    BY <1>3, <2>1, <2>2, <2>3 DEF other
<1> QED
  BY <1>5, <1>6 DEF symbol

LEMMA CompilerReaches == CompilerInvariant => EventsReachTheirDefinitions
<1> SUFFICES ASSUME CompilerInvariant, IsBuilt
             PROVE  /\ \A name \in {n \in Names : Known(n)} :
                         LET symbol == SymbolIn(names, name)
                             Same(definition) == Canonical[definition.name] = Canonical[name]
                         IN  /\ \A k \in DOMAIN EventKinds :
                                  Reaches(RouteOf(extractor.router, symbol, k),
                                          LAMBDA d : Same(d) /\ EventKinds[k] \in HearsEvents(d.key))
                             /\ Reaches(RouteOf(extractor.router, symbol, GroupsPerRouter),
                                        LAMBDA d : Same(d) /\ d.key.kind \in OrderBookKinds)
                    /\ Reaches(AnyOf(extractor.router), LAMBDA d : HearsAny(d.key))
  BY DEF EventsReachTheirDefinitions
<1> DEFINE last == Len(definitions)
           groups == Grouped.groups
           routes == RoutesOf(extractor.features)
           size == Len(Derived(Grouped.groups))
<1>1. GroupsHold(groups, last) /\ extractor = Compiled(groups)
      /\ RangesFit(Ranges(SubscriberGroups(RoutesOf(Features(groups)))))
  BY BuiltOfGroups
<1>2. NamesAre /\ DefinitionsAre /\ IsSeq(names) /\ DOMAIN definitions = 1 .. last
  BY SeqFacts DEF CompilerInvariant, DefinitionsAre, NamesAre
<1> HIDE DEF groups
<1>3. PICK start : Layout(groups, start)
  BY <1>1, LayoutExists
<1>4. LooksUp(groups, start)
  BY <1>1, <1>3, CompiledLooksUp
<1>5. /\ size \in Nat /\ IsSeq(routes) /\ Len(routes) = size /\ DOMAIN routes = 1 .. size
      /\ \A f \in 1 .. size : routes[f].symbol \in Nat
      /\ \A f \in 1 .. size : \A j \in 1 .. last :
           LET group == GroupKey(definitions[j].key)
           IN  group = groups[Derived(groups)[f]].key =>
                 /\ routes[f].symbol = definitions[j].key.symbol
                 /\ routes[f].route = Route(group, IsGlobal(group))
                 /\ definitions[j].key.kind # "Context"
  BY <1>1, <1>2, <1>4, RoutesAre, SeqFacts DEF groups
<1>6. extractor.router = RouterOf(extractor.features)
      /\ RangesFit(Ranges(SubscriberGroups(routes)))
  <2>1. extractor.features = Features(groups)
    BY <1>1 DEF Compiled
  <2> QED
    BY <1>1, <1>4, <2>1 DEF LooksUp
<1> HIDE DEF routes
<1>7. /\ \A symbol \in Nat : \A k \in 1 .. GroupsPerRouter :
           RouteOf(extractor.router, symbol, k) = GroupsOfSymbol(routes, symbol)[k]
      /\ AnyOf(extractor.router) = Called(WantAny(routes), size)
  BY <1>5, <1>6, RouteIsGroup DEF routes
<1>8. \A j \in 1 .. last : IsKey(definitions[j].key) /\ HasSource(definitions[j].key)
  BY <1>2 DEF DefinitionsAre, DefinitionIs
<1>9. \A key : key.kind = "Context" =>
        HearsEvents(key) = {} /\ ~ HearsAny(key) /\ key.kind \notin OrderBookKinds
  <2>1. "Context" \in Kinds
    BY DEF Kinds
  <2>2. "Context" \notin OrderBookKinds \cup TimedKinds \cup SourceReaders \cup {"Cvd", "Vpt"}
        /\ "Context" \notin CalendarKinds
    BY <2>1, KindsAreApart
  <2> QED
    BY <2>2 DEF HearsEvents, HearsAny
<1>10. ASSUME NEW F, NEW W \in SUBSET (1 .. last),
              \A f \in 1 .. size : \A j \in 1 .. last :
                GroupKey(definitions[j].key) = groups[Derived(groups)[f]].key
                  => (f \in F <=> j \in W),
              \A j \in W : definitions[j].key.kind # "Context",
              NEW called, called = Called(F, size)
       PROVE  CalledInOrder(called) /\ Reached(called) = {definitions[j].id : j \in W}
  BY <1>1, <1>2, <1>3, <1>4, <1>10, ReachedAreWanted DEF groups
<1>11. ASSUME NEW name \in Names, Known(name), NEW k \in DOMAIN EventKinds
       PROVE  Reaches(RouteOf(extractor.router, SymbolIn(names, name), k),
                      LAMBDA d : /\ Canonical[d.name] = Canonical[name]
                                 /\ EventKinds[k] \in HearsEvents(d.key))
  <2> DEFINE symbol == SymbolIn(names, name)
             F == WantKind(routes, symbol, k)
             W == {j \in DOMAIN definitions : /\ Canonical[definitions[j].name] = Canonical[name]
                                              /\ EventKinds[k] \in HearsEvents(definitions[j].key)}
             called == RouteOf(extractor.router, symbol, k)
  <2>1. /\ symbol \in Nat
        /\ \A j \in 1 .. last : Canonical[definitions[j].name] = Canonical[name]
                                  <=> definitions[j].key.symbol = symbol
    BY <1>2, <1>11, SymbolOfName
  <2>2. k \in 1 .. GroupsPerRouter /\ EventKinds[k] \in ToSet(EventKinds)
    BY EventKindsAreSeq DEF GroupsPerRouter, ToSet
  <2> HIDE DEF symbol
  <2>3. called = Called(F, size)
    BY <1>5, <1>7, <2>1, <2>2, GroupsOfSymbolFacts
  <2>4. ASSUME NEW f \in 1 .. size, NEW j \in 1 .. last,
               GroupKey(definitions[j].key) = groups[Derived(groups)[f]].key
        PROVE  f \in F <=> j \in W
    <3> DEFINE key == definitions[j].key
               group == GroupKey(key)
    <3>1. /\ routes[f].symbol = key.symbol /\ routes[f].route = Route(group, IsGlobal(group))
          /\ key.kind # "Context" /\ IsKey(key) /\ HasSource(key)
      BY <1>5, <1>8, <2>4
    <3> HIDE DEF key
    <3>2. Route(group, IsGlobal(group)) \in {<<"Kind", EventKinds[k]>>, <<"SymbolAny">>}
            <=> EventKinds[k] \in HearsEvents(key)
      BY <2>2, <3>1, RoutesTell
    <3> HIDE DEF group
    <3>3. f \in F <=> key.symbol = symbol /\ EventKinds[k] \in HearsEvents(key)
      BY <1>5, <3>1, <3>2 DEF WantKind
    <3>4. j \in W <=> key.symbol = symbol /\ EventKinds[k] \in HearsEvents(key)
      BY <1>2, <2>1 DEF key
    <3> QED
      BY <3>3, <3>4
  <2>5. W \in SUBSET (1 .. last) /\ \A j \in W : definitions[j].key.kind # "Context"
    BY <1>2, <1>9
  <2> HIDE DEF F, W, called
  <2>6. CalledInOrder(called) /\ Reached(called) = {definitions[j].id : j \in W}
    BY <1>10, <2>3, <2>4, <2>5
  <2> QED
    BY <2>6 DEF Reaches, called, W, symbol
<1>12. ASSUME NEW name \in Names, Known(name)
       PROVE  Reaches(RouteOf(extractor.router, SymbolIn(names, name), GroupsPerRouter),
                      LAMBDA d : /\ Canonical[d.name] = Canonical[name]
                                 /\ d.key.kind \in OrderBookKinds)
  <2> DEFINE symbol == SymbolIn(names, name)
             F == WantBook(routes, symbol)
             W == {j \in DOMAIN definitions : /\ Canonical[definitions[j].name] = Canonical[name]
                                              /\ definitions[j].key.kind \in OrderBookKinds}
             called == RouteOf(extractor.router, symbol, GroupsPerRouter)
  <2>1. /\ symbol \in Nat
        /\ \A j \in 1 .. last : Canonical[definitions[j].name] = Canonical[name]
                                  <=> definitions[j].key.symbol = symbol
    BY <1>2, <1>12, SymbolOfName
  <2>2. GroupsPerRouter \in 1 .. GroupsPerRouter
    BY EventKindsAreSeq DEF GroupsPerRouter
  <2> HIDE DEF symbol
  <2>3. called = Called(F, size)
    BY <1>5, <1>7, <2>1, <2>2, GroupsOfSymbolFacts
  <2>4. ASSUME NEW f \in 1 .. size, NEW j \in 1 .. last,
               GroupKey(definitions[j].key) = groups[Derived(groups)[f]].key
        PROVE  f \in F <=> j \in W
    <3> DEFINE key == definitions[j].key
               group == GroupKey(key)
    <3>1. /\ routes[f].symbol = key.symbol /\ routes[f].route = Route(group, IsGlobal(group))
          /\ key.kind # "Context" /\ IsKey(key) /\ HasSource(key)
      BY <1>5, <1>8, <2>4
    <3> HIDE DEF key
    <3>2. Route(group, IsGlobal(group)) = <<"OrderBook">> <=> key.kind \in OrderBookKinds
      BY <3>1, RoutesTell
    <3> HIDE DEF group
    <3>3. f \in F <=> key.symbol = symbol /\ key.kind \in OrderBookKinds
      BY <1>5, <3>1, <3>2 DEF WantBook
    <3>4. j \in W <=> key.symbol = symbol /\ key.kind \in OrderBookKinds
      BY <1>2, <2>1 DEF key
    <3> QED
      BY <3>3, <3>4
  <2>5. W \in SUBSET (1 .. last) /\ \A j \in W : definitions[j].key.kind # "Context"
    BY <1>2, <1>9
  <2> HIDE DEF F, W, called
  <2>6. CalledInOrder(called) /\ Reached(called) = {definitions[j].id : j \in W}
    BY <1>10, <2>3, <2>4, <2>5
  <2> QED
    BY <2>6 DEF Reaches, called, W, symbol
<1>13. Reaches(AnyOf(extractor.router), LAMBDA d : HearsAny(d.key))
  <2> DEFINE F == WantAny(routes)
             W == {j \in DOMAIN definitions : HearsAny(definitions[j].key)}
             called == AnyOf(extractor.router)
  <2>1. ASSUME NEW f \in 1 .. size, NEW j \in 1 .. last,
               GroupKey(definitions[j].key) = groups[Derived(groups)[f]].key
        PROVE  f \in F <=> j \in W
    <3> DEFINE key == definitions[j].key
               group == GroupKey(key)
    <3>1. /\ routes[f].route = Route(group, IsGlobal(group))
          /\ key.kind # "Context" /\ IsKey(key) /\ HasSource(key)
      BY <1>5, <1>8, <2>1
    <3> HIDE DEF key
    <3>2. Route(group, IsGlobal(group)) = <<"Any">> <=> HearsAny(key)
      BY <3>1, RoutesTell
    <3> HIDE DEF group
    <3> QED
      BY <1>2, <1>5, <3>1, <3>2 DEF WantAny, key
  <2>2. W \in SUBSET (1 .. last) /\ \A j \in W : definitions[j].key.kind # "Context"
    BY <1>2, <1>9
  <2>3. called = Called(F, size)
    BY <1>7
  <2> HIDE DEF F, W, called
  <2>4. CalledInOrder(called) /\ Reached(called) = {definitions[j].id : j \in W}
    BY <1>10, <2>1, <2>2, <2>3
  <2> QED
    BY <2>4 DEF Reaches, called, W
<1> QED
  BY <1>11, <1>12, <1>13

(* Events reach exactly the definitions that ask for them, each derivation  *)
(* once and in the order of the build, under any spelling of the symbol and *)
(* whatever symbols are interned later.                                     *)
THEOREM EventsStayRouted == CompilerSpec => []EventsReachTheirDefinitions
BY CompilerInvariance, CompilerReaches, PTL

=============================================================================
