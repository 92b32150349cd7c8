---------------------------- MODULE FeatureCompiler ----------------------------
(***************************************************************************)
(* How definitions become an extractor: the builder                        *)
(* (features/feature_extractor_builder.rs), the compiler                   *)
(* (features/compiler.rs) and the routing tables and order book storage of *)
(* features/feature_extractor.rs.                                          *)
(*                                                                         *)
(* Definitions that differ in one parameter share a derivation, whose      *)
(* outputs are adjacent cells; the cells are therefore not in the order of *)
(* the definitions.  Routes are ranges of one flat list of derivations.    *)
(* Derivations, cells and symbols are numbered from 0, as in the code.     *)
(***************************************************************************)
EXTENDS FeatureKeys, Symbols

CONSTANTS
  Requests,       \* what may be defined: [kind, args, name, id]
  OutputLengths,  \* lengths of output vectors
  MaxRequests,    \* bound: definitions and order books of a builder
  BookNames,      \* names order books are added under
  EventKinds,     \* the event kinds in their order
  ReservedIds,    \* IDs that start with RESERVED_ID_PREFIX
  MaxOutputs,     \* MAX_OUTPUTS_PER_INDICATOR
  MaxU16          \* u16::MAX

DefaultIdOf == <<>>

ASSUME CompilerAssumption ==
  /\ MaxOutputs \in Nat \ {0} /\ MaxU16 \in Nat
  /\ EventKinds \in Seq(STRING)
  /\ \A request \in Requests :
       /\ request.kind \in Kinds
       /\ request.args = [field \in Fields(request.kind) |-> request.args[field]]
       /\ request.kind \in TimedKinds =>
            request.args.aggregation \in Nat /\ request.args.window \in Nat
       /\ "source" \in Fields(request.kind) =>
            request.args.source \in SourcesOf(request.kind, ToSet(EventKinds))
       /\ request.name \in Names
  /\ BookNames \subseteq Names

VARIABLES
  length,       \* of the output vector
  definitions,  \* [key, id], with the spelling that gave the symbol
  books,        \* symbols of configured order books, in order
  extractor     \* None, a refusal [error, index] or the compiled tables

builderVars == <<names, length, definitions, books, extractor>>

-----------------------------------------------------------------------------
(* Grouping. *)

Refusal(error, index) == [built |-> FALSE, error |-> error, index |-> index]

NotYet == Refusal(None, 0)

SameGroup(groups, key) == {g \in DOMAIN groups : groups[g].key = GroupKey(key)}

NewGroup(definition, i) ==
  [key |-> GroupKey(definition.key), outputs |-> <<GroupOutput(definition.key)>>,
   ids |-> <<definition.id>>, first |-> i]

(* Faulty variant: a group may get one output too many. *)
OverfullGroup(group) == Len(group.ids) > MaxOutputs

FullGroup(group) == Len(group.ids) = MaxOutputs

(* What is wrong with the i-th definition, the groups being those before it. *)
DefinitionError(groups, i) ==
  LET definition == definitions[i]
      before     == {definitions[j] : j \in 1 .. i - 1}
      same       == SameGroup(groups, definition.key)
  IN  IF definition.key \in {d.key : d \in before} THEN "DuplicateFeatureKey"
      ELSE IF definition.id \in {d.id : d \in before} THEN "DuplicateFeatureId"
      ELSE IF definition.id \in ReservedIds THEN "ReservedFeatureId"
      ELSE IF KeyError(definition.key) # Valid THEN KeyError(definition.key)
      ELSE IF \E g \in same : FullGroup(groups[g])
        THEN "CompatibleGroupOutputLimitExceeded"
      ELSE IF same # {} /\ Parameter(definition.key.kind) = None
        THEN "DuplicateScalarDerivation"
      ELSE Valid

WithOutput(group, definition) ==
  [group EXCEPT !.outputs = Append(@, GroupOutput(definition.key)),
                !.ids = Append(@, definition.id)]

AddOutput(groups, i) ==
  LET definition == definitions[i]
      same       == SameGroup(groups, definition.key)
  IN  IF same = {} THEN Append(groups, NewGroup(definition, i))
      ELSE [groups EXCEPT ![CHOOSE g \in same : TRUE] = WithOutput(@, definition)]

(* The loop over definitions, which ends at the first that is wrong. *)
GroupNext(g, i) ==
  LET error == DefinitionError(g.groups, i)
  IN  IF g.error # Valid THEN g
      ELSE IF error # Valid THEN [g EXCEPT !.error = error, !.index = i]
      ELSE [g EXCEPT !.groups = AddOutput(@, i)]

Grouped ==
  FoldLeft(GroupNext, [groups |-> <<>>, error |-> Valid, index |-> 0],
           [i \in DOMAIN definitions |-> i])

-----------------------------------------------------------------------------
(* Layout. *)

(* Those of 1 .. n that are in S, in their order. *)
InOrder(S, n) ==
  FoldLeft(LAMBDA chosen, i : IF i \in S THEN Append(chosen, i) ELSE chosen,
           <<>>, [i \in 1 .. n |-> i])

Count(groups) == FoldLeft(LAMBDA sum, group : sum + Len(group.ids), 0, groups)

IsContext(group) == group.key.kind = "Context"

RangeOf(groups, g) == [start |-> Count(SubSeq(groups, 1, g - 1)), count |-> Len(groups[g].ids)]

(* A value for each cell of each group. *)
Cells(groups, Value(_)) ==
  FlattenSeq([g \in DOMAIN groups |-> [n \in DOMAIN groups[g].ids |-> Value(groups[g])]])

IsGlobal(key) == key.symbol = GLOBAL

(* build_group: a derivation is told the group's parameters in their order. *)
(* What its constructor checks holds of every valid group: none fails.  A   *)
(* window so long that its ring cannot be allocated is not modelled.        *)
BuildGroup(group, range) == [key |-> group.key, parameters |-> group.outputs, range |-> range]

Derived(groups) == InOrder({g \in DOMAIN groups : ~ IsContext(groups[g])}, Len(groups))

(* Faulty variant: the derivations' ranges leave no room for context cells. *)
FeaturesPacked(groups) ==
  LET derived == [f \in DOMAIN Derived(groups) |-> groups[Derived(groups)[f]]]
  IN  [f \in DOMAIN derived |-> BuildGroup(derived[f], RangeOf(derived, f))]

(* The derivations: those of all groups but contexts. *)
Features(groups) ==
  LET derived == Derived(groups)
  IN  [f \in DOMAIN derived |-> BuildGroup(groups[derived[f]], RangeOf(groups, derived[f]))]

-----------------------------------------------------------------------------
(* EventRouter::from_routes; routes are those of the derivations. *)

RoutesOf(features) ==
  [f \in DOMAIN features |->
     [symbol |-> features[f].key.symbol,
      route  |-> Route(features[f].key, IsGlobal(features[f].key))]]

(* A router for each symbol, in the order in which they appear. *)
AddRouter(symbols, r) ==
  IF r.route = <<"Any">> \/ r.symbol \in ToSet(symbols) THEN symbols ELSE Append(symbols, r.symbol)

Routers(routes) == FoldLeft(AddRouter, <<>>, routes)

SymbolToIndex(routes) ==
  LET routers == Routers(routes)
  IN  [symbol \in 0 .. Max({-1} \cup ToSet(routers)) |->
         IF symbol \in ToSet(routers)
           THEN (CHOOSE r \in DOMAIN routers : routers[r] = symbol) - 1 ELSE -1]

Subscribing(routes, Wanted(_)) ==
  LET chosen == InOrder({f \in DOMAIN routes : Wanted(routes[f])}, Len(routes))
  IN  [i \in DOMAIN chosen |-> chosen[i] - 1]

(* Faulty variant: only the first kind's group of a symbol gets what wants  *)
(* every kind.                                                              *)
GroupsForFirstKind(routes) ==
  LET routers == Routers(routes)
      OfRouter(r) ==
        [k \in DOMAIN EventKinds |->
           Subscribing(routes, LAMBDA p :
             /\ p.symbol = routers[r]
             /\ p.route = <<"Kind", EventKinds[k]>> \/ (p.route = <<"SymbolAny">> /\ k = 1))]
          \o <<Subscribing(routes, LAMBDA p : p.symbol = routers[r] /\ p.route = <<"OrderBook">>)>>
  IN  FlattenSeq([r \in DOMAIN routers |-> OfRouter(r)])
        \o <<Subscribing(routes, LAMBDA p : p.route = <<"Any">>)>>

(* The groups in the order in which they are appended: for each router its  *)
(* event kinds and its order book, then the subscribers to any event.       *)
SubscriberGroups(routes) ==
  LET routers == Routers(routes)
      OfRouter(r) ==
        [k \in DOMAIN EventKinds |->
           Subscribing(routes, LAMBDA p :
             /\ p.symbol = routers[r]
             /\ p.route \in {<<"Kind", EventKinds[k]>>, <<"SymbolAny">>})]
          \o <<Subscribing(routes, LAMBDA p : p.symbol = routers[r] /\ p.route = <<"OrderBook">>)>>
  IN  FlattenSeq([r \in DOMAIN routers |-> OfRouter(r)])
        \o <<Subscribing(routes, LAMBDA p : p.route = <<"Any">>)>>

(* append_subscribers: the ranges, which must fit their integers.  What the *)
(* router keeps of them is of that width.                                   *)
Ranges(groups) ==
  [i \in DOMAIN groups |->
     [start |-> Len(FlattenSeq(SubSeq(groups, 1, i - 1))), len |-> Len(groups[i])]]

RangesFit(ranges) == \A i \in DOMAIN ranges : ranges[i].start <= MaxU16 /\ ranges[i].len <= MaxU16

AsU16(n) == n % (MaxU16 + 1)

Stored(ranges) ==
  [i \in DOMAIN ranges |->
     [start |-> AsU16(ranges[i].start), len |-> AsU16(ranges[i].len)]]

RouterOf(features) ==
  LET groups == SubscriberGroups(RoutesOf(features))
  IN  [symbolToIndex |-> SymbolToIndex(RoutesOf(features)),
       ranges        |-> Stored(Ranges(groups)),
       subscribers   |-> FlattenSeq(groups)]

-----------------------------------------------------------------------------
(* The order of a build: compile, then the storage of order books. *)

Compiled(groups) ==
  LET features == Features(groups)
  IN  [built        |-> TRUE,
       features     |-> features,
       ids          |-> FlattenSeq([g \in DOMAIN groups |-> groups[g].ids]),
       contextSlots |-> Cells(groups, IsContext),
       sources      |-> Cells(groups, LAMBDA group :
                          <<group.key.symbol, SourceKind(group.key, IsGlobal(group.key))>>),
       router       |-> RouterOf(features)]

BookMissing(groups) ==
  \E g \in DOMAIN groups :
    groups[g].key.kind \in OrderBookKinds /\ groups[g].key.symbol \notin ToSet(books)

Built ==
  IF Len(definitions) # length THEN Refusal("OutputCountMismatch", 0)
  ELSE LET grouped == Grouped
           groups  == grouped.groups
       IN  IF grouped.error # Valid THEN Refusal(grouped.error, grouped.index)
           ELSE IF Len(groups) > MaxU16 THEN Refusal("RuntimeFeatures", 0)
           ELSE IF ~ RangesFit(Ranges(SubscriberGroups(RoutesOf(Features(groups)))))
             THEN Refusal("Subscribers", 0)
           ELSE IF ~ IsInjective(books) THEN Refusal("DuplicateOrderBook", 0)
           ELSE IF BookMissing(groups) THEN Refusal("OrderBookNotConfigured", 0)
           ELSE Compiled(groups)

-----------------------------------------------------------------------------
(* Actions.  The builder is consumed by build; names are interned by any    *)
(* thread at any time.                                                      *)

CompilerInit ==
  /\ InternInit
  /\ length \in OutputLengths
  /\ definitions = <<>> /\ books = <<>> /\ extractor = NotYet

Building == extractor = NotYet /\ Len(definitions) + Len(books) < MaxRequests

AddFeature(request) ==
  /\ Building
  /\ Intern(request.name)
  /\ LET key == [kind |-> request.kind, args |-> request.args,
                 symbol |-> SymbolIn(names', request.name)]
     IN  definitions' = Append(definitions,
           [key |-> key, name |-> request.name, custom |-> request.id # DefaultIdOf,
            id |-> IF request.id = DefaultIdOf
                     THEN DefaultId(key, Resolve(names', key.symbol)) ELSE request.id])
  /\ UNCHANGED <<length, books, extractor>>

AddOrderBook(name) ==
  /\ Building
  /\ Intern(name)
  /\ books' = Append(books, SymbolIn(names', name))
  /\ UNCHANGED <<length, definitions, extractor>>

Build ==
  /\ extractor = NotYet
  /\ extractor' = Built
  /\ UNCHANGED <<names, length, definitions, books>>

UseName(name) == Intern(name) /\ UNCHANGED <<length, definitions, books, extractor>>

CompilerNext ==
  \/ \E request \in Requests : AddFeature(request)
  \/ \E name \in BookNames : AddOrderBook(name)
  \/ \E name \in Names : UseName(name)
  \/ Build

CompilerSpec == CompilerInit /\ [][CompilerNext]_builderVars

-----------------------------------------------------------------------------
(* What an extractor looks up. *)

(* index_of_id *)
CellsOf(id) == {c \in DOMAIN extractor.ids : extractor.ids[c] = id}

(* as_slice of the i-th range. *)
Slice(router, i) ==
  SubSeq(router.subscribers, router.ranges[i].start + 1,
         router.ranges[i].start + router.ranges[i].len)

GroupsPerRouter == Len(EventKinds) + 1

(* route and order_book: the k-th group of a symbol, that of the order book *)
(* being the last.  Symbols interned late lie beyond the table.             *)
RouteOf(router, symbol, k) ==
  IF symbol \notin DOMAIN router.symbolToIndex \/ router.symbolToIndex[symbol] = -1 THEN <<>>
  ELSE Slice(router, router.symbolToIndex[symbol] * GroupsPerRouter + k)

AnyOf(router) == Slice(router, Len(router.ranges))

-----------------------------------------------------------------------------
(* Properties. *)

IsBuilt == extractor.built

CellsOfFeature(f) ==
  LET range == extractor.features[f].range
  IN  range.start + 1 .. range.start + range.count

(* The key that a cell of a derivation computes, put together again from    *)
(* the group and the parameter of the cell.                                 *)
KeyOfCell(f, c) ==
  LET feature   == extractor.features[f]
      kind      == feature.key.kind
      parameter == feature.parameters[c - feature.range.start]
      value     == IF kind \in TimedKinds THEN parameter * feature.key.args.aggregation
                   ELSE parameter
  IN  [feature.key EXCEPT !.args =
         [field \in Fields(kind) |-> IF field = Parameter(kind) THEN value ELSE @[field]]]

(* Every definition finds one cell by its ID, however definitions were      *)
(* grouped.  The cell's source names the definition's symbol; a context     *)
(* cell belongs to no derivation, and any other to the one that computes    *)
(* exactly the key that was defined, with its own window, lag or depth.     *)
DefinitionsFindTheirCells ==
  IsBuilt =>
    /\ Len(extractor.ids) = length
    /\ \A i \in DOMAIN definitions :
         LET definition == definitions[i]
         IN  \E c \in DOMAIN extractor.ids :
               /\ CellsOf(definition.id) = {c}
               /\ extractor.sources[c][1] = definition.key.symbol
               /\ extractor.contextSlots[c] = (definition.key.kind = "Context")
               /\ LET owners == {f \in DOMAIN extractor.features : c \in CellsOfFeature(f)}
                  IN  IF definition.key.kind = "Context" THEN owners = {}
                      ELSE \E f \in owners :
                             owners = {f} /\ KeyOfCell(f, c) = definition.key

(* What a definition asks to be told: every event of its symbol, to expire  *)
(* its window, or only those it reads.                                      *)
HearsEvents(key) ==
  CASE key.kind \in OrderBookKinds \cup {"Context"} -> {}
    [] key.kind \in TimedKinds -> ToSet(EventKinds)
    [] key.kind \in {"Cvd", "Vpt"} -> {"Trade"}
    [] OTHER -> {kind \in ToSet(EventKinds) :
                   \/ key.args.source = <<"AnyEvent">> /\ key.symbol # GLOBAL
                   \/ key.args.source = <<"Event", kind>>
                   \/ \E field \in {"Price", "Volume", "TradePrice", "TradeVolume"} :
                        key.args.source = <<"Field", field>> /\ EventKindOf(field) = kind}

HearsAny(key) ==
  /\ key.kind \in CalendarKinds
  /\ key.args.source = <<"AnyEvent">> /\ key.symbol = GLOBAL

(* The IDs in the cells of derivations that are called. *)
Reached(called) ==
  UNION {{extractor.ids[c] : c \in CellsOfFeature(called[i] + 1)} : i \in DOMAIN called}

CalledInOrder(called) == \A i \in 2 .. Len(called) : called[i - 1] < called[i]

Reaches(called, Wanted(_)) ==
  /\ CalledInOrder(called)
  /\ Reached(called) = {definitions[i].id : i \in {j \in DOMAIN definitions : Wanted(definitions[j])}}

(* An event, under any spelling of its symbol and also of a symbol interned *)
(* after the build, calls the derivations of exactly the definitions that   *)
(* ask for it, each once and in the order of the build; order book updates  *)
(* and global events likewise.                                              *)
EventsReachTheirDefinitions ==
  IsBuilt =>
    /\ \A name \in {n \in Names : Known(n)} :
         LET symbol == SymbolIn(names, name)
             Same(definition) == Canonical[definition.name] = Canonical[name]
         IN  /\ \A k \in DOMAIN EventKinds :
                  Reaches(RouteOf(extractor.router, symbol, k),
                          LAMBDA d : Same(d) /\ EventKinds[k] \in HearsEvents(d.key))
             /\ Reaches(RouteOf(extractor.router, symbol, GroupsPerRouter),
                        LAMBDA d : Same(d) /\ d.key.kind \in OrderBookKinds)
    /\ Reaches(AnyOf(extractor.router), LAMBDA d : HearsAny(d.key))

(* Definitions before the i-th that differ from it in one parameter only. *)
Siblings(i) ==
  {j \in 1 .. i - 1 :
     /\ definitions[j].key.kind = definitions[i].key.kind
     /\ definitions[j].key.symbol = definitions[i].key.symbol
     /\ \A field \in Fields(definitions[i].key.kind) \ {Parameter(definitions[i].key.kind)} :
          definitions[j].key.args[field] = definitions[i].key.args[field]}

Faulty(i) ==
  \/ \E j \in 1 .. i - 1 :
       definitions[j].key = definitions[i].key \/ definitions[j].id = definitions[i].id
  \/ definitions[i].id \in ReservedIds
  \/ KeyError(definitions[i].key) # Valid
  \/ Parameter(definitions[i].key.kind) # None /\ Cardinality(Siblings(i)) >= MaxOutputs

(* A refusal names the first definition at fault, and one without a fault   *)
(* is never named: definitions that share a derivation have outputs of      *)
(* their own, and only a custom ID ever repeats one, because default IDs    *)
(* tell all keys apart.  Without faults, the build ends in an extractor     *)
(* unless a size or an order book is wrong.                                 *)
RefusalsNameTheFault ==
  extractor # NotYet /\ Len(definitions) = length =>
    LET faults == {i \in DOMAIN definitions : Faulty(i)}
    IN  IF faults = {}
          THEN extractor.built \/ extractor.index = 0
          ELSE /\ ~ extractor.built
               /\ extractor.index = Min(faults)
               /\ extractor.error # "DuplicateScalarDerivation"
               /\ extractor.error = "DuplicateFeatureId" =>
                    \E j \in 1 .. extractor.index :
                      /\ definitions[j].id = definitions[extractor.index].id
                      /\ definitions[j].custom

================================================================================
