# A TLA+ model of fiml

fiml turns market events into feature vectors: trades, prices and order-book
updates go in, one at a time and in order, and every event leaves a vector of
numbers that a model can be trained on or served from. The same code runs over
recorded data and live feeds, so a state that is wrong only after a rare sequence
of events — a lost delta, a late snapshot, a silence longer than a window — ends
up in a training set or a decision without anything failing. These modules state
what the state must be, check it with TLC on small instances, and prove for all
instances, with TLAPS, what they say about order books and their dense sides, the
extractor, timed sums and lags, the features over time that count, sum and average, and
pipelines of any stages with batch replays over them.

Paths below are relative to `src/crates/fiml/src` unless they say otherwise.

## The system

Everything is single-threaded and driven by calls. There is no persistence and no
waiting; what makes the code hard is the order of calls, partial failure, bounded
memory, and several clocks.

| Component | State | Operations | Used by |
|---|---|---|---|
| Order book (`order_book/book.rs`) | two sides of levels, sync state, replay history of deltas with times, visible and snapshot IDs, source time, flow | `apply_update` (= `prepare_update`, then `commit_update`), queries | extractor, Python |
| Side storage (`order_book/book_side.rs`, `dense_book_side.rs`) | price → size as a tree or as a dense array with its occupied range | validate, update, clear, depth queries | order book |
| Feature extractor (`features/feature_extractor.rs`) | output vector, observation marks, sources, watermarks (last, per symbol, maximum), books, derivations | `handle_event`, `update_context` | pipeline, Python |
| Event router (`feature_extractor.rs`, `features/compiler.rs`) | flattened tables symbol × kind → derivations | `route`, `any`, `order_book` | extractor |
| Derivations (`features/derivation/*`) | one indicator each | `update`, `update_order_book` | extractor |
| Rolling timed sums (`indicators/timed_sum.rs`) | ring of time buckets, running sum, offset and readiness per window, first and last time | `observe`, `update` | trade counts, volumes, VWAP |
| Other indicators (`indicators/*`) | averages, volatility, OBV, CVD, VPT | `update` | derivations |
| Ring buffers (`ring_buffer.rs`) | bounded FIFO that evicts its oldest | push, pop, peek | indicators, transformers |
| Pipeline (`features/pipeline/*`) | extractor, nodes with values, observations and clocks, outputs | `handle_event`, `update_context`, `reset` | Python |
| Transformers (`features/transformers/*`) | timed and sample histories, segment tree, streaks | `apply` | pipeline nodes |
| Compiler, builders, JSON (`compiler.rs`, `features/serde/*`) | definitions | compile, validate, load and save | construction |
| Symbols (`symbols.rs`) | process-wide table behind a mutex | intern, resolve | everything |
| Python (`src/crates/fiml-python`) | a runtime and its buffers | single events, batch replay | users |

How they interact: a caller hands an event to the pipeline or the extractor. The
extractor checks the time against the symbol's watermark and the payload for
infinities; a book update is *prepared* (all checks, no change), and if the book
rejects it the rejection is still committed — it may leave a delta in the book's
history and desynchronize it — and the error returned. Otherwise observation marks
are cleared, global calendars, the symbol's event features and then the book and
its features are updated, and the watermarks move. A pipeline then refreshes its
nodes in creation order, each with the values, marks and clocks of its parent.

What makes each of them correct, and where it is hard:

- **Order book.** A live book shows the venue's book after one sequence ID,
  although deltas are lost, doubled and reordered, snapshots arrive late and older
  than what is shown, the history is bounded, and errors are returned for deltas
  that are nevertheless kept. IDs do not go back; a broken book says so and can be
  repaired.
- **Extractor.** A rejected call shows nowhere. Every cell is evaluated at the time
  readers take it for, sources are as fresh as they claim, and cells of a book show
  what the book shows and not what it was about to show.
- **Timed windows.** A window is a function of what was received and the time, and
  not of how often it was observed; windows of different lengths share a ring.
- **Dense sides.** An array with the range of its occupied slots answers every query
  like the book it stands for, and flows account for levels that one message names
  twice.
- **Indicators.** Whatever windows share a ring and whatever it evicted, a window shows
  what its own trades say.
- **Timed lags.** A bounded history answers like an unbounded one.
- **Compiler and routing.** However definitions are grouped, named and spelled, each
  finds its own cell and each event exactly the derivations that asked for it; the
  first fault is the one reported.
- **Transformers.** Definitions that share a history each show what their own words
  say; the summary tree, whose values wrap around, equals a plain fold in time order.
- **Pipeline and batch replay.** Nodes depend on accepted events alone; context changes
  advance no history; clocks only go on; a changed value is marked at every node; a
  replay that began stops only where an order book rejects an update.

## The modules

```
SyncedReplica          what readers of a book are promised
     ^ implemented by
OrderBookReplica ----> OrderBook <---- FeatureExtractor <-- MCFeatureExtractor
  ^      ^                                     ^
  |      |                                     ExtractorProofs
  |      DenseBook <-- MCDenseBook
  MCOrderBook     ^--- OrderBookProofs

RingBuffers <-- SampleIndicators <-- TimedIndicators <-- Derivations <-- MCDerivations
                       ^                                     ^--------- DerivationProofs
SummaryTree <-- Transformers <-- ScalarStage <-- MCScalarStage
                       ^
                     Stages <-- Pipeline <-- BatchReplay <-- MCPipeline
                                                  ^--------- PipelineProofs

Symbols, FeatureKeys <-- FeatureCompiler <-- MCFeatureCompiler
                               ^------------ FeatureCompilerProofs

TimedSum <-- TimedWindow <-- MCTimedWindow
                  ^--------- ExtractorProofs
TimedHistory <-- TimedLag <-- MCTimedLag
                  ^--------- TimedLagProofs

NumberLemmas, FoldLemmas   used by the proofs above
```

**OrderBook** models `order_book/book.rs` with the storage operations of
`book_side.rs`. `image` is both sides as one function from levels to sizes (0: no
level); `updateBuffer` is the replay history. One call of `apply_update` is one
action, since nothing can happen between `prepare_update` and `commit_update`. The
ways a call can end are separate actions: `RejectMalformedDelta`,
`IgnoreStaleDelta`, `RejectOverflow`, `RejectGap`, `BufferDelta`, `ApplyDelta`,
`RejectSnapshot`, `ApplySnapshot`. Their guards are the tests of
`prepare_delta_update` and `prepare_snapshot_update` in the code's order, for both
policies. Messages are constants and any of them may arrive next, so loss,
duplication and reordering need no actions of their own. The replay loop is written
without recursion: sizes are absolute, so a level ends with what the last delta
naming it says (`Replayed`), and the history is ordered, so `retain` keeps a suffix
(`NewerThan`); DenseBook has the loops themselves. `MaxUpdateId` plays `u64::MAX`,
where no successor exists. Abstracted: prices and decimals (levels are values), and
flows per level instead of summed per side.

**OrderBookReplica** adds the assumption about the feed, `HonestFeed`: well-formed
messages tell the truth about a venue `Exchange`, a book per ID. Only what a delta
range changed must be in it, with final sizes, and ranges may overlap. It states
the properties and the refinement mapping to **SyncedReplica**.

**DenseBook** puts the arrays of `dense_book_side.rs` beside OrderBook's image: a slot
per tick, `Widened` and `Narrowed` for the range of occupied slots, messages as the
list of changes in the feed's order (`ApplyDeltaUpdate`), flows per side, the loops of
a snapshot (`LoadSides`), and the queries and features of `book.rs` and
`derivation/order_book.rs` over them. OrderBook's actions are conjuncts of its own, so
that the invariant relates two representations of one book. `Ranked` is what the
properties compare with: the visible levels of a side in the image, the best first,
chosen without looking at an array.

**FeatureExtractor** models `features/feature_extractor.rs` over OrderBook, whose
actions are conjuncts of its own: the book's return decides what the extractor
does. Cells are described by what they are computed from (a field, a timed window, a
calendar, the book, its flow, a context value), and a value is the information it
was computed from, so that a stale cell is a wrong value. `Subscribed` is the
router, `Accept` the body of `handle_event` in its order, `Reject` its early
returns; `UpdateContext` validates the whole update first. Timed windows appear
with their clock and last trade; their sums are in the module below.

**TimedSum** models `RollingTimedSum`: a shared ring `data` of buckets, and per
window a running sum, an offset into the ring and a readiness flag. `Observe` and
`Update` are the two calls, `Update` with its inner `observe`, the bucket it joins
or the eviction it causes. Callers give ordered times (`InTime`): the extractor
checks that, and the root `README.md:311-312` asks it of other callers.
**TimedWindow** adds what was received per bucket as a history variable.

**TimedHistory** models `TimedTransformer` (`features/transformers/timed.rs`):
`Observe`, `Advance` and `Repeat` are the three things `apply` does. **TimedLag**
adds an unbounded history of bucket-last observations. `MinTime` plays `i64::MIN`,
below which a cutoff cannot be computed.

**RingBuffers** is the index arithmetic of `StackRingBuffer` with slots that are not
initialized. **SampleIndicators** and **TimedIndicators** are the indicators over it
as values and operators from one to the next: `New...` validates and builds, `Update...`
records, `Observe...` passes time, `Shown...` and `...At` read. **Derivations** gives
one symbol all of them at once, as the extractor's handlers drive them, and keeps a
`log` of all trades that the properties are stated over. Arithmetic is exact: a mean is
counted in units of 1/`Scale`, a quotient is the pair of its terms, what is summed from
quotients a bag of pairs.

**SummaryTree** is the circular segment tree of `history.rs` with the three summaries
kept in it. **Transformers** has the definitions of `features/transformers`, their
validation, `Compile`, which joins definitions that can share a history (`Key`), and
`Apply`, with one operator per kind of operation. **ScalarStage** refreshes a stage and
a path signature over two raw cells and keeps a `log` of all refreshes. In it a timed
lag has an unbounded history: TimedLag shows that the bounded one looks up the same.

**Stages** has the kinds of stages of `pipeline/stages.rs`: `ValidStage`, `NewMemory`,
`Transformed`, `MarkOf`, `ClockOf`, and `ApplyStage`, one node's part in a refresh.
**Pipeline** builds graphs call by call (`AddNode`, `AddOutput`, `Build`) and has
`HandleEvent`, `UpdateContext` and `Reset` over them; the extractor below it is reduced
to what a pipeline reads. **BatchReplay** is the Python `replay_events` over it, one
state per applied row; nothing else runs in between, but a row may stop it.

**FeatureKeys** has the kinds of features with their validation (`KeyError`), default
ids (`Labels`), groups and sources. **Symbols** is the interner, whose mutex makes a
call one step. **FeatureCompiler** is the builder call by call, other threads interning
symbols in between, and `compile`: refusals in the code's order, groups, layout, routes
and the flattened routing tables, their ranges as wide as `u16` (3 in the run), which the properties look up
the way the extractor does.

Some operators are marked *Faulty variant*. They are not part of the model: each
is a plausible mistake in the definition after it, kept to make sure that the
property named with it in `PROJECT.json` notices when it is put in its place.

## What the runs check

| Run | Question | States |
|---|---|---|
| `book_contiguous` | a Contiguous book over any stream | 37 000 |
| `book_dense` | a Monotonic book over dense sides: arrays against the image | 19 000 |
| `book_recovery` | does a desynchronized book become live again? | 1 000 |
| `book_no_buffer` | what a book without history says of covered ranges | counterexample |
| `extractor_book` | cells of a book among other events and context updates | 117 000 |
| `extractor_clocks` | watermarks, clocks, sources and context | 11 000 |
| `timed_window` | windows over one ring | 8 500 |
| `timed_lag` | lags over one bounded history | 37 000 |
| `derivations` | every indicator feature against the log of trades | 297 000 |
| `scalar_stage` | definitions that share histories against the log of refreshes | 182 000 |
| `compiled` | builders of any definitions, and the tables they end in | 802 000 |
| `pipeline` | graphs of every kind of stage, and batch replays over them | 56 000 |

*Order book.* `HistoryOrdered`, `LiveHistoryIsComplete` and `HistoryReachesVisible`
say what a history is through every mixture of applied, buffered and rejected
deltas; `VisibleIsSnapshotPlusHistory` and `SourceTimeIsOfVisibleUpdate` what is
shown; `FlowIsOfVisibleDelta` that a flow never describes levels from before a
snapshot; `CoveredRangesAreStale` that what is shown is never applied again;
`LiveBookKeepsUp` that no call takes an ID back or leaves a live book short of the
delta it was handed (a history overflow in a live book must take it out of Live, which
the other properties would not notice), and `ReplicaSpec` that the book implements
the replica. The venue has one bid and one ask that change, vanish and
return; IDs 0..4, all ranges over them and three malformed deltas; three deltas
of history. That is enough for a gap, a bridge across it, an overflow and two
snapshots in one behaviour, with ranges that overlap a snapshot.

*Dense sides.* The Monotonic policy, ranges of one and two updates over a grid of three
ticks. The venue's tape leaves a hole between two bids, takes away the best and the
worst of them, empties a side and fills it again, which is every way an end of the
occupied range moves; a range of two updates names a level twice if both changed it.
`QuotesAreOfImage` compares every query with the image, `FlowAccountsForGrowth` what
is said to be added and to be removed with what every single mention of a level did to
it, and the difference with how the side grew. Prices off the grid and outside it are refused, and grids
that cannot be are assumptions of MCDenseBook.

*Recovery.* `EventuallyResynchronizes` holds under `FairSpec`: a consumer keeps
fetching a snapshot that covers what was received whenever the book asks for
resynchronization. The code does not do this itself; its documentation makes it
the consumer's task (root `README.md:313-314`), and the weak fairness is on the
action `FetchSnapshot` alone, none on deltas. What it shows is that no history, full
or with gaps, makes such a snapshot fail for ever. Nothing is claimed of a venue
that has exhausted its IDs.

*No history.* `src/crates/fiml-python/README.md:576-577` says that both policies
"ignore ranges ending at or below the last ID". With `buffer_size` 0 the code
compares nothing in a desynchronized book: it reports `BufferCapacityExceeded`. The
run shows the counterexample; the theorem `CoveredRangesStayStale` shows that one
slot suffices.

*Extractor.* `BookCellsFollowBook` and `FlowCellsAreOfAppliedDeltas` tie cells to the
book, `RejectionsDoNotShow` to errors, `ClocksAreEvaluationTimes`,
`WatermarksAgree` and `WindowSourcesAreTrades` relate the clocks of cells to the
watermarks of three symbols, `MarksAreOfLastEvent` the marks to the last event, both
ways: what is marked was evaluated by it, and what it changed is marked. The two runs
divide the features, since book and clocks together multiply the states; the first has
one window, one calendar and a context cell next to the book, and context updates that
are right, wrong, and wrong in their second part only; the second has no book. Two and three timestamps give equal, later and late events.

*Timed sums and lags.* Times run from before the epoch to after it, longer than the
ring, so that buckets expire, are evicted and are skipped; the second window is
shorter than the first. `MaxReceived` bounds what a bucket is made to hold and is
the only bound on counters. In `timed_lag` times begin at the smallest there is.
`SumsAreOfReceived` says what a window shows and when it is ready, `OffsetsPartTheRing`
and `EvictsOnlyExpired` that sharing the ring is sound.

*Derivations.* Two windows of different lengths over rings of three buckets, and one
of one bucket, both warmup policies, times from before the epoch to after it, at most
four trades whose prices rise, fall, stay and are zero. Four trades are enough for a
bucket to be evicted, a bucket to be joined, a gap longer than the ring and a return
over it. Each property defines a feature by the unbounded log: `SumsAreOfTrades`,
`VolumesAreBalances`, `AveragesAreMeansOfMeans`, `VolatilitiesAreOfReturns`, and
`SamplesAreOfTrades` for the features that count samples.

*Scalar stages.* Three stages: summaries of windows of three and two values over a tree
of four leaves, so that six refreshes wrap around it; lags, changes, averages and
counts that share histories and differ in window, warmup or kind; and windows, lags and
ages over time, with four refreshes. Values rise, fall, are zero and are missing.
`SummariesAreOfNewest`, `OutputsAreOfOwnDefinition` and `TimedOutputsAreOfClock` each
state outputs from the log by their definition. `MaxCount` plays 2^53. The run stops at
its bounds (`MaxRefreshes`, `MaxTimed`), which is not a deadlock of the code.

*Compiler.* Up to three definitions out of fifteen and an order book, two output places
per derivation, `MaxU16` = 3 and three symbols, which are small enough for every
refusal of `compile` and of the routing tables to happen. A second thread interns
symbols at any time. `DefinitionsFindTheirCells`, `EventsReachTheirDefinitions` and
`RefusalsNameTheFault` compare the tables with the definitions. That default ids and
output parameters tell keys apart, for every kind of feature over small arguments, is
an assumption of MCFeatureCompiler that TLC evaluates. A finished build is final.

*Pipeline.* One graph has clocks, with timed outputs of a projection of both symbols and
of a lag of it, a signature and a context node; the other has every stage that keeps
or selects columns and histories over them. `MaxCalls` bounds the accepted events to
three, with rejected events, context updates and resets anywhere among them.
`NodesFollowAcceptedEvents` replays the accepted events alone and compares;
`ClocksNeverRegress` and `ChangesAreMarked` are action properties on every node.
`RowsAreTimely` is what the validation of a batch is for: no row is late when its turn
comes. One batch of the run has an update that its order book rejects in the middle,
one a row that is late only because of the row before it. Graphs that must not be
built are an assumption.

## What is proved

Every theorem below holds for all values of the constants that satisfy the named
assumptions, and TLC evaluates these in every run of the module. Unless it says
otherwise an invariant `X` is proved as `Init => IInv`, `IInv /\ [Next]_vars => IInv'`
and `IInv => X`.

**Order book** (`OrderBookProofs`), for any set of levels, any messages that tell
the truth, any capacity and both policies:

- the inductive invariant `IInv`, the conjunction of `TypeOK`, `HistoryOrdered`,
  `LiveHistoryIsComplete`, `VisibleIsSnapshotPlusHistory`,
  `SourceTimeIsOfVisibleUpdate` and `HistoryReachesVisible`, and each of them. None
  is inductive alone: that a snapshot older than the book arrives back at the book
  needs the history complete; that it is complete needs it ordered and reaching the
  visible ID; that a stale delta is noticed needs all of that;
- `FlowIsOfVisibleDelta`, from `IInv` and itself: the delta that made a flow is the
  last of the history until a snapshot clears both;
- `CoveredRangesAreStale`, from `BufferSize > 0`;
- `LiveBookKeepsUp`, the action property, from the invariant: of all the outcomes of a
  delta only two leave the book live, and both leave it at or past the delta
  (`LiveAnswers`);
- `ImplementsReplica`: a Contiguous book implements `SyncedReplica`. The argument is
  `ChainReplaysVenue`: over an unbroken chain of honest deltas, the replay of its
  first n is the venue's book at the n-th, by a least counterexample. It rests on
  `NewerThanFacts` (a snapshot keeps exactly the newer deltas),
  `ReplayedAppend` (one more delta overwrites) and `UntouchedUnchanged` (a level that
  no delta of a range names is the same at both ends of it).

Assumptions: `ParameterTypes`, `HonestFeed`.

**Dense sides** (`OrderBookProofs`), for any grid, any lists of changes and any order in
which a snapshot's levels are loaded:

- `DenseInv`: both sides are arrays whose range of occupied slots is `Tight` (it ends
  at occupied slots and nothing lies outside), they hold the image, and a flow is
  shown exactly if the image's book has one; with `IInv` beside it, since a replay is
  only of well-formed deltas. The fold of a delta goes through books that hold the
  image with the first k changes laid over it (`LaidOver`); that this ends where the
  set of final sizes does is `LaidOverWhole`;
- `DenseImplementsBook`: every behaviour of the arrays is one of OrderBookReplica,
  so that everything proved of it holds of them;
- `SidesStayTrue`, the invariant slot by slot, and `FlowAccountsForGrowth`, gross and
  net: mention by mention, along the same fold (`DeltaFacts`, `SumOfFirst`);
- `QuotesAreOfImage`: the scan of a side is its ranking (`ScanIsRanked`: a scan finds
  the visible levels in strictly increasing order, and two such enumerations are
  equal), a sum over the scan is one over a set of levels (`PrefixSums`), and
  weighted prices lie between their quotes. `DepthsAreOfEverySize` is the part about
  depths for all counts, sizes and prices, of which a run can only try a few.

Assumptions: those of the order book, `Grid`, `ListedChanges`.

**Extractor** (`ExtractorProofs`), for any features, symbols, events and a book:

- `WatermarksAgree`, from itself and types (`WatermarkInv`);
- `ClocksAreEvaluationTimes` and `WindowSourcesAreTrades` together (`ClockInv`): an
  event moves the clock of a cell and the watermark that the cell is read at in one
  call, or neither;
- `MarksAreOfLastEvent`, from `ObservedInv` for what is marked and from one lemma per
  kind of cell for what has to be; `BookCellsFollowBook` and
  `FlowCellsAreOfAppliedDeltas` (`BookCellsInv`, which has to add that a live book has
  had a snapshot);
- `RejectionsDoNotShow`, for each of the ways a call can end in an error.

Assumptions: `ParameterTypes`, `ExtractorTypes`. Nothing is assumed of the feed.

**Timed sums** (`ExtractorProofs`), for any windows, capacities above them and times:

- `OffsetsPartTheRing` from `RingInv`: buckets are strictly increasing and of the past,
  offsets are within the ring. `EvictsOnlyExpired`, that the assertion
  `front_offset > 0` of `timed_sum.rs` cannot fail, follows by counting: a full ring of
  distinct buckets is longer than any window;
- `SumsAreOfReceived` from `ReceivedInv`: the ring is what was received
  (`RingIsOfReceived`) and what it lacks has left every window (`NothingIsLost`);
- `ReceivingIsSumming`: TimedWindow, with its history, is TimedSum.

Assumption: `WindowParameters`, in which times are a finite set, as `i64` is.

**Timed lags** (`TimedLagProofs`), for any lags that are multiples of a bucket:
`ForgottenAreSuperseded` and `VisibleIsAsOf` from `LagInv`, whose parts say that the
history is spaced, has one observation of each bucket, and that what it has forgotten
is older than one it keeps for the longest lag. Assumption: `LagParameters`.

**Features over time** (`DerivationProofs`), for any windows, any capacity of a ring that
the builders choose, both warmup policies, any times and any trades:

- `SumsAreOfTrades`, `VolumesAreBalances` and `AveragesAreMeansOfMeans` from
  `DerivationInvariant`, which relates an indicator to the log without its windows'
  help: a ring `Tracks` the buckets traded (it has the newest of them, in order, and lacks
  one only if it is full), an offset or a count `Parts` the ring into what has left a window
  and what has not, a window is ready exactly when it `IsWarm`, its running value is the
  `RangeSum` of what the ring holds after its offset, and every field of a bucket in the
  ring is a function of the log for the buckets traded (`AreOf`). The cells are what was
  last written of that. None of it is inductive alone: a value stays a range sum through an
  eviction only because what is evicted has left every window, which needs the ring's
  buckets distinct and its capacity above every window (`RecordedParts`);
- the ring itself first: `PushAppends`, `PopDropsNewest` and `RingReads` say that slots and
  indices, which wrap around over memory not yet written, are a sequence that loses its
  oldest item when it is full. Every recording is one of them (`RecordingAppends`): joining
  a bucket is a pop and a push;
- then one lemma per operation of an indicator, for any buckets: what it does to running sums
  (`UpdateSumsKeeps`, `UpdateVolumeKeeps`, `UpdateAverageKeeps`, and those of `Observe`), and
  what the log says of a bucket once a trade has joined it. The sign of a bucket is
  compared with the bucket traded before it, which the ring still has: the builders make
  it longer than any window, so it holds two buckets or more (`PreviousCloseIsBefore`);
- `BuiltKinds`: whatever the builders do not refuse has rings longer than their windows.

Assumptions: `IndicatorParameters`, `DerivationParameters`.

**Pipelines** (`PipelineProofs`), for any graphs of any stages, any symbols and any batches:

- `RowsAreTimely` from `ReplayInv`: the rows left are ordered per symbol
  (`RowsFollow`), and an event moves no watermark but its own symbol's;
- `ClocksNeverRegress` from `ClockInv`: no clock of a node is ahead of those it is
  computed from. That is what is inductive: a refresh takes clocks from parents that
  are refreshed already, so by induction over the nodes every clock grows with the
  watermarks. A build, a fold over the calls of its graph, gives nodes that refer to
  earlier ones (`StageClockOfColumns` says what each kind of stage takes a clock from);
- `ChangesAreMarked` from `GraphInv`: every node remembers what its kind of stage
  remembers (`Structured`) and, once an event was accepted, shows what the stage makes of
  what it remembers and of its parent's cells (`Current`). A stage marks what it changes
  if its parent did (`StageMarksChanges`, over every kind of stage and of operation), and
  again the nodes follow by induction (`RefreshMarksChanges`);
- `NodesFollowAcceptedEvents` from `MarketInv`: a pipeline has the market's raw cells, its
  watermarks and, in every node of the market, the *residue* of a replay of the accepted
  events alone. A residue is what a stage remembers that later refreshes can tell:
  marks are not of it, nor what an operation writes in every refresh. Three facts about
  a refresh carry the induction: with equal cells and residues it shows the same
  (`RefreshSame`), without an event it leaves every residue (`RefreshIsQuiet`), and repeated it shows what
  it showed before (`RefreshStays`). The replay is a fold over the accepted events, so one more event
  is one more step (`ReplayedNext`); a reset forgets them. Before the first event there is
  nothing to follow but the residues, since a context value may have refreshed the nodes.

Assumptions: `PipelineParameters`, `BatchParameters`. An event that a book rejects
leaves no watermark moved, as in the model of the extractor.

**Compiler** (`FeatureCompilerProofs`), for any definitions, custom IDs, spellings of
symbols and any interning by other threads:

- `CompilerInvariant`: names stay apart, every definition keeps the symbol of its name and
  the ID it was given, and what was built is what the definitions are built into;
- `RefusalsNameTheFault`. A default ID spells every field of its key, in the text or in its
  source (`FieldsAreLabelled`, over every kind), so that equal IDs are of equal keys
  (`DefaultIdsDiffer`) as long as names are apart. Keys of one group are equal but for the
  parameter (`SameGroupKeys`), and without a parameter equal (`LoneKeys`), which is why the
  error for a second scalar of a group is never seen. The invariant of the loop over the
  definitions, `GroupsHold`, is that every definition so far has one place in one group,
  every place is of a definition, and no two places have one ID; a group is as large as the
  set of definitions that share its key. `ErrorsAreFaults` is what the loop refuses then;
- `DefinitionsFindTheirCells`. The first cell of a group is behind the outputs of the
  groups before it (`IsStarts`, `FlattenFacts`), so a cell is of one group and one place
  in it (`OwnersOfCell`, `CellsAreCounted`), and by `GroupsHold` of one definition. The
  key a cell is read back as is the group's with the output put in, which is the key that was
  defined (`KeyComesBack`): a timed window passed validation, hence is whole buckets, and
  the buckets the output counts times their size are the window again;
- `EventsReachTheirDefinitions`. The invariant of the fold that fills the routers,
  `RoutersHold`, is that every router's range is the part of the flat table that holds its
  subscribers (`SliceIsPart`). Which groups those are is decided kind by kind (`RoutesTell`),
  and the groups an event reaches are those whose definitions want it
  (`ReachedAreWanted`), the symbol being looked up by the ID of its name
  (`SymbolsAreLookedUp`).

Assumption: `CompilerAssumption`, that requests have the fields of their kind, that event
kinds are a list, and that a source is one that the kind's field can hold: complete events
and any event are of the calendar features only, by the types `EventField` and
`FeatureSource`.

**NumberLemmas** and **FoldLemmas** hold what several of these need: sums over finite
sets (`SumFunctionOnSet` of the community modules), least and greatest elements,
monotonic products and quotients. Induction over an arbitrary predicate is out of the
provers' reach; over naturals these proofs take a least counterexample (`LeastElement`,
`UpwardInduction` over a set). What a *fold* computes is proved by instantiating
FoldLemmas with the step of the fold: `LeftFoldRuns` and `SetFoldRuns` say that its result
is the end of a run of steps, which `UpwardInduction` then goes along.

Proving found two faults of the properties themselves, none of the code:
`NodesFollowAcceptedEvents` claimed too much of a runtime that has accepted nothing but
has been refreshed by a context change, and the spread in basis points of two best
prices of 0 was compared with a quotient that the code does not show.

Only model-checked, and why:

- liveness (`EventuallyResynchronizes`): fairness and `ENABLED` are out of the provers'
  reach;
- `VolatilitiesAreOfReturns`: not proved here. Its returns are gathered with a fold of
  bags, which the provers cannot expand; a proof would first restate that sum return by
  return, as the sums of the other windows are. That the ring under a volatility is a
  sequence is proved with the others;
- `SamplesAreOfTrades`: selections of the log by `SelectSeq` and recursive averages over it
  are beyond the provers;
- `ScalarStage`: what its properties read off the log is selected with `SelectSeq`, and
  outputs are joined with `@@`, neither of which the provers can expand; the summary
  tree needs a lemma about the fold of a tree.

## Not modelled

- Floating-point rounding: sums are exact, and so are means and second moments up to
  the scale that makes the small instances whole; the repair of cancelled variances
  in `indicators/volatility` and the logarithm of a power transform at zero are left
  out.
- Infinities. A value that is no number is one value, `<<>>`; the stages that ask for NaN
  alone let an infinity pass, but only an overflow of `f64` makes one. With them go the
  checks that fitted numbers, means and inverse scales are finite.
- Decimals: the precision of a price grid and the conversion of sizes to `f64`.
- Sizes that only a large instance reaches: the limit of 1 000 000 slots in
  `timed.rs`, the capacities of statistics over time and of path signatures, and windows
  so long that the allocation of their ring fails (`compiler.rs` accepts them).
- The calendar features' values: a cell holds the timestamp that the day or the time
  of day is computed from.
- JSON and specifications (`features/serde`): conversions of data, field by field,
  that build what the modelled builders validate.
- Conversion of Python values, output buffers, and the lock on the output type.
- Concurrency other than the interner's: everything else takes `&mut self`.

`PROJECT.json` gives the reason for each component.

## Plan

What is left is to prove more of what is checked:

1. `VolatilitiesAreOfReturns`, with bags of returns written as functions: the ring, the
   counts of its windows and what they reach are proved for the moving average already.
2. `SummariesAreOfNewest` and the other properties of ScalarStage, once their histories are
   written without `@@` and `SelectSeq`; the summary tree needs a lemma about a fold of a
   tree. What Compile keeps of its definitions is proved (`CompiledOperations`).
