------------------------------- MODULE DenseBook -------------------------------
(***************************************************************************)
(* An order book over dense sides (order_book/dense_book_side.rs) with the *)
(* queries of book.rs and the features that read them.                     *)
(*                                                                         *)
(* OrderBook's `image' says what is visible; here each side is the array   *)
(* of the code, one slot per tick with the range of occupied slots beside  *)
(* it, and each message the list of changes in the order the feed names    *)
(* them: d.listed of a delta, of pairs <<level, size>>.  A list may name a *)
(* level more than once.                                                   *)
(***************************************************************************)
EXTENDS OrderBookReplica, FiniteSetsExt, SequencesExt

CONSTANTS TickSize, MinPrice, MaxPrice  \* DenseBookConfig

Sides == {"Bid", "Ask"}

(* level_count, or 0 for an invalid grid; that Decimal can represent every  *)
(* tick is left out.                                                        *)
LevelCount(tick, min, max) ==
  IF /\ tick > 0 /\ min >= 0 /\ max >= min
     /\ min % tick = 0 /\ max % tick = 0
    THEN (max - min) \div tick + 1 ELSE 0

Slots == 0 .. LevelCount(TickSize, MinPrice, MaxPrice) - 1

OnGrid(price) == MinPrice <= price /\ price <= MaxPrice /\ price % TickSize = 0

ASSUME Grid ==
  /\ {TickSize, MinPrice, MaxPrice} \subseteq Int
  /\ Slots # {}
  /\ Levels = Sides \X {price \in MinPrice .. MaxPrice : OnGrid(price)}

(* The last mention of a level is the one that counts. *)
ASSUME ListedChanges ==
  \A d \in Deltas :
    /\ d.listed \in Seq((DOMAIN d.changes) \X Int)
    /\ DOMAIN d.changes = {d.listed[i][1] : i \in DOMAIN d.listed}
    /\ \A i \in DOMAIN d.listed :
         (\A j \in i + 1 .. Len(d.listed) : d.listed[j][1] # d.listed[i][1])
           => d.changes[d.listed[i][1]] = d.listed[i][2]

VARIABLES
  sides,   \* bids and asks: [sizes, occupied] of each side
  totals   \* OrderBookFlow, [added, removed] of each side, or NoFlow

denseVars == <<sides, totals>>

-----------------------------------------------------------------------------
(* One side. *)

NewSide == [sizes |-> [slot \in Slots |-> 0], occupied |-> <<>>]

IndexOf(price) == (price - MinPrice) \div TickSize

PriceAt(slot) == MinPrice + TickSize * slot

Widened(occupied, slot) ==
  IF occupied = <<>> THEN <<slot, slot>>
  ELSE <<Min({occupied[1], slot}), Max({occupied[2], slot})>>

(* Faulty variant: a deletion moves only the lower end. *)
NarrowedBelow(sizes, occupied) ==
  IF occupied = <<>> THEN <<>>
  ELSE LET last  == occupied[2]
           first == Min({slot \in occupied[1] .. last : sizes[slot] # 0} \cup {last})
       IN  IF sizes[first] # 0 THEN <<first, last>> ELSE <<>>

(* After a deletion, the two scans over empty slots: up from the lower end, *)
(* then down from the upper one.                                            *)
Narrowed(sizes, occupied) ==
  IF occupied = <<>> THEN <<>>
  ELSE LET first == Min({slot \in occupied[1] .. occupied[2] : sizes[slot] # 0}
                          \cup {occupied[2]})
           last  == Max({slot \in first .. occupied[2] : sizes[slot] # 0} \cup {first})
       IN  IF sizes[first] # 0 THEN <<first, last>> ELSE <<>>

UpdateLevel(side, price, size) ==
  LET slot  == IndexOf(price)
      sizes == [side.sizes EXCEPT ![slot] = size]
  IN  [sizes    |-> sizes,
       occupied |-> IF size # 0 THEN Widened(side.occupied, slot)
                    ELSE Narrowed(sizes, side.occupied)]

(* get_level_size; a level that is not there is 0. *)
LevelSize(side, price) == IF OnGrid(price) THEN side.sizes[IndexOf(price)] ELSE 0

-----------------------------------------------------------------------------
(* Updates of a book. *)

ZeroFlow == [side \in Sides |-> [added |-> 0, removed |-> 0]]

WithFlow(total, change) ==
  IF change > 0 THEN [total EXCEPT !.added = @ + change]
  ELSE [total EXCEPT !.removed = @ - change]

(* Faulty variant: sizes are compared with those from before the delta. *)
FlowOfWhole(book, d) ==
  LET One(b, listed) ==
        LET side   == listed[1][1]
            price  == listed[1][2]
            change == listed[2] - LevelSize(book[side], price)
        IN  [book |-> [b.book EXCEPT ![side] = UpdateLevel(@, price, listed[2])],
             flow |-> [b.flow EXCEPT ![side] = WithFlow(@, change)]]
  IN  FoldLeft(One, [book |-> book, flow |-> ZeroFlow], d.listed)

(* apply_delta_update: change by change. *)
ApplyDeltaUpdate(book, d) ==
  LET One(b, listed) ==
        LET side   == listed[1][1]
            price  == listed[1][2]
            change == listed[2] - LevelSize(b.book[side], price)
        IN  [book |-> [b.book EXCEPT ![side] = UpdateLevel(@, price, listed[2])],
             flow |-> [b.flow EXCEPT ![side] = WithFlow(@, change)]]
  IN  FoldLeft(One, [book |-> book, flow |-> ZeroFlow], d.listed)

(* apply_snapshot of a side: clear, then level by level. *)
LoadSide(s, side) ==
  FoldSet(LAMBDA lv, loaded : UpdateLevel(loaded, lv[2], s.levels[lv]),
          NewSide, {lv \in DOMAIN s.levels : lv[1] = side})

(* retain, then the loop of replay_history_after_snapshot. *)
LoadSides(s) ==
  FoldLeft(LAMBDA book, entry : ApplyDeltaUpdate(book, entry.delta).book,
           [side \in Sides |-> LoadSide(s, side)], NewerThan(updateBuffer, s.id))

DenseDelta(d, t) ==
  \/ /\ ApplyDelta(d, t)
     /\ LET applied == ApplyDeltaUpdate(sides, d)
        IN  sides' = applied.book /\ totals' = applied.flow
  \/ /\ \/ RejectMalformedDelta(d)
        \/ IgnoreStaleDelta(d)
        \/ RejectOverflow(d)
        \/ RejectGap(d, t)
        \/ BufferDelta(d, t)
     /\ UNCHANGED denseVars

DenseSnapshot(s, t) ==
  \/ ApplySnapshot(s, t) /\ sides' = LoadSides(s) /\ totals' = NoFlow
  \/ RejectSnapshot(s) /\ UNCHANGED denseVars

DenseInit ==
  /\ Init
  /\ sides = [side \in Sides |-> NewSide]
  /\ totals = NoFlow

DenseNext ==
  \E t \in Timestamps :
    \/ \E d \in Deltas : DenseDelta(d, t)
    \/ \E s \in Snapshots : DenseSnapshot(s, t)

DenseSpec == DenseInit /\ [][DenseNext]_<<vars, denseVars>>

-----------------------------------------------------------------------------
(* Queries.  A level is <<price, size>>, an absent value <<>>, and what is  *)
(* divided the tuple <<numerator, denominator>>.                            *)

(* The occupied levels from the best to the worst: a scan of the range. *)
LevelsOf(side) ==
  LET range   == sides[side].occupied
      upwards == IF range = <<>> THEN <<>>
                 ELSE [i \in 1 .. range[2] - range[1] + 1 |-> range[1] + i - 1]
      Visit(levels, slot) ==
        IF sides[side].sizes[slot] = 0 THEN levels
        ELSE Append(levels, <<PriceAt(slot), sides[side].sizes[slot]>>)
  IN  FoldLeft(Visit, <<>>, IF side = "Bid" THEN Reverse(upwards) ELSE upwards)

TopN(side, n) == SubSeq(LevelsOf(side), 1, Min({n, Len(LevelsOf(side))}))

SizeOf(levels) == FoldLeft(LAMBDA sum, level : sum + level[2], 0, levels)

TopNSize(side, n) == SizeOf(TopN(side, n))

(* best_level does not look at the sizes in between. *)
BestLevel(side) ==
  LET range == sides[side].occupied
      slot  == IF side = "Bid" THEN range[2] ELSE range[1]
  IN  IF range = <<>> THEN <<>> ELSE <<PriceAt(slot), sides[side].sizes[slot]>>

Nth(side, n) == IF n <= Len(TopN(side, n)) THEN TopN(side, n)[n] ELSE <<>>

(* take_while: the best levels up to the first that is beyond the price. *)
DepthUntilPrice(side, price) ==
  LET levels == LevelsOf(side)
      Within(level) == IF side = "Bid" THEN level[1] >= price ELSE level[1] <= price
  IN  TopNSize(side, Max({n \in 0 .. Len(levels) : \A i \in 1 .. n : Within(levels[i])}))

(* [from, to, total] of the whole levels that reach a size. *)
DepthUntilTotalSize(side, size) ==
  LET levels == LevelsOf(side)
      enough == {n \in DOMAIN levels : TopNSize(side, n) >= size}
  IN  IF size <= 0 \/ enough = {} THEN <<>>
      ELSE <<levels[1][1], levels[Min(enough)][1], TopNSize(side, Min(enough))>>

SizeAt(levels, prices) ==
  FoldLeft(LAMBDA sum, level : IF level[1] \in prices THEN sum + level[2] ELSE sum, 0, levels)

VolumeBetweenPrices(side, from, to) ==
  IF from >= to THEN <<>> ELSE <<SizeAt(LevelsOf(side), from .. to - 1)>>

OfQuotes(Value(_, _)) ==
  LET bid == BestLevel("Bid")
      ask == BestLevel("Ask")
  IN  IF bid = <<>> \/ ask = <<>> THEN <<>> ELSE Value(bid, ask)

MidPrice == OfQuotes(LAMBDA bid, ask : <<bid[1] + ask[1], 2>>)

Spread == OfQuotes(LAMBDA bid, ask : <<Max({ask[1] - bid[1], bid[1] - ask[1]})>>)

(* In units of 20000. *)
SpreadBps ==
  IF MidPrice = <<>> THEN <<>>
  ELSE IF MidPrice[1] = 0 THEN <<>> ELSE <<Spread[1], MidPrice[1]>>

WeightedMidPrice ==
  OfQuotes(LAMBDA bid, ask : <<bid[1] * bid[2] + ask[1] * ask[2], bid[2] + ask[2]>>)

Microprice ==
  OfQuotes(LAMBDA bid, ask : <<bid[1] * ask[2] + ask[1] * bid[2], bid[2] + ask[2]>>)

Imbalance(n) ==
  LET bids == TopNSize("Bid", n)
      asks == TopNSize("Ask", n)
  IN  IF bids + asks = 0 THEN <<>> ELSE <<bids - asks, bids + asks>>

-----------------------------------------------------------------------------
(* Properties. *)

SumOver(levels, img) == FoldSet(LAMBDA lv, sum : img[lv] + sum, 0, levels)

Better(side, lv, other) == IF side = "Bid" THEN lv[2] > other[2] ELSE lv[2] < other[2]

(* The occupied levels of a side in the image, the best first. *)
Present(side) == {lv \in Levels : lv[1] = side /\ image[lv] > 0}

Ranked(side) ==
  CHOOSE ranked \in Bijection(1 .. Cardinality(Present(side)), Present(side)) :
    \A i, j \in DOMAIN ranked : i < j => Better(side, ranked[i], ranked[j])

Quote(lv) == <<lv[2], image[lv]>>

(* The levels that any queue of the best levels adds up to. *)
DepthOfImage(side, size) ==
  LET ranked == Ranked(side)
      Total(n) == SumOver({ranked[i] : i \in 1 .. n}, image)
      enough == {n \in DOMAIN ranked : Total(n) >= size}
  IN  IF size = 0 \/ enough = {} THEN <<>>
      ELSE <<ranked[1][2], ranked[Min(enough)][2], Total(Min(enough))>>

LevelsAreOfImage(side) ==
  LET ranked == Ranked(side)
  IN  /\ LevelsOf(side) = [i \in DOMAIN ranked |-> Quote(ranked[i])]
      /\ BestLevel(side) = IF ranked = <<>> THEN <<>> ELSE Quote(ranked[1])
      /\ \A n \in 1 .. 3 :
           Nth(side, n) = IF n > Len(ranked) THEN <<>> ELSE Quote(ranked[n])

DepthsAreOfImage(side) ==
  /\ \A size \in 0 .. 4 : DepthUntilTotalSize(side, size) = DepthOfImage(side, size)
  /\ \A price \in MinPrice .. MaxPrice + 1 :
       LET below == {lv \in Levels : lv[1] = side /\ lv[2] < price}
           at    == {lv \in Levels : lv[1] = side /\ lv[2] = price}
           above == {lv \in Levels : lv[1] = side /\ lv[2] > price}
       IN  /\ LevelSize(sides[side], price) = SumOver(at, image)
           /\ DepthUntilPrice(side, price) =
                SumOver(at \cup IF side = "Bid" THEN above ELSE below, image)
           /\ VolumeBetweenPrices(side, MinPrice, price) =
                IF price = MinPrice THEN <<>> ELSE <<SumOver(below, image)>>

(* Middle prices lie between the best quotes, whichever sizes weigh them. *)
PricesAreOfQuotes ==
  IF Present("Bid") = {} \/ Present("Ask") = {}
    THEN {MidPrice, WeightedMidPrice, Microprice, Spread, SpreadBps} = {<<>>}
    ELSE LET quotes == {Ranked("Bid")[1][2], Ranked("Ask")[1][2]}
             least  == Min(quotes)
             most   == Max(quotes)
         IN  /\ \A price \in {MidPrice, WeightedMidPrice, Microprice} :
                  least * price[2] <= price[1] /\ price[1] <= most * price[2]
             /\ Spread = <<most - least>>
             /\ SpreadBps = IF most = 0 THEN <<>> ELSE <<most - least, most + least>>

(* Whatever levels are added, deleted, cleared and replayed, and whichever  *)
(* a message names twice: the dense arrays hold the visible book, the range *)
(* of occupied slots ends at occupied ones, and all that quotes and depths  *)
(* are computed from agrees with the image of a book without arrays.        *)
QuotesAreOfImage ==
  /\ \A side \in Sides : LevelsAreOfImage(side) /\ DepthsAreOfImage(side)
  /\ Imbalance(3) # <<>> <=> \E lv \in Levels : image[lv] > 0
  /\ PricesAreOfQuotes

(* What each change of a list adds to its level, or takes off it: its size  *)
(* less that of the last mention before it or, without one, of the image.   *)
StepChanges(listed, img) ==
  [i \in DOMAIN listed |->
     LET earlier == {j \in 1 .. i - 1 : listed[j][1] = listed[i][1]}
     IN  listed[i][2] - IF earlier = {} THEN img[listed[i][1]] ELSE listed[Max(earlier)][2]]

Rising(listed, img, side) ==
  {i \in DOMAIN listed : listed[i][1][1] = side /\ StepChanges(listed, img)[i] > 0}

Falling(listed, img, side) ==
  {i \in DOMAIN listed : listed[i][1][1] = side /\ StepChanges(listed, img)[i] < 0}

(* The flow of a delta accounts for all it did to a side: every mention of  *)
(* a level counts from where the mention before it left the level, so that  *)
(* what a delta adds and takes back shows as both; and what it added less   *)
(* what it removed is how the side grew.  A book has such totals exactly    *)
(* when it has a flow.                                                      *)
FlowAccountsForGrowth ==
  [][/\ (totals' = NoFlow) = (flow' = NoFlow)
     /\ totals' # NoFlow /\ lastUpdateId' # lastUpdateId =>
          LET listed == updateBuffer'[Len(updateBuffer')].delta.listed
              change == StepChanges(listed, image)
          IN  \A side \in Sides :
                LET total  == totals'[side]
                    ofSide == {lv \in Levels : lv[1] = side}
                IN  /\ total.added = SumOver(Rising(listed, image, side), change)
                    /\ total.removed = -SumOver(Falling(listed, image, side), change)
                    /\ total.added - total.removed
                         = SumOver(ofSide, image') - SumOver(ofSide, image)]_<<vars, denseVars>>

=============================================================================
