------------------------------ MODULE MCDenseBook ------------------------------
(***************************************************************************)
(* A grid of three ticks and a venue whose bids leave holes, lose their    *)
(* best and their worst level and vanish, while an ask comes and goes.     *)
(* What the venue batches it lists update by update, so that a range names *)
(* a level twice if both of its updates changed it.                        *)
(***************************************************************************)
EXTENDS DenseBook

MCLevels == Sides \X {2, 4, 6}

(* The venue's book after each update: sizes of the bids at 2, 4 and 6 and  *)
(* of the asks at 4 and 6.                                                  *)
Tape == <<<<1, 2, 1, 0, 1>>, <<1, 0, 1, 0, 1>>, <<1, 0, 0, 0, 2>>,
          <<0, 0, 2, 1, 2>>, <<0, 0, 0, 1, 0>>, <<1, 0, 0, 0, 0>>>>

SizeAfter(id, lv) ==
  IF lv[1] = "Bid" THEN Tape[id + 1][lv[2] \div 2]
  ELSE IF lv[2] = 2 THEN 0 ELSE Tape[id + 1][lv[2] \div 2 + 2]

MCExchange == [id \in Ids |-> [lv \in MCLevels |-> SizeAfter(id, lv)]]

ChangedBy(id) ==
  IF id = 0 THEN {lv \in MCLevels : SizeAfter(0, lv) > 0}
  ELSE {lv \in MCLevels : SizeAfter(id, lv) # SizeAfter(id - 1, lv)}

ListOf(id) ==
  LET levels == SetToSeq(ChangedBy(id))
  IN  [i \in DOMAIN levels |-> <<levels[i], SizeAfter(id, levels[i])>>]

DeltaOf(first, final) ==
  [first |-> first, final |-> final,
   listed |-> FlattenSeq([k \in 1 .. final - first + 1 |-> ListOf(first + k - 1)]),
   changes |-> [lv \in {l \in MCLevels : \E id \in first .. final : l \in ChangedBy(id)} |->
                  SizeAfter(final, lv)]]

(* Off the grid, and out of it, beside a level that is fine. *)
Misplaced(price) ==
  [first |-> 1, final |-> 2, listed |-> << <<<<"Bid", 4>>, 1>>, <<<<"Bid", price>>, 1>> >>,
   changes |-> (<<"Bid", 4>> :> 1 @@ <<"Bid", price>> :> 1)]

MCDeltas ==
  {Misplaced(3), Misplaced(8)}
    \cup {DeltaOf(first, final) :
            <<first, final>> \in {r \in Ids \X Ids : r[1] <= r[2] /\ r[2] <= r[1] + 1}}

MCSnapshots ==
  {[id |-> id, levels |-> [lv \in {l \in MCLevels : SizeAfter(id, l) > 0} |-> SizeAfter(id, lv)]] :
     id \in Ids}
  \cup {[id |-> MaxUpdateId, levels |-> (<<"Ask", 7>> :> 1)]}

(* Grids that DenseBookConfig does not accept. *)
ASSUME InvalidGrids ==
  /\ LevelCount(0, 0, 4) = 0 /\ LevelCount(2, 6, 4) = 0
  /\ LevelCount(2, 1, 4) = 0 /\ LevelCount(2, 0, 5) = 0 /\ LevelCount(2, -2, 4) = 0

=============================================================================
