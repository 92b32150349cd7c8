----------------------------- MODULE MCOrderBook -----------------------------
(***************************************************************************)
(* A small venue for OrderBookReplica: one bid and one ask level, updates  *)
(* 0..MaxUpdateId that change one of them each, sizes that come back to an *)
(* earlier value and levels that disappear and reappear.                   *)
(***************************************************************************)
EXTENDS OrderBookReplica, SequencesExt

MCLevels == {<<"Bid", 99>>, <<"Ask", 101>>}

(* The venue's book after each update, as <<bid size, ask size>>. *)
Tape == <<<<1, 0>>, <<1, 1>>, <<2, 1>>, <<0, 1>>, <<0, 2>>, <<1, 2>>>>

MCExchange ==
  [id \in Ids |-> [lv \in MCLevels |-> Tape[id + 1][IF lv[1] = "Bid" THEN 1 ELSE 2]]]

(* What the venue sends for a range: the final sizes of what it changed. *)
DeltaOf(first, final) ==
  [first |-> first, final |-> final,
   changes |-> [lv \in Rewritten(first, final) |-> MCExchange[final][lv]]]

(* A snapshot does not name the levels that are not there. *)
SnapshotOf(id) ==
  [id |-> id,
   levels |-> [lv \in {l \in MCLevels : MCExchange[id][l] > 0} |-> MCExchange[id][lv]]]

(* A reversed range, a negative size and a level the storage cannot hold. *)
MalformedDeltas ==
  {[first |-> 2, final |-> 1, changes |-> <<>>],
   [first |-> 1, final |-> 2, changes |-> (<<"Bid", 99>> :> -1)],
   [first |-> 1, final |-> 2, changes |-> (<<"Bid", 98>> :> 1)]}

MCDeltas ==
  MalformedDeltas \cup {DeltaOf(first, final) : <<first, final>> \in
                          {range \in Ids \X Ids : range[1] <= range[2]}}

(* Single updates and pairs: the ranges of a venue that batches by two. *)
MCShortDeltas == {d \in MCDeltas : d.final - d.first <= 1}

MCSnapshots ==
  {SnapshotOf(id) : id \in Ids} \cup
  {[id |-> MaxUpdateId, levels |-> (<<"Ask", 101>> :> -1)]}

=============================================================================
