---------------------------- MODULE SyncedReplica ----------------------------
(***************************************************************************)
(* What a reader of an order book is promised, without a word about deltas,*)
(* buffers or sequence gaps: the levels it sees are at every moment the    *)
(* levels the venue had after one sequence ID, that ID never goes back,    *)
(* and a book that stopped following the venue says so until it follows it *)
(* again.                                                                  *)
(***************************************************************************)
EXTENDS Integers

CONSTANTS
  Levels,       \* the levels of a book
  MaxUpdateId,  \* the venue's last sequence ID
  Exchange      \* Exchange[id]: the venue's book after update `id'

VARIABLES
  image,   \* the visible levels
  id,      \* the ID they are the venue's levels of, -1 before the first snapshot
  synced   \* does the book claim to follow the venue?

vars == <<image, id, synced>>

Init ==
  /\ image = [lv \in Levels |-> 0]
  /\ id = -1
  /\ synced = FALSE

(* Show the venue's book after some ID, no older than the one shown. *)
Follow ==
  /\ synced' = TRUE
  /\ id' \in 0 .. MaxUpdateId
  /\ id' >= id
  /\ image' = Exchange[id']

(* The stream broke: what is shown stays, and stops claiming to be current. *)
Lose ==
  /\ synced' = FALSE
  /\ UNCHANGED <<image, id>>

Next == Follow \/ Lose

Spec == Init /\ [][Next]_vars

=============================================================================
