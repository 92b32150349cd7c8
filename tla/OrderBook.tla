------------------------------ MODULE OrderBook ------------------------------
(***************************************************************************)
(* One synchronized order book: order_book/book.rs.                        *)
(*                                                                         *)
(* A book is fed deltas, each covering an inclusive range of sequence IDs, *)
(* and snapshots, each a complete image through one ID.  Every call of     *)
(* apply_update decides first what the message does (prepare_update) and   *)
(* then does it (commit_update); nothing happens in between, so one call   *)
(* is one action here.  The six ways a delta can end and the five ways a   *)
(* snapshot can end are one action each, and `result' is what the call     *)
(* returned.                                                               *)
(*                                                                         *)
(* The two BookSides are one function `image' from the levels the storage  *)
(* can hold, a level being a pair of a side and a price, to their sizes,   *)
(* with 0 for a level that is not there.  The messages of the feed are the *)
(* constants Deltas and Snapshots: any of them may arrive at any time, any *)
(* number of times or never, so loss, duplication and reordering are all   *)
(* behaviours of this specification.                                       *)
(***************************************************************************)
EXTENDS Integers, Sequences

CONSTANTS
  Levels,        \* the (side, price) pairs the storage of the two sides can hold
  UpdatePolicy,  \* "Monotonic" or "Contiguous"
  BufferSize,    \* capacity of the replay history
  MaxUpdateId,   \* the largest sequence ID: u64::MAX in the code
  Timestamps,    \* source times a message may carry
  Deltas,        \* delta messages:    [first, final, changes]
  Snapshots      \* snapshot messages: [id, levels]

Ids == 0 .. MaxUpdateId

(* Option::None of an ID or a timestamp; it is below every Some, as in Rust. *)
None == -1

(* flow of a book that has none: Option<OrderBookFlow>::None. *)
NoFlow == <<>>

(* `changes' and `levels' map levels to absolute sizes. *)
ASSUME ParameterTypes ==
  /\ UpdatePolicy \in {"Monotonic", "Contiguous"}
  /\ BufferSize \in Nat
  /\ MaxUpdateId \in Nat
  /\ Timestamps \subseteq Nat
  /\ \A d \in Deltas :
       /\ d.first \in Ids
       /\ d.final \in Ids
       /\ \A lv \in DOMAIN d.changes : d.changes[lv] \in Int
  /\ \A s \in Snapshots :
       /\ s.id \in Ids
       /\ \A lv \in DOMAIN s.levels : s.levels[lv] \in Int

VARIABLES
  image,                 \* bids and asks: the visible levels
  syncState,             \* sync_state
  updateBuffer,          \* update_buffer: deltas with their source times, oldest first
  lastUpdateId,          \* last_update_id
  lastSnapshotUpdateId,  \* last_snapshot_update_id
  sourceTimestamp,       \* source_timestamp
  flow,                  \* flow: the size change of each level, before the sums per side
  result                 \* what the last apply_update returned

vars == <<image, syncState, updateBuffer, lastUpdateId, lastSnapshotUpdateId,
          sourceTimestamp, flow, result>>

visible == <<image, lastUpdateId, lastSnapshotUpdateId, sourceTimestamp, flow>>

SyncStates == {"AwaitingSnapshot", "Live", "RequireResync"}

Outcomes == {"Applied", "Buffered", "IgnoredStale", "Resynchronized"}

Errors == {"InvalidUpdateRange", "InvalidUpdate", "BufferCapacityExceeded",
           "SequenceGap", "StaleSnapshot", "SnapshotHistoryGap"}

Entries == [delta : Deltas, at : Timestamps]

-----------------------------------------------------------------------------
(* Level storage: what update_level, clear and apply_snapshot do to a side. *)

EmptyImage == [lv \in Levels |-> 0]

(* validate_level for every level of a message.  A level off the grid of a  *)
(* dense side, or with a negative price, is not in Levels.                  *)
LevelsValid(levels) ==
  \A lv \in DOMAIN levels : lv \in Levels /\ levels[lv] >= 0

(* Sizes are absolute: a level a message names is replaced, others stay. *)
Overwrite(img, levels) ==
  [lv \in Levels |-> IF lv \in DOMAIN levels THEN levels[lv] ELSE img[lv]]

SnapshotImage(s) == Overwrite(EmptyImage, s.levels)

(* OrderBookFlow, per level: size added (positive) or removed (negative) by *)
(* a delta that is applied to img.                                          *)
FlowOf(img, d) ==
  [lv \in Levels |-> IF lv \in DOMAIN d.changes THEN d.changes[lv] - img[lv] ELSE 0]

-----------------------------------------------------------------------------
(* Sequence IDs and the replay history. *)

(* Faulty variant: a gap of one ID goes unnoticed. *)
GapMissesOne(previous, first) ==
  /\ UpdatePolicy = "Contiguous"
  /\ previous # None
  /\ previous < MaxUpdateId
  /\ first > previous + 2

(* has_contiguous_gap.  checked_add(1) of u64::MAX is None: no gap there. *)
GapAfter(previous, first) ==
  /\ UpdatePolicy = "Contiguous"
  /\ previous # None
  /\ previous < MaxUpdateId
  /\ first > previous + 1

(* Final ID of the newest delta in the history. *)
BackId ==
  IF updateBuffer = <<>> THEN None ELSE updateBuffer[Len(updateBuffer)].delta.final

(* Faulty variant: room for one delta too many. *)
FullOneTooLate == Len(updateBuffer) > BufferSize

HistoryFull == Len(updateBuffer) = BufferSize

(* What a snapshot at `id' leaves of a history to replay: retain(final > id). *)
(* Histories are ordered by final ID, so what is kept is a suffix.            *)
FirstNewer(history, id) ==
  CHOOSE i \in 1 .. Len(history) + 1 :
    /\ \A j \in 1 .. i - 1 : history[j].delta.final <= id
    /\ i <= Len(history) => history[i].delta.final > id

NewerThan(history, id) == SubSeq(history, FirstNewer(history, id), Len(history))

(* The first delta does not continue `id', or another the one before it. *)
BrokenChain(id, history) ==
  \E i \in 1 .. Len(history) :
    GapAfter(IF i = 1 THEN id ELSE history[i-1].delta.final, history[i].delta.first)

(* Faulty variant: deltas that the snapshot covers are checked too. *)
GapInWholeHistory(id) == BrokenChain(id, updateBuffer)

(* validate_history_after_snapshot_contiguous fails. *)
HistoryGapAfter(id) == BrokenChain(id, NewerThan(updateBuffer, id))

(* The deltas of a history that name a level. *)
Touching(history, lv) ==
  {i \in 1 .. Len(history) : lv \in DOMAIN history[i].delta.changes}

(* The loop of replay_history_after_snapshot.  Sizes are absolute, so what *)
(* a level ends with is what the last delta that names it says.            *)
Replayed(img, history) ==
  [lv \in Levels |->
    LET touching == Touching(history, lv)
    IN  IF touching = {}
          THEN img[lv]
          ELSE LET last == CHOOSE i \in touching : \A j \in touching : j <= i
               IN  history[last].delta.changes[lv]]

-----------------------------------------------------------------------------
(* What a delta finds: the tests of prepare_delta_update, in its order. *)

WellFormed(d) == d.first <= d.final /\ LevelsValid(d.changes)

GapAfterHistory(d) == GapAfter(BackId, d.first)

(* Faulty variant: only the visible ID makes a delta stale. *)
StaleAgainstVisible(d) ==
  syncState = "Live" /\ d.final <= (IF lastUpdateId = None THEN 0 ELSE lastUpdateId)

(* Already in the history, or already visible in a live book. *)
StaleDelta(d) ==
  \/ d.final <= BackId
  \/ /\ ~ GapAfterHistory(d)
     /\ syncState = "Live"
     /\ d.final <= (IF lastUpdateId = None THEN 0 ELSE lastUpdateId)

FreshDelta(d) == WellFormed(d) /\ ~ StaleDelta(d)

(* Faulty variant: an empty history never shows a gap. *)
GapAfterHistoryOnly(d) == GapAfterHistory(d)

DeltaGap(d) ==
  \/ GapAfterHistory(d)
  \/ syncState = "Live" /\ GapAfter(lastUpdateId, d.first)

(* Faulty variant: only deltas that cannot be shown yet are kept. *)
RememberUnlessShown(d, t) ==
  updateBuffer' = IF syncState = "Live" /\ ~ DeltaGap(d)
                    THEN updateBuffer
                    ELSE Append(updateBuffer, [delta |-> d, at |-> t])

Remember(d, t) == updateBuffer' = Append(updateBuffer, [delta |-> d, at |-> t])

-----------------------------------------------------------------------------
(* Deltas: one action for each way a call can end. *)

RejectMalformedDelta(d) ==
  /\ ~ WellFormed(d)
  /\ result' = IF d.first > d.final THEN "InvalidUpdateRange" ELSE "InvalidUpdate"
  /\ UNCHANGED <<visible, syncState, updateBuffer>>

IgnoreStaleDelta(d) ==
  /\ WellFormed(d)
  /\ StaleDelta(d)
  /\ result' = "IgnoredStale"
  /\ UNCHANGED <<visible, syncState, updateBuffer>>

(* Faulty variant: the book goes on as if it had not lost the delta. *)
OverflowStaysLive(d) ==
  /\ FreshDelta(d)
  /\ HistoryFull
  /\ result' = "BufferCapacityExceeded"
  /\ UNCHANGED <<visible, syncState, updateBuffer>>

(* reject_full_history_buffer: the delta is lost, whatever the state was. *)
RejectOverflow(d) ==
  /\ FreshDelta(d)
  /\ HistoryFull
  /\ syncState' = "RequireResync"
  /\ result' = "BufferCapacityExceeded"
  /\ UNCHANGED <<visible, updateBuffer>>

(* An error, and yet the delta is kept for a later snapshot to replay. *)
RejectGap(d, t) ==
  /\ FreshDelta(d)
  /\ ~ HistoryFull
  /\ DeltaGap(d)
  /\ syncState' = IF syncState = "Live" THEN "RequireResync" ELSE syncState
  /\ Remember(d, t)
  /\ result' = "SequenceGap"
  /\ UNCHANGED visible

BufferDelta(d, t) ==
  /\ FreshDelta(d)
  /\ ~ HistoryFull
  /\ ~ DeltaGap(d)
  /\ syncState # "Live"
  /\ Remember(d, t)
  /\ result' = "Buffered"
  /\ UNCHANGED <<visible, syncState>>

ApplyDelta(d, t) ==
  /\ FreshDelta(d)
  /\ ~ HistoryFull
  /\ ~ DeltaGap(d)
  /\ syncState = "Live"
  /\ flow' = FlowOf(image, d)
  /\ image' = Overwrite(image, d.changes)
  /\ lastUpdateId' = d.final
  /\ sourceTimestamp' = t
  /\ Remember(d, t)
  /\ result' = "Applied"
  /\ UNCHANGED <<syncState, lastSnapshotUpdateId>>

ReceiveDelta(d, t) ==
  \/ RejectMalformedDelta(d)
  \/ IgnoreStaleDelta(d)
  \/ RejectOverflow(d)
  \/ RejectGap(d, t)
  \/ BufferDelta(d, t)
  \/ ApplyDelta(d, t)

-----------------------------------------------------------------------------
(* Snapshots: the tests of prepare_snapshot_update, then apply_snapshot. *)

StaleSnapshot(s) == lastSnapshotUpdateId # None /\ s.id <= lastSnapshotUpdateId

SnapshotError(s) ==
  IF ~ LevelsValid(s.levels) THEN "InvalidUpdate"
  ELSE IF StaleSnapshot(s) THEN "StaleSnapshot"
  ELSE "SnapshotHistoryGap"

SnapshotAccepted(s) ==
  /\ LevelsValid(s.levels)
  /\ ~ StaleSnapshot(s)
  /\ ~ HistoryGapAfter(s.id)

RejectSnapshot(s) ==
  /\ ~ SnapshotAccepted(s)
  /\ result' = SnapshotError(s)
  /\ UNCHANGED <<visible, syncState, updateBuffer>>

(* The visible ID and source time: those of the last delta replayed, or of *)
(* the snapshot when there is none.                                        *)
NewestId(history, id) ==
  IF history = <<>> THEN id ELSE history[Len(history)].delta.final

(* Faulty variant: replayed deltas do not count. *)
SnapshotTimeOnly(history, t) == t

NewestTime(history, t) ==
  IF history = <<>> THEN t ELSE history[Len(history)].at

Replay(img, s, t, history) ==
  /\ image' = Replayed(img, history)
  /\ updateBuffer' = history
  /\ lastUpdateId' = NewestId(history, s.id)
  /\ lastSnapshotUpdateId' = s.id
  /\ sourceTimestamp' = NewestTime(history, t)
  /\ syncState' = "Live"

(* Faulty variants: levels the snapshot does not name survive, the flow of  *)
(* the last delta stays.                                                    *)
LoadOverOldImage(s, t) ==
  /\ Replay(Overwrite(image, s.levels), s, t, NewerThan(updateBuffer, s.id))
  /\ flow' = NoFlow

LoadKeepsFlow(s, t) ==
  /\ Replay(SnapshotImage(s), s, t, NewerThan(updateBuffer, s.id))
  /\ flow' = flow

(* The snapshot's image and, on top of it, every newer delta kept. *)
LoadSnapshot(s, t) ==
  /\ Replay(SnapshotImage(s), s, t, NewerThan(updateBuffer, s.id))
  /\ flow' = NoFlow

ApplySnapshot(s, t) ==
  /\ SnapshotAccepted(s)
  /\ LoadSnapshot(s, t)
  /\ result' = IF syncState = "RequireResync" THEN "Resynchronized" ELSE "Applied"

ReceiveSnapshot(s, t) == RejectSnapshot(s) \/ ApplySnapshot(s, t)

-----------------------------------------------------------------------------
Init ==
  /\ image = EmptyImage
  /\ syncState = "AwaitingSnapshot"
  /\ updateBuffer = <<>>
  /\ lastUpdateId = None
  /\ lastSnapshotUpdateId = None
  /\ sourceTimestamp = None
  /\ flow = NoFlow
  /\ result = "Ok"

Next ==
  \E t \in Timestamps :
    \/ \E d \in Deltas : ReceiveDelta(d, t)
    \/ \E s \in Snapshots : ReceiveSnapshot(s, t)

Spec == Init /\ [][Next]_vars

(* The consumer's part: when the book asks for it, it fetches a snapshot    *)
(* that covers everything received so far.  Nothing in the book does this.  *)
FetchSnapshot ==
  /\ syncState = "RequireResync"
  /\ \E s \in Snapshots, t \in Timestamps :
       /\ LevelsValid(s.levels)
       /\ s.id > lastSnapshotUpdateId
       /\ s.id >= BackId
       /\ ReceiveSnapshot(s, t)

FairSpec == Spec /\ WF_vars(FetchSnapshot)

=============================================================================
