-------------------------- MODULE OrderBookReplica --------------------------
(***************************************************************************)
(* An order book and the venue it replicates.  The venue numbers its       *)
(* updates; Exchange[id] is its book after update `id'.  Messages may be   *)
(* lost, repeated and reordered by the network, and some are malformed,    *)
(* but what a well-formed one says of the venue is true.  Under this       *)
(* assumption the book is a replica of the venue's (SyncedReplica).        *)
(***************************************************************************)
EXTENDS OrderBook

CONSTANT Exchange

(* The levels that the venue changed by updates first..final, those that   *)
(* ended where they began included.                                        *)
Rewritten(first, final) ==
  {lv \in Levels :
    \E k \in Ids : /\ first - 1 <= k
                   /\ k <= final
                   /\ Exchange[k][lv] # Exchange[final][lv]}

(* A delta names at least the levels its range changed, with the sizes     *)
(* they have at the end of the range.                                      *)
HonestDelta(d) ==
  /\ Rewritten(d.first, d.final) \subseteq DOMAIN d.changes
  /\ \A lv \in DOMAIN d.changes : d.changes[lv] = Exchange[d.final][lv]

HonestSnapshot(s) == SnapshotImage(s) = Exchange[s.id]

ASSUME HonestFeed ==
  /\ Exchange \in [Ids -> [Levels -> Nat]]
  /\ \A d \in Deltas : WellFormed(d) => HonestDelta(d)
  /\ \A s \in Snapshots : LevelsValid(s.levels) => HonestSnapshot(s)

-----------------------------------------------------------------------------
(* Types. *)
TypeOK ==
  /\ image \in [Levels -> Nat]
  /\ syncState \in SyncStates
  /\ updateBuffer \in Seq(Entries)
  /\ Len(updateBuffer) <= BufferSize
  /\ lastUpdateId \in Ids \cup {None}
  /\ lastSnapshotUpdateId \in Ids \cup {None}
  /\ sourceTimestamp \in Timestamps \cup {None}
  /\ flow \in [Levels -> Int] \cup {NoFlow}
  /\ result \in Outcomes \cup Errors \cup {"Ok"}

(* The history that replay relies on is a chain of well-formed deltas with  *)
(* strictly increasing final IDs, all newer than the last snapshot, through *)
(* every mixture of applied, buffered and rejected deltas and snapshots.    *)
HistoryOrdered ==
  /\ \A i \in 1 .. Len(updateBuffer) :
       /\ WellFormed(updateBuffer[i].delta)
       /\ updateBuffer[i].delta.final > lastSnapshotUpdateId
  /\ \A i, j \in 1 .. Len(updateBuffer) :
       i < j => updateBuffer[i].delta.final < updateBuffer[j].delta.final

(* A live book's history holds exactly what it has applied since its last  *)
(* snapshot: its newest delta is the visible ID, and under the Contiguous  *)
(* policy no sequence ID between the snapshot and it is missing.           *)
LiveHistoryIsComplete ==
  syncState = "Live" =>
    /\ lastSnapshotUpdateId # None
    /\ lastUpdateId = IF updateBuffer = <<>> THEN lastSnapshotUpdateId ELSE BackId
    /\ ~ BrokenChain(lastSnapshotUpdateId, updateBuffer)

(* What a live book shows is the last snapshot with every delta of the     *)
(* history laid over it in order, and nothing else, under either policy.   *)
(* This is what makes replaying the history after an older snapshot safe.  *)
VisibleIsSnapshotPlusHistory ==
  syncState = "Live" =>
    image = Replayed(Exchange[lastSnapshotUpdateId], updateBuffer)

(* The source time is the time of the update that gave the visible ID,     *)
(* also when a snapshot replays it long after it was received.             *)
SourceTimeIsOfVisibleUpdate ==
  \A i \in 1 .. Len(updateBuffer) :
    updateBuffer[i].delta.final = lastUpdateId => sourceTimestamp = updateBuffer[i].at

(* The visible ID is never lost track of: it is the last snapshot's or that *)
(* of a delta in the history, and a book with a history to speak of that    *)
(* has desynchronized remembers a delta to measure later ranges against.    *)
HistoryReachesVisible ==
  /\ lastUpdateId = None <=> lastSnapshotUpdateId = None
  /\ \/ lastUpdateId = lastSnapshotUpdateId
     \/ \E i \in 1 .. Len(updateBuffer) : updateBuffer[i].delta.final = lastUpdateId
  /\ syncState = "AwaitingSnapshot" => lastUpdateId = None
  /\ syncState = "RequireResync" /\ BufferSize > 0 => updateBuffer # <<>>

(* A flow is never left over from before a snapshot: the book that has one *)
(* got to its visible ID by a delta it still remembers, and the flow only  *)
(* speaks of levels of that delta, which have the sizes it set.            *)
FlowIsOfVisibleDelta ==
  flow # NoFlow =>
    \E i \in 1 .. Len(updateBuffer) :
      LET delta == updateBuffer[i].delta
      IN  /\ delta.final = lastUpdateId
          /\ \A lv \in Levels :
               IF lv \in DOMAIN delta.changes
                 THEN image[lv] = delta.changes[lv] /\ flow[lv] <= image[lv]
                 ELSE flow[lv] = 0

(* Every range that ends at or below the visible ID is ignored as stale,   *)
(* in every synchronization state (crates/fiml-python/README.md: "Both     *)
(* policies ignore ranges ending at or below the last ID").                *)
CoveredRangesAreStale ==
  \A d \in Deltas :
    WellFormed(d) /\ lastUpdateId # None /\ d.final <= lastUpdateId => StaleDelta(d)

-----------------------------------------------------------------------------
(* A live book keeps up.  Its ID never goes back and neither does the last *)
(* snapshot's, although a snapshot older than the visible book is accepted *)
(* and replayed over.  And no call hands it a well-formed delta that leaves *)
(* it live short of that delta: one it lost because its history was full,   *)
(* or keeps but cannot show, takes it out of Live.  Else it would go on     *)
(* serving a book that the venue has left, with no error on a later call.   *)
LiveBookKeepsUp ==
  [][/\ lastUpdateId' >= lastUpdateId
     /\ lastSnapshotUpdateId' >= lastSnapshotUpdateId
     /\ syncState' = "Live" =>
          ~ \E d \in Deltas, t \in Timestamps :
              WellFormed(d) /\ d.final > lastUpdateId' /\ ReceiveDelta(d, t)]_vars

(* The book implements the replica its readers are promised. *)
Replica == INSTANCE SyncedReplica WITH id <- lastUpdateId, synced <- (syncState = "Live")

ReplicaSpec == Replica!Spec

(* A consumer that keeps fetching a covering snapshot while the book asks  *)
(* for one gets a live book: no history, full or gapped, can wedge it.     *)
EventuallyResynchronizes == syncState = "RequireResync" ~> syncState = "Live"

=============================================================================
