--------------------------- MODULE OrderBookProofs ---------------------------
(***************************************************************************)
(* Proofs about OrderBookReplica, for every set of levels, both policies,  *)
(* every history capacity, every stream of messages and every venue, and   *)
(* about DenseBook, which holds the images of its visible side in arrays,  *)
(* for every grid and every order in which the changes of a delta and the  *)
(* levels of a snapshot are applied.                                       *)
(*                                                                         *)
(* First come lemmas about histories, then what replay does to an image    *)
(* and what an unbroken chain of deltas says of the venue, then the        *)
(* inductive invariant IInv action by action, and the replica's theorems.  *)
(*                                                                         *)
(* Then the grid, one side, a book of two sides with what one change does  *)
(* to the image it holds, a delta, a snapshot with its replayed history,   *)
(* and the invariant that the sides hold the visible image: DenseBook is   *)
(* OrderBookReplica with arrays for images.  Last the queries: the scan of *)
(* a side is the ranking of the visible levels, and what is read off the   *)
(* scan is what the ranking says.                                          *)
(***************************************************************************)
EXTENDS DenseBook, NumberLemmas, SequenceTheorems, FunctionTheorems

-----------------------------------------------------------------------------
(* Histories: sequences of well-formed deltas with their source times. *)
WellFormedHistory(history) ==
  /\ history \in Seq(Entries)
  /\ \A i \in 1 .. Len(history) : WellFormed(history[i].delta)

(* The fields of a history entry. *)
LEMMA EntryTypes ==
  ASSUME NEW e \in Entries
  PROVE  /\ e.delta \in Deltas
         /\ e.at \in Timestamps
         /\ e.at \in Nat
         /\ e.delta.first \in Ids
         /\ e.delta.final \in Ids
BY ParameterTypes DEF Entries

(* Sequence IDs are numbers. *)
LEMMA IdsAreNaturals == \A id \in Ids : id \in Nat /\ id \in Int
BY ParameterTypes DEF Ids

(* What one delta lays over an image is an image. *)
LEMMA OverwriteType ==
  ASSUME NEW img \in [Levels -> Nat], NEW d \in Deltas, WellFormed(d)
  PROVE  Overwrite(img, d.changes) \in [Levels -> Nat]
<1>1. \A lv \in DOMAIN d.changes : d.changes[lv] \in Nat
  BY ParameterTypes DEF WellFormed, LevelsValid
<1> QED
  BY <1>1 DEF Overwrite

(* The delta that decides a level's size: the newest that names it. *)
LEMMA NewestTouching ==
  ASSUME NEW history \in Seq(Entries), NEW lv, Touching(history, lv) # {}
  PROVE  LET touching == Touching(history, lv)
             last == CHOOSE i \in touching : \A j \in touching : j <= i
         IN  /\ last \in touching
             /\ last \in 1 .. Len(history)
             /\ lv \in DOMAIN history[last].delta.changes
             /\ \A j \in touching : j <= last
<1> DEFINE touching == Touching(history, lv)
<1>1. Len(history) \in Nat
  BY LenProperties
<1>2. touching \in SUBSET (1 .. Len(history)) /\ touching # {}
  BY DEF Touching
<1>3. \E i \in touching : \A j \in touching : j <= i
  <2> HIDE DEF touching
  <2> QED BY <1>1, <1>2, GreatestIndex
<1>4. \A i \in touching : lv \in DOMAIN history[i].delta.changes
  BY DEF Touching
<1> QED
  BY <1>2, <1>3, <1>4

LEMMA ReplayedType ==
  ASSUME NEW img \in [Levels -> Nat], NEW history, WellFormedHistory(history)
  PROVE  Replayed(img, history) \in [Levels -> Nat]
<1> SUFFICES ASSUME NEW lv \in Levels
             PROVE  Replayed(img, history)[lv] \in Nat
  BY DEF Replayed
<1> DEFINE touching == Touching(history, lv)
           last == CHOOSE i \in touching : \A j \in touching : j <= i
<1>1. CASE touching = {}
  BY <1>1 DEF Replayed
<1>2. CASE touching # {}
  <2>1. last \in 1 .. Len(history) /\ lv \in DOMAIN history[last].delta.changes
    BY <1>2, NewestTouching DEF WellFormedHistory
  <2>2. Replayed(img, history)[lv] = history[last].delta.changes[lv]
    BY <1>2 DEF Replayed
  <2>3. history[last] \in Entries
    BY <2>1, ElementOfSeq DEF WellFormedHistory
  <2>4. history[last].delta \in Deltas /\ WellFormed(history[last].delta)
    BY <2>1, <2>3, EntryTypes DEF WellFormedHistory
  <2>5. history[last].delta.changes[lv] \in Nat
    BY <2>1, <2>4, ParameterTypes DEF WellFormed, LevelsValid
  <2> QED
    BY <2>2, <2>5
<1> QED
  BY <1>1, <1>2

(* Replaying one more delta is laying it over what was replayed before:    *)
(* the loop of replay_history_after_snapshot, one iteration.               *)
LEMMA ReplayedAppend ==
  ASSUME NEW img, NEW history \in Seq(Entries), NEW e \in Entries
  PROVE  Replayed(img, Append(history, e)) = Overwrite(Replayed(img, history), e.delta.changes)
<1> DEFINE longer == Append(history, e)
           n == Len(history)
<1>1. /\ n \in Nat
      /\ longer \in Seq(Entries)
      /\ Len(longer) = n + 1
      /\ \A i \in 1 .. n : longer[i] = history[i]
      /\ longer[n + 1] = e
  BY LenProperties, AppendProperties
<1> HIDE DEF longer, n
<1> SUFFICES ASSUME NEW lv \in Levels
             PROVE  Replayed(img, longer)[lv]
                      = Overwrite(Replayed(img, history), e.delta.changes)[lv]
  BY DEF Replayed, Overwrite, longer
<1> DEFINE old == Touching(history, lv)
           new == Touching(longer, lv)
           last(touching) == CHOOSE i \in touching : \A j \in touching : j <= i
<1>2. old = {i \in 1 .. n : lv \in DOMAIN history[i].delta.changes}
  BY DEF Touching, n
<1>3. new = {i \in 1 .. n + 1 : lv \in DOMAIN longer[i].delta.changes}
  BY <1>1 DEF Touching
<1>4. Replayed(img, longer)[lv]
        = IF new = {} THEN img[lv] ELSE longer[last(new)].delta.changes[lv]
  BY DEF Replayed
<1>5. Replayed(img, history)[lv]
        = IF old = {} THEN img[lv] ELSE history[last(old)].delta.changes[lv]
  BY DEF Replayed
<1>6. Overwrite(Replayed(img, history), e.delta.changes)[lv]
        = IF lv \in DOMAIN e.delta.changes
            THEN e.delta.changes[lv] ELSE Replayed(img, history)[lv]
  BY DEF Overwrite
<1>7. CASE lv \in DOMAIN e.delta.changes
  <2>1. n + 1 \in new
    BY <1>1, <1>3, <1>7
  <2>2. last(new) \in 1 .. n + 1 /\ \A j \in new : j <= last(new)
    BY <1>1, <2>1, NewestTouching
  <2>3. last(new) = n + 1
    <3> HIDE DEF last
    <3> QED BY <1>1, <2>1, <2>2
  <2> QED
    BY <1>1, <1>4, <1>6, <1>7, <2>1, <2>3
<1>8. CASE lv \notin DOMAIN e.delta.changes
  <2>1. new = old
    <3>1. n + 1 \notin new
      BY <1>1, <1>3, <1>8
    <3>2. \A i \in 1 .. n + 1 : i \in 1 .. n \/ i = n + 1
      BY <1>1
    <3>3. \A i \in 1 .. n : i \in 1 .. n + 1
      BY <1>1
    <3> QED
      BY <1>1, <1>2, <1>3, <3>1, <3>2, <3>3
  <2>2. CASE old = {}
    BY <1>4, <1>5, <1>6, <1>8, <2>1, <2>2
  <2>3. CASE old # {}
    <3>1. last(old) \in 1 .. n
      BY <2>3, NewestTouching DEF n
    <3>2. longer[last(old)] = history[last(old)]
      <4> HIDE DEF last
      <4> QED BY <1>1, <3>1
    <3> QED
      BY <1>4, <1>5, <1>6, <1>8, <2>1, <2>3, <3>2
  <2> QED
    BY <2>2, <2>3
<1> QED
  BY <1>7, <1>8

(* Nothing replayed changes nothing. *)
LEMMA ReplayedEmpty ==
  ASSUME NEW img \in [Levels -> Nat]
  PROVE  Replayed(img, <<>>) = img
<1>1. \A lv \in Levels : Touching(<<>>, lv) = {}
  BY DEF Touching
<1> QED
  BY <1>1 DEF Replayed

-----------------------------------------------------------------------------
(* The deltas a snapshot leaves to replay. *)
OrderedHistory(history) ==
  \A i, j \in 1 .. Len(history) :
    i < j => history[i].delta.final < history[j].delta.final

(* An ordered history has a place where the deltas newer than an ID begin. *)
LEMMA FirstNewerExists ==
  ASSUME NEW history \in Seq(Entries), OrderedHistory(history), NEW id \in Int
  PROVE  /\ FirstNewer(history, id) \in 1 .. Len(history) + 1
         /\ \A j \in 1 .. FirstNewer(history, id) - 1 : history[j].delta.final <= id
         /\ FirstNewer(history, id) <= Len(history)
              => history[FirstNewer(history, id)].delta.final > id
<1> DEFINE n == Len(history)
           newer == {i \in 1 .. n : history[i].delta.final > id}
<1>1. n \in Nat
  BY LenProperties
<1>2. \A i \in 1 .. n : history[i].delta.final \in Nat
  BY ElementOfSeq, EntryTypes, IdsAreNaturals
<1>3. \E i \in 1 .. n + 1 :
        /\ \A j \in 1 .. i - 1 : history[j].delta.final <= id
        /\ i <= n => history[i].delta.final > id
  <2> HIDE DEF n
  <2>1. CASE newer = {}
    <3>1. \A j \in 1 .. n : history[j].delta.final <= id
      BY <1>2, <2>1
    <3>2. n + 1 \in 1 .. n + 1 /\ (n + 1) - 1 = n /\ ~ (n + 1 <= n)
      BY <1>1
    <3> QED
      BY <3>1, <3>2
  <2>2. CASE newer # {}
    <3>1. newer \in SUBSET Nat
      BY <1>1
    <3>2. PICK i \in newer : \A j \in newer : i <= j
      BY <2>2, <3>1, LeastElement
    <3>3. i \in 1 .. n /\ history[i].delta.final > id
      BY <3>2
    <3>4. ASSUME NEW j \in 1 .. i - 1
          PROVE  history[j].delta.final <= id
      <4>1. j \in 1 .. n /\ ~ (i <= j)
        BY <1>1, <3>3
      <4>2. j \notin newer
        BY <3>2, <4>1
      <4> QED
        BY <1>2, <4>1, <4>2
    <3>5. i \in 1 .. n + 1
      BY <1>1, <3>3
    <3> QED
      BY <3>3, <3>4, <3>5
  <2> QED
    BY <2>1, <2>2
<1> QED
  BY <1>3 DEF FirstNewer

(* What is kept of an ordered history is ordered, holds what is newer than *)
(* the ID and nothing else, and ends as the history ends.                  *)
LEMMA NewerThanFacts ==
  ASSUME NEW history, WellFormedHistory(history), OrderedHistory(history), NEW id \in Int
  PROVE  LET kept == NewerThan(history, id)
         IN  /\ WellFormedHistory(kept)
             /\ OrderedHistory(kept)
             /\ Len(kept) <= Len(history)
             /\ \A i \in 1 .. Len(kept) : kept[i].delta.final > id
             /\ \A i \in 1 .. Len(kept) :
                  \E j \in 1 .. Len(history) : kept[i] = history[j]
             /\ \A j \in 1 .. Len(history) :
                  history[j].delta.final > id
                    => \E i \in 1 .. Len(kept) : kept[i] = history[j]
<1> DEFINE n == Len(history)
           k == FirstNewer(history, id)
           kept == NewerThan(history, id)
<1>1. n \in Nat /\ history \in Seq(Entries)
  BY LenProperties DEF WellFormedHistory
<1>2. \A i \in 1 .. n : history[i].delta.final \in Nat /\ history[i] \in Entries
  BY <1>1, ElementOfSeq, EntryTypes, IdsAreNaturals
<1>3. /\ k \in 1 .. n + 1
      /\ \A j \in 1 .. k - 1 : history[j].delta.final <= id
      /\ k <= n => history[k].delta.final > id
  BY <1>1, FirstNewerExists
<1>4. /\ kept \in Seq(Entries)
      /\ Len(kept) = (n - k) + 1
      /\ \A i \in 1 .. (n - k) + 1 : kept[i] = history[k + i - 1]
  <2>1. \A i \in k .. n : history[i] \in Entries
    <3> HIDE DEF n, k
    <3> QED BY <1>1, <1>2, <1>3
  <2>2. kept = SubSeq(history, k, n)
    BY DEF NewerThan
  <2>3. (n - k) + 1 \in Nat
    <3> HIDE DEF n, k
    <3> QED BY <1>1, <1>3
  <2> HIDE DEF n, k, kept
  <2>4. /\ SubSeq(history, k, n) = [i \in 1 .. (n - k) + 1 |-> history[i + k - 1]]
    BY <1>1, <1>3 DEF n
  <2>5. \A i \in 1 .. (n - k) + 1 : i + k - 1 = k + i - 1 /\ i + k - 1 \in k .. n
    BY <1>1, <1>3
  <2>6. kept \in [1 .. (n - k) + 1 -> Entries]
    BY <2>1, <2>2, <2>4, <2>5
  <2>7. kept \in Seq(Entries)
    BY <2>3, <2>6
  <2>8. DOMAIN kept = 1 .. (n - k) + 1
    BY <2>6
  <2>9. Len(kept) = (n - k) + 1
    BY <2>3, <2>7, <2>8, LenProperties
  <2> QED
    BY <2>2, <2>4, <2>5, <2>7, <2>9
<1> HIDE DEF k, kept
<1>5. \A i \in 1 .. Len(kept) :
        k + i - 1 \in k .. n /\ k + i - 1 \in 1 .. n /\ kept[i] = history[k + i - 1]
  <2> HIDE DEF n
  <2> QED BY <1>1, <1>3, <1>4
<1>6. \A j \in k .. n : history[j].delta.final > id
  <2> SUFFICES ASSUME NEW j \in k .. n
               PROVE  history[j].delta.final > id
    OBVIOUS
  <2>1. k \in 1 .. n /\ j \in 1 .. n /\ (k = j \/ k < j)
    <3> HIDE DEF n
    <3> QED BY <1>1, <1>3
  <2>2. history[k].delta.final > id
    BY <1>3, <2>1
  <2>3. k < j => history[k].delta.final < history[j].delta.final
    BY <2>1 DEF OrderedHistory
  <2> QED
    BY <1>2, <2>1, <2>2, <2>3
<1>7. OrderedHistory(kept)
  <2> SUFFICES ASSUME NEW i \in 1 .. Len(kept), NEW j \in 1 .. Len(kept), i < j
               PROVE  kept[i].delta.final < kept[j].delta.final
    BY DEF OrderedHistory
  <2>1. k + i - 1 < k + j - 1
    BY <1>3, <1>4, <1>1
  <2> QED
    BY <1>5, <2>1 DEF OrderedHistory
<1>8. \A i \in 1 .. Len(kept) : kept[i].delta.final > id
  BY <1>5, <1>6
<1>9. \A i \in 1 .. Len(kept) : WellFormed(kept[i].delta)
  BY <1>5 DEF WellFormedHistory
<1>10. ASSUME NEW j \in 1 .. n, history[j].delta.final > id
       PROVE  \E i \in 1 .. Len(kept) : kept[i] = history[j]
  <2>1. j \in 1 .. k - 1 => history[j].delta.final <= id
    BY <1>3
  <2>2. j \in k .. n
    <3>1. j \notin 1 .. k - 1
      BY <1>2, <1>10, <2>1
    <3> HIDE DEF n
    <3> QED BY <1>1, <1>3, <1>10, <3>1
  <2>3. j - k + 1 \in 1 .. Len(kept) /\ k + (j - k + 1) - 1 = j
    <3> HIDE DEF n
    <3> QED BY <1>1, <1>3, <1>4, <2>2
  <2> QED
    BY <1>5, <2>3
<1>11. Len(kept) <= n
  <2> HIDE DEF n
  <2> QED BY <1>1, <1>3, <1>4
<1> QED
  BY <1>4, <1>5, <1>7, <1>8, <1>9, <1>10, <1>11 DEF WellFormedHistory, kept

-----------------------------------------------------------------------------
(* What a chain of deltas says of the venue. *)

(* Where a history has got to after its first i deltas. *)
Reached(id, history, i) == IF i = 0 THEN id ELSE history[i].delta.final

(* A level that no delta of an unbroken chain names after the first k did  *)
(* not change at the venue in between.                                     *)
LEMMA UntouchedUnchanged ==
  ASSUME NEW history, WellFormedHistory(history), OrderedHistory(history),
         NEW id \in Ids,
         \A i \in 1 .. Len(history) : history[i].delta.final > id,
         UpdatePolicy = "Contiguous", ~ BrokenChain(id, history),
         NEW lv \in Levels, NEW k \in 0 .. Len(history),
         \A i \in 1 .. Len(history) : k < i => lv \notin DOMAIN history[i].delta.changes
  PROVE  Exchange[Reached(id, history, Len(history))][lv]
           = Exchange[Reached(id, history, k)][lv]
<1> DEFINE n == Len(history)
           g(i) == Reached(id, history, i)
           differ == {i \in 0 .. n : k <= i /\ Exchange[g(i)][lv] # Exchange[g(k)][lv]}
<1>1. n \in Nat /\ history \in Seq(Entries)
  BY LenProperties DEF WellFormedHistory
<1>2. \A i \in 1 .. n : /\ history[i] \in Entries
                        /\ history[i].delta \in Deltas
                        /\ history[i].delta.first \in Ids
                        /\ history[i].delta.final \in Ids
                        /\ WellFormed(history[i].delta)
  BY <1>1, ElementOfSeq, EntryTypes DEF WellFormedHistory
<1>3. \A i \in 1 .. n : g(i) = history[i].delta.final
  BY <1>1 DEF Reached
<1>4. g(0) = id
  BY DEF Reached
<1>5. ASSUME NEW i \in 1 .. n, k < i
      PROVE  Exchange[g(i)][lv] = Exchange[g(i - 1)][lv]
  <2> DEFINE d == history[i].delta
             before == g(i - 1)
  <2>1. before \in Ids /\ before < d.final
    <3>1. CASE i = 1
      BY <1>2, <1>4, <3>1
    <3>2. CASE i # 1
      <4>1. i - 1 \in 1 .. n /\ i - 1 < i
        <5> HIDE DEF n
        <5> QED BY <1>1, <3>2
      <4>2. before = history[i - 1].delta.final
        BY <1>3, <4>1
      <4> QED
        BY <1>2, <4>1, <4>2 DEF OrderedHistory
    <3> QED
      BY <3>1, <3>2
  <2>2. before = IF i = 1 THEN id ELSE history[i-1].delta.final
    BY <1>1 DEF Reached
  <2>3. ~ GapAfter(before, d.first)
    BY <2>2 DEF BrokenChain
  <2> HIDE DEF before
  <2>4. d.first - 1 <= before
    BY <1>2, <2>1, <2>3, ParameterTypes DEF GapAfter, Ids, None
  <2>5. lv \notin Rewritten(d.first, d.final)
    <3>1. lv \notin DOMAIN d.changes
      BY <1>5
    <3> QED
      BY <1>2, <3>1, HonestFeed DEF HonestDelta
  <2>6. Exchange[before][lv] = Exchange[d.final][lv]
    <3>1. before <= d.final
      <4>1. d.final \in Nat /\ before \in Nat
        BY <1>2, <2>1, IdsAreNaturals
      <4> QED
        BY <2>1, <4>1
    <3> QED
      BY <2>1, <2>4, <2>5, <3>1 DEF Rewritten
  <2> QED
    BY <1>3, <2>6 DEF before
<1>6. SUFFICES differ = {}
  <2>1. n \in 0 .. n /\ k <= n
    BY <1>1
  <2>2. n \notin differ => Exchange[g(n)][lv] = Exchange[g(k)][lv]
    BY <2>1
  <2> QED
    BY <2>2
<1>7. ASSUME differ # {}
      PROVE  FALSE
  <2>1. differ \in SUBSET Nat
    OBVIOUS
  <2>2. PICK m \in differ : \A i \in differ : m <= i
    <3> HIDE DEF differ
    <3> QED BY <1>7, <2>1, LeastElement
  <2>3. m \in 0 .. n /\ k <= m /\ Exchange[g(m)][lv] # Exchange[g(k)][lv]
    BY <2>2
  <2>4. m # k
    BY <2>3
  <2> HIDE DEF g
  <2>5. m \in 1 .. n /\ k < m /\ m - 1 \in 0 .. n /\ k <= m - 1 /\ ~ (m <= m - 1)
    <3> HIDE DEF n
    <3> QED BY <1>1, <2>3, <2>4
  <2>6. Exchange[g(m)][lv] = Exchange[g(m - 1)][lv]
    BY <1>5, <2>5
  <2>7. m - 1 \in differ
    BY <2>3, <2>5, <2>6
  <2> QED
    BY <2>2, <2>5, <2>7
<1> QED
  BY <1>7

(* An unbroken chain that starts where the venue's book was at `id' ends   *)
(* with the venue's book after its last delta: the reason a contiguous     *)
(* book may replay its history over an older snapshot.                     *)
LEMMA ChainReplaysVenue ==
  ASSUME NEW history, WellFormedHistory(history), OrderedHistory(history),
         NEW id \in Ids,
         \A i \in 1 .. Len(history) : history[i].delta.final > id,
         UpdatePolicy = "Contiguous", ~ BrokenChain(id, history)
  PROVE  Replayed(Exchange[id], history) = Exchange[Reached(id, history, Len(history))]
<1> DEFINE n == Len(history)
           fin == Reached(id, history, n)
<1>1. n \in Nat /\ history \in Seq(Entries)
  BY LenProperties DEF WellFormedHistory
<1>2. \A i \in 1 .. n : /\ history[i] \in Entries
                        /\ history[i].delta \in Deltas
                        /\ history[i].delta.final \in Ids
                        /\ WellFormed(history[i].delta)
  BY <1>1, ElementOfSeq, EntryTypes DEF WellFormedHistory
<1>3. fin \in Ids
  BY <1>1, <1>2 DEF Reached
<1>4. Exchange[fin] \in [Levels -> Nat]
  BY <1>3, HonestFeed
<1>5. ASSUME NEW lv \in Levels
      PROVE  Replayed(Exchange[id], history)[lv] = Exchange[fin][lv]
  <2> DEFINE touching == Touching(history, lv)
             last == CHOOSE i \in touching : \A j \in touching : j <= i
  <2>1. \A i \in 1 .. n : lv \in DOMAIN history[i].delta.changes => i \in touching
    BY DEF Touching
  <2>2. CASE touching = {}
    <3>1. Replayed(Exchange[id], history)[lv] = Exchange[id][lv]
      BY <2>2 DEF Replayed
    <3>2. 0 \in 0 .. n
      <4> HIDE DEF n
      <4> QED BY <1>1
    <3>3. \A i \in 1 .. n : 0 < i => lv \notin DOMAIN history[i].delta.changes
      BY <2>1, <2>2
    <3>4. Exchange[fin][lv] = Exchange[Reached(id, history, 0)][lv]
      BY <3>2, <3>3, UntouchedUnchanged
    <3> QED
      BY <3>1, <3>4 DEF Reached
  <2>3. CASE touching # {}
    <3>1. /\ last \in 1 .. n
          /\ lv \in DOMAIN history[last].delta.changes
          /\ \A j \in touching : j <= last
      BY <1>1, <2>3, NewestTouching
    <3>2. Replayed(Exchange[id], history)[lv] = history[last].delta.changes[lv]
      BY <2>3 DEF Replayed
    <3> HIDE DEF last
    <3>3. history[last].delta.changes[lv] = Exchange[history[last].delta.final][lv]
      BY <1>2, <3>1, HonestFeed DEF HonestDelta
    <3>4. last \in 0 .. n /\ last # 0
      <4> HIDE DEF n
      <4> QED BY <1>1, <3>1
    <3>5. \A i \in 1 .. n : last < i => lv \notin DOMAIN history[i].delta.changes
      <4> HIDE DEF n, touching
      <4> QED BY <1>1, <2>1, <3>1
    <3>6. Exchange[fin][lv] = Exchange[Reached(id, history, last)][lv]
      BY <3>4, <3>5, UntouchedUnchanged
    <3> QED
      BY <3>2, <3>3, <3>4, <3>6 DEF Reached
  <2> QED
    BY <2>2, <2>3
<1> QED
  BY <1>4, <1>5 DEF Replayed

-----------------------------------------------------------------------------
(* The inductive invariant.  None of its parts is inductive alone: that a   *)
(* new delta is newer than the visible ID needs HistoryReachesVisible, what *)
(* ApplyDelta shows needs LiveHistoryIsComplete, and all need the order of  *)
(* the history.                                                             *)
IInv ==
  /\ TypeOK
  /\ HistoryOrdered
  /\ LiveHistoryIsComplete
  /\ VisibleIsSnapshotPlusHistory
  /\ SourceTimeIsOfVisibleUpdate
  /\ HistoryReachesVisible

(* What the invariant says of the history and its newest delta. *)
LEMMA HistoryFacts ==
  ASSUME IInv
  PROVE  /\ WellFormedHistory(updateBuffer)
         /\ OrderedHistory(updateBuffer)
         /\ updateBuffer \in Seq(Entries)
         /\ Len(updateBuffer) \in Nat
         /\ updateBuffer # <<>> => Len(updateBuffer) \in 1 .. Len(updateBuffer)
         /\ \A i \in 1 .. Len(updateBuffer) :
              /\ updateBuffer # <<>>
              /\ updateBuffer[i] \in Entries
              /\ updateBuffer[i].delta \in Deltas
              /\ updateBuffer[i].delta.final \in Ids
              /\ updateBuffer[i].delta.final \in Nat
              /\ updateBuffer[i].delta.final > lastSnapshotUpdateId
              /\ updateBuffer[i].delta.final <= BackId
         /\ updateBuffer # <<>> => BackId = updateBuffer[Len(updateBuffer)].delta.final
         /\ updateBuffer = <<>> => BackId = None
         /\ BackId \in Int
         /\ lastUpdateId \in Int
         /\ lastSnapshotUpdateId \in Int
<1> DEFINE n == Len(updateBuffer)
<1>1. updateBuffer \in Seq(Entries) /\ n \in Nat
  BY LenProperties DEF IInv, TypeOK
<1>2. updateBuffer # <<>> => n \in 1 .. n
  BY <1>1, EmptySeq, LenProperties
<1>3. \A i \in 1 .. n : /\ updateBuffer[i] \in Entries
                        /\ updateBuffer[i].delta \in Deltas
                        /\ updateBuffer[i].delta.final \in Ids
                        /\ updateBuffer[i].delta.final \in Nat
  BY <1>1, ElementOfSeq, EntryTypes, IdsAreNaturals
<1>4. \A i \in 1 .. n : updateBuffer # <<>>
  BY <1>1
<1>5. OrderedHistory(updateBuffer)
  BY DEF IInv, HistoryOrdered, OrderedHistory
<1>6. updateBuffer # <<>> => BackId = updateBuffer[n].delta.final
  BY DEF BackId
<1>7. ASSUME NEW i \in 1 .. n
      PROVE  updateBuffer[i].delta.final <= BackId
  <2>1. n \in 1 .. n /\ BackId = updateBuffer[n].delta.final
    BY <1>2, <1>4, <1>6
  <2>2. i = n \/ i < n
    BY <1>1
  <2>3. i < n => updateBuffer[i].delta.final < updateBuffer[n].delta.final
    BY <1>5, <2>1 DEF OrderedHistory
  <2> QED
    BY <1>3, <2>1, <2>2, <2>3
<1>8. updateBuffer = <<>> => BackId = None
  BY DEF BackId
<1>9. BackId \in Int /\ lastUpdateId \in Int /\ lastSnapshotUpdateId \in Int
  BY <1>2, <1>3, <1>6, <1>8, IdsAreNaturals DEF None, IInv, TypeOK
<1> QED
  BY <1>1, <1>2, <1>3, <1>4, <1>5, <1>6, <1>7, <1>8, <1>9
     DEF IInv, HistoryOrdered, WellFormedHistory

(* The visible ID lies between the last snapshot's and the newest delta's; *)
(* a desynchronized book's history reaches the visible ID.                 *)
LEMMA VisibleWithinHistory ==
  ASSUME IInv
  PROVE  /\ lastSnapshotUpdateId <= lastUpdateId
         /\ updateBuffer # <<>> => lastUpdateId <= BackId
         /\ syncState = "RequireResync" /\ BufferSize > 0 => lastUpdateId <= BackId
<1>1. CASE lastUpdateId = lastSnapshotUpdateId
  BY <1>1, HistoryFacts DEF IInv, HistoryReachesVisible
<1>2. CASE \E i \in 1 .. Len(updateBuffer) : updateBuffer[i].delta.final = lastUpdateId
  BY <1>2, HistoryFacts
<1> QED
  BY <1>1, <1>2 DEF IInv, HistoryReachesVisible

(* A delta that is neither stale nor lost to a full history is newer than   *)
(* everything the book shows or remembers, in every state.                  *)
LEMMA FreshIsNewer ==
  ASSUME IInv, NEW d \in Deltas, FreshDelta(d), ~ HistoryFull
  PROVE  /\ d.final \in Ids
         /\ d.final > lastUpdateId
         /\ d.final > lastSnapshotUpdateId
         /\ \A i \in 1 .. Len(updateBuffer) : updateBuffer[i].delta.final < d.final
<1>1. d.first \in Ids /\ d.final \in Ids /\ d.final \in Nat /\ d.first <= d.final
  BY IdsAreNaturals, ParameterTypes DEF FreshDelta, WellFormed
<1>2. d.final > BackId
  BY <1>1, HistoryFacts DEF FreshDelta, StaleDelta
<1>3. BufferSize > 0
  BY HistoryFacts, ParameterTypes DEF HistoryFull, IInv, TypeOK
<1>4. d.final > lastUpdateId
  <2>1. CASE syncState = "AwaitingSnapshot"
    BY <1>1, <2>1 DEF IInv, HistoryReachesVisible, None
  <2>2. CASE syncState = "RequireResync"
    BY <1>1, <1>2, <1>3, <2>2, HistoryFacts, VisibleWithinHistory
  <2>3. CASE syncState = "Live"
    <3>1. CASE updateBuffer = <<>>
      <4>1. ~ GapAfterHistory(d)
        BY <3>1, HistoryFacts DEF GapAfterHistory, GapAfter
      <4>2. d.final > (IF lastUpdateId = None THEN 0 ELSE lastUpdateId)
        BY <1>1, <2>3, <4>1, HistoryFacts DEF FreshDelta, StaleDelta
      <4> QED
        BY <1>1, <4>2, HistoryFacts DEF None
    <3>2. CASE updateBuffer # <<>>
      BY <1>1, <1>2, <3>2, HistoryFacts, VisibleWithinHistory
    <3> QED
      BY <3>1, <3>2
  <2> QED
    BY <2>1, <2>2, <2>3 DEF IInv, TypeOK, SyncStates
<1>5. d.final > lastSnapshotUpdateId
  BY <1>1, <1>4, HistoryFacts, VisibleWithinHistory
<1>6. \A i \in 1 .. Len(updateBuffer) : updateBuffer[i].delta.final < d.final
  BY <1>1, <1>2, HistoryFacts
<1> QED
  BY <1>1, <1>4, <1>5, <1>6

(* The history after a delta was remembered. *)
LEMMA RememberFacts ==
  ASSUME IInv, NEW d \in Deltas, NEW t \in Timestamps,
         FreshDelta(d), ~ HistoryFull, Remember(d, t)
  PROVE  /\ updateBuffer' \in Seq(Entries)
         /\ Len(updateBuffer') = Len(updateBuffer) + 1
         /\ Len(updateBuffer') <= BufferSize
         /\ updateBuffer' # <<>>
         /\ \A i \in 1 .. Len(updateBuffer) : updateBuffer'[i] = updateBuffer[i]
         /\ updateBuffer'[Len(updateBuffer')] = [delta |-> d, at |-> t]
         /\ \A i \in 1 .. Len(updateBuffer') :
              \/ i \in 1 .. Len(updateBuffer) /\ updateBuffer'[i] = updateBuffer[i]
              \/ i = Len(updateBuffer') /\ updateBuffer'[i] = [delta |-> d, at |-> t]
         /\ WellFormed(d)
         /\ \A i \in 1 .. Len(updateBuffer') : WellFormed(updateBuffer'[i].delta)
         /\ \A i \in 1 .. Len(updateBuffer') :
              updateBuffer'[i].delta.final > lastSnapshotUpdateId
         /\ \A i, j \in 1 .. Len(updateBuffer') :
              i < j => updateBuffer'[i].delta.final < updateBuffer'[j].delta.final
<1> DEFINE n == Len(updateBuffer)
           e == [delta |-> d, at |-> t]
<1>1. e \in Entries /\ e.delta = d /\ e.at = t
  BY DEF Entries
<1>2. n \in Nat /\ updateBuffer \in Seq(Entries)
  BY HistoryFacts
<1>3. /\ updateBuffer' \in Seq(Entries)
      /\ Len(updateBuffer') = n + 1
      /\ \A i \in 1 .. n : updateBuffer'[i] = updateBuffer[i]
      /\ updateBuffer'[n + 1] = e
  <2>1. updateBuffer' = Append(updateBuffer, e)
    BY DEF Remember
  <2> QED
    BY <1>1, <1>2, <2>1, AppendProperties
<1>4. Len(updateBuffer') <= BufferSize
  BY <1>2, <1>3, ParameterTypes DEF HistoryFull, IInv, TypeOK
<1>5. updateBuffer' # <<>>
  BY <1>2, <1>3
<1>6. \A i \in 1 .. n + 1 : \/ i \in 1 .. n /\ updateBuffer'[i] = updateBuffer[i]
                            \/ i = n + 1 /\ updateBuffer'[i] = e
  BY <1>2, <1>3
<1>7. WellFormed(d) /\ \A i \in 1 .. n + 1 : WellFormed(updateBuffer'[i].delta)
  BY <1>1, <1>6 DEF FreshDelta, IInv, HistoryOrdered
<1>8. \A i \in 1 .. n + 1 : updateBuffer'[i].delta.final > lastSnapshotUpdateId
  BY <1>1, <1>6, FreshIsNewer DEF IInv, HistoryOrdered
<1>9. ASSUME NEW i \in 1 .. n + 1, NEW j \in 1 .. n + 1, i < j
      PROVE  updateBuffer'[i].delta.final < updateBuffer'[j].delta.final
  <2>1. i \in 1 .. n /\ updateBuffer'[i] = updateBuffer[i]
    BY <1>2, <1>3, <1>9
  <2>2. CASE j = n + 1
    BY <1>1, <1>3, <2>1, <2>2, FreshIsNewer
  <2>3. CASE j \in 1 .. n
    BY <1>3, <1>9, <2>1, <2>3 DEF IInv, HistoryOrdered
  <2> QED
    BY <1>6, <2>2, <2>3
<1> QED
  BY <1>3, <1>4, <1>5, <1>6, <1>7, <1>8, <1>9

-----------------------------------------------------------------------------
(* The initial state satisfies the invariant. *)
LEMMA InitIInv == Init => IInv
<1> SUFFICES ASSUME Init
             PROVE  IInv
  OBVIOUS
<1>1. Len(updateBuffer) = 0 /\ updateBuffer \in Seq(Entries)
  BY DEF Init
<1>2. TypeOK
  BY <1>1, ParameterTypes DEF Init, TypeOK, EmptyImage, SyncStates, NoFlow
<1>3. HistoryOrdered /\ SourceTimeIsOfVisibleUpdate
  BY <1>1 DEF HistoryOrdered, SourceTimeIsOfVisibleUpdate
<1>4. LiveHistoryIsComplete /\ VisibleIsSnapshotPlusHistory
  BY DEF Init, LiveHistoryIsComplete, VisibleIsSnapshotPlusHistory
<1>5. HistoryReachesVisible
  BY DEF Init, HistoryReachesVisible
<1> QED
  BY <1>2, <1>3, <1>4, <1>5 DEF IInv

(* Calls that only return: malformed and stale messages, gapped snapshots. *)
LEMMA ReturnOnlyIInv ==
  ASSUME IInv, result' \in Outcomes \cup Errors \cup {"Ok"},
         UNCHANGED <<visible, syncState, updateBuffer>>
  PROVE  IInv'
BY DEF IInv, visible, TypeOK, HistoryOrdered, LiveHistoryIsComplete,
       VisibleIsSnapshotPlusHistory, SourceTimeIsOfVisibleUpdate,
       HistoryReachesVisible, BackId

(* A full history: the book desynchronizes. *)
LEMMA RejectOverflowIInv ==
  ASSUME IInv, NEW d \in Deltas, RejectOverflow(d)
  PROVE  IInv'
<1>1. TypeOK'
  BY DEF IInv, TypeOK, RejectOverflow, visible, SyncStates, Errors
<1>2. HistoryOrdered' /\ SourceTimeIsOfVisibleUpdate'
  BY DEF IInv, HistoryOrdered, SourceTimeIsOfVisibleUpdate, RejectOverflow, visible
<1>3. LiveHistoryIsComplete' /\ VisibleIsSnapshotPlusHistory'
  BY DEF LiveHistoryIsComplete, VisibleIsSnapshotPlusHistory, RejectOverflow
<1>4. HistoryReachesVisible'
  <2>1. BufferSize > 0 => updateBuffer # <<>>
    BY HistoryFacts, ParameterTypes DEF RejectOverflow, HistoryFull
  <2> QED
    BY <2>1 DEF IInv, HistoryReachesVisible, RejectOverflow, visible
<1> QED
  BY <1>1, <1>2, <1>3, <1>4 DEF IInv

(* A delta that is kept and does not show: buffered, or rejected for a gap. *)
LEMMA KeepHiddenIInv ==
  ASSUME IInv, NEW d \in Deltas, NEW t \in Timestamps,
         FreshDelta(d), ~ HistoryFull, Remember(d, t), UNCHANGED visible,
         syncState' # "Live",
         syncState' \in SyncStates,
         syncState' = "AwaitingSnapshot" => syncState = "AwaitingSnapshot",
         result' \in Outcomes \cup Errors \cup {"Ok"}
  PROVE  IInv'
<1>1. TypeOK'
  BY RememberFacts DEF IInv, TypeOK, visible
<1>2. HistoryOrdered'
  BY RememberFacts DEF HistoryOrdered, visible
<1>3. LiveHistoryIsComplete' /\ VisibleIsSnapshotPlusHistory'
  BY DEF LiveHistoryIsComplete, VisibleIsSnapshotPlusHistory
<1>4. SourceTimeIsOfVisibleUpdate'
  <2> SUFFICES ASSUME NEW i \in 1 .. Len(updateBuffer'),
                      updateBuffer'[i].delta.final = lastUpdateId'
               PROVE  sourceTimestamp' = updateBuffer'[i].at
    BY DEF SourceTimeIsOfVisibleUpdate
  <2>1. lastUpdateId' = lastUpdateId /\ sourceTimestamp' = sourceTimestamp
    BY DEF visible
  <2>2. d.final # lastUpdateId
    BY FreshIsNewer, HistoryFacts, IdsAreNaturals
  <2>3. updateBuffer'[i] # [delta |-> d, at |-> t]
    BY <2>1, <2>2
  <2>4. i \in 1 .. Len(updateBuffer) /\ updateBuffer'[i] = updateBuffer[i]
    BY <2>3, RememberFacts
  <2> QED
    BY <2>1, <2>4 DEF IInv, SourceTimeIsOfVisibleUpdate
<1>5. HistoryReachesVisible'
  <2>1. ASSUME NEW i \in 1 .. Len(updateBuffer)
        PROVE  i \in 1 .. Len(updateBuffer') /\ updateBuffer'[i] = updateBuffer[i]
    <3>1. Len(updateBuffer') = Len(updateBuffer) + 1 /\ updateBuffer'[i] = updateBuffer[i]
      BY RememberFacts
    <3>2. Len(updateBuffer) \in Nat
      BY HistoryFacts
    <3> QED
      BY <3>1, <3>2
  <2>2. /\ lastUpdateId' = lastUpdateId
        /\ lastSnapshotUpdateId' = lastSnapshotUpdateId
        /\ updateBuffer' # <<>>
    BY RememberFacts DEF visible
  <2> QED
    BY <2>1, <2>2 DEF IInv, HistoryReachesVisible
<1> QED
  BY <1>1, <1>2, <1>3, <1>4, <1>5 DEF IInv

(* A live delta that continues the visible book. *)
LEMMA ApplyDeltaIInv ==
  ASSUME IInv, NEW d \in Deltas, NEW t \in Timestamps, ApplyDelta(d, t)
  PROVE  IInv'
<1> DEFINE n == Len(updateBuffer)
           e == [delta |-> d, at |-> t]
<1>1. /\ FreshDelta(d)
      /\ ~ HistoryFull
      /\ Remember(d, t)
      /\ ~ DeltaGap(d)
      /\ syncState = "Live"
      /\ syncState' = "Live"
      /\ lastUpdateId' = d.final
      /\ lastSnapshotUpdateId' = lastSnapshotUpdateId
      /\ image' = Overwrite(image, d.changes)
  BY DEF ApplyDelta
<1>2. e \in Entries /\ e.delta = d /\ e.at = t
  BY DEF Entries
<1>3. n \in Nat /\ updateBuffer \in Seq(Entries)
  BY HistoryFacts
<1>4. WellFormed(d) /\ d.final \in Ids
  BY <1>1, FreshIsNewer DEF FreshDelta
<1>5. TypeOK'
  <2>1. image' \in [Levels -> Nat]
    BY <1>1, <1>4, OverwriteType DEF IInv, TypeOK
  <2>2. flow' \in [Levels -> Int]
    <3>1. \A lv \in DOMAIN d.changes : d.changes[lv] \in Int
      BY ParameterTypes
    <3>2. \A lv \in Levels : image[lv] \in Int
      BY DEF IInv, TypeOK
    <3>3. flow' = FlowOf(image, d)
      BY DEF ApplyDelta
    <3> QED
      BY <3>1, <3>2, <3>3 DEF FlowOf
  <2>3. sourceTimestamp' \in Timestamps /\ result' = "Applied"
    BY DEF ApplyDelta
  <2> QED
    BY <1>1, <1>4, <2>1, <2>2, <2>3, RememberFacts
       DEF IInv, TypeOK, SyncStates, Outcomes
<1>6. HistoryOrdered'
  BY <1>1, RememberFacts DEF HistoryOrdered
<1>7. updateBuffer' # <<>> /\ Len(updateBuffer') = n + 1 /\ updateBuffer'[n + 1] = e
  BY <1>1, RememberFacts
<1>8. LiveHistoryIsComplete'
  <2>1. lastSnapshotUpdateId # None
    BY <1>1 DEF IInv, LiveHistoryIsComplete
  <2>2. BackId' = d.final
    BY <1>2, <1>7 DEF BackId
  <2>3. ASSUME NEW i \in 1 .. n + 1
        PROVE  ~ GapAfter(IF i = 1 THEN lastSnapshotUpdateId
                                   ELSE updateBuffer'[i-1].delta.final,
                          updateBuffer'[i].delta.first)
    <3>1. CASE i \in 1 .. n
      <4>1. i = 1 \/ i - 1 \in 1 .. n
        BY <1>3, <3>1
      <4>2. updateBuffer'[i] = updateBuffer[i]
            /\ (i # 1 => updateBuffer'[i-1] = updateBuffer[i-1])
        BY <1>1, <3>1, <4>1, RememberFacts
      <4>3. ~ BrokenChain(lastSnapshotUpdateId, updateBuffer)
        BY <1>1 DEF IInv, LiveHistoryIsComplete
      <4> QED
        BY <3>1, <4>2, <4>3 DEF BrokenChain
    <3>2. CASE i = n + 1 /\ n = 0
      <4>1. updateBuffer = <<>>
        BY <1>3, <3>2, EmptySeq
      <4>2. lastUpdateId = lastSnapshotUpdateId
        BY <1>1, <4>1 DEF IInv, LiveHistoryIsComplete
      <4> QED
        BY <1>1, <1>2, <1>7, <3>2, <4>2 DEF DeltaGap
    <3>3. CASE i = n + 1 /\ n # 0
      <4>1. n \in 1 .. n /\ i # 1 /\ i - 1 = n
        BY <1>3, <3>3
      <4>2. updateBuffer'[n] = updateBuffer[n] /\ BackId = updateBuffer[n].delta.final
        BY <1>1, <4>1, RememberFacts, HistoryFacts
      <4> QED
        BY <1>1, <1>2, <1>7, <3>3, <4>1, <4>2 DEF DeltaGap, GapAfterHistory
    <3> QED
      BY <1>3, <3>1, <3>2, <3>3
  <2>4. ~ BrokenChain(lastSnapshotUpdateId, updateBuffer')
    BY <1>7, <2>3 DEF BrokenChain
  <2> QED
    BY <1>1, <1>7, <2>1, <2>2, <2>4 DEF LiveHistoryIsComplete
<1>9. VisibleIsSnapshotPlusHistory'
  <2>1. image = Replayed(Exchange[lastSnapshotUpdateId], updateBuffer)
    BY <1>1 DEF IInv, VisibleIsSnapshotPlusHistory
  <2>2. updateBuffer' = Append(updateBuffer, e)
    BY <1>1 DEF Remember
  <2>3. image' = Replayed(Exchange[lastSnapshotUpdateId], updateBuffer')
    BY <1>1, <1>2, <1>3, <2>1, <2>2, ReplayedAppend
  <2> QED
    BY <1>1, <2>3 DEF VisibleIsSnapshotPlusHistory
<1>10. SourceTimeIsOfVisibleUpdate'
  <2> SUFFICES ASSUME NEW i \in 1 .. Len(updateBuffer'),
                      updateBuffer'[i].delta.final = lastUpdateId'
               PROVE  sourceTimestamp' = updateBuffer'[i].at
    BY DEF SourceTimeIsOfVisibleUpdate
  <2>1. CASE i \in 1 .. n /\ updateBuffer'[i] = updateBuffer[i]
    <3>1. updateBuffer[i].delta.final < d.final
      BY <1>1, <2>1, FreshIsNewer
    <3> QED
      BY <1>1, <1>4, <2>1, <3>1, HistoryFacts, IdsAreNaturals
  <2>2. CASE updateBuffer'[i] = e
    BY <1>2, <2>2 DEF ApplyDelta
  <2> QED
    BY <1>1, <2>1, <2>2, RememberFacts
<1>11. HistoryReachesVisible'
  <2>1. n + 1 \in 1 .. Len(updateBuffer') /\ updateBuffer'[n + 1].delta.final = lastUpdateId'
    BY <1>1, <1>2, <1>3, <1>7
  <2>2. lastSnapshotUpdateId' # None
    BY <1>1 DEF IInv, LiveHistoryIsComplete
  <2>3. lastUpdateId' # None
    BY <1>1, <1>4, IdsAreNaturals DEF None
  <2> QED
    BY <1>1, <1>7, <2>1, <2>2, <2>3 DEF HistoryReachesVisible
<1> QED
  BY <1>5, <1>6, <1>8, <1>9, <1>10, <1>11 DEF IInv

(* What loading a snapshot leaves behind, as far as the IDs are concerned. *)
LEMMA LoadFacts ==
  ASSUME IInv, NEW s \in Snapshots, NEW t \in Timestamps, ApplySnapshot(s, t)
  PROVE  /\ WellFormedHistory(updateBuffer')
         /\ OrderedHistory(updateBuffer')
         /\ Len(updateBuffer') \in Nat
         /\ Len(updateBuffer') <= BufferSize
         /\ \A i \in 1 .. Len(updateBuffer') :
              /\ updateBuffer'[i] \in Entries
              /\ updateBuffer'[i].delta.final \in Ids
              /\ updateBuffer'[i].delta.final > s.id
              /\ \E j \in 1 .. Len(updateBuffer) : updateBuffer'[i] = updateBuffer[j]
         /\ \A j \in 1 .. Len(updateBuffer) :
              updateBuffer[j].delta.final > s.id
                => \E i \in 1 .. Len(updateBuffer') : updateBuffer'[i] = updateBuffer[j]
         /\ updateBuffer' # <<>> =>
              /\ Len(updateBuffer') \in 1 .. Len(updateBuffer')
              /\ lastUpdateId' = updateBuffer'[Len(updateBuffer')].delta.final
              /\ sourceTimestamp' = updateBuffer'[Len(updateBuffer')].at
         /\ updateBuffer' = <<>> => lastUpdateId' = s.id /\ sourceTimestamp' = t
         /\ ~ BrokenChain(s.id, updateBuffer')
         /\ s.id \in Ids
         /\ lastSnapshotUpdateId' = s.id
         /\ s.id > lastSnapshotUpdateId
         /\ syncState' = "Live"
<1>1. s.id \in Ids /\ s.id \in Int
  BY ParameterTypes, IdsAreNaturals
<1>2. /\ updateBuffer' = NewerThan(updateBuffer, s.id)
      /\ lastSnapshotUpdateId' = s.id
      /\ syncState' = "Live"
  BY DEF ApplySnapshot, LoadSnapshot, Replay, NewestId, NewestTime
<1>3. /\ WellFormedHistory(updateBuffer')
      /\ OrderedHistory(updateBuffer')
      /\ Len(updateBuffer') <= Len(updateBuffer)
      /\ \A i \in 1 .. Len(updateBuffer') :
           /\ updateBuffer'[i].delta.final > s.id
           /\ \E j \in 1 .. Len(updateBuffer) : updateBuffer'[i] = updateBuffer[j]
      /\ \A j \in 1 .. Len(updateBuffer) :
           updateBuffer[j].delta.final > s.id
             => \E i \in 1 .. Len(updateBuffer') : updateBuffer'[i] = updateBuffer[j]
  BY <1>1, <1>2, HistoryFacts, NewerThanFacts
<1>4. Len(updateBuffer') \in Nat /\ Len(updateBuffer') <= BufferSize
  <2>1. Len(updateBuffer') \in Nat
    BY <1>3, LenProperties DEF WellFormedHistory
  <2>2. Len(updateBuffer) \in Nat /\ Len(updateBuffer) <= BufferSize
    BY HistoryFacts DEF IInv, TypeOK
  <2> QED
    BY <1>3, <2>1, <2>2, ParameterTypes
<1>5. \A i \in 1 .. Len(updateBuffer') :
        updateBuffer'[i] \in Entries /\ updateBuffer'[i].delta.final \in Ids
  BY <1>3, HistoryFacts
<1>6. updateBuffer' # <<>> => Len(updateBuffer') \in 1 .. Len(updateBuffer')
  BY <1>3, <1>4, EmptySeq DEF WellFormedHistory
<1>7. /\ updateBuffer' # <<>> =>
           /\ lastUpdateId' = updateBuffer'[Len(updateBuffer')].delta.final
           /\ sourceTimestamp' = updateBuffer'[Len(updateBuffer')].at
      /\ updateBuffer' = <<>> => lastUpdateId' = s.id /\ sourceTimestamp' = t
  BY <1>2 DEF ApplySnapshot, LoadSnapshot, Replay, NewestId, NewestTime
<1>8. ~ BrokenChain(s.id, updateBuffer')
  BY <1>2 DEF ApplySnapshot, SnapshotAccepted, HistoryGapAfter
<1>9. s.id > lastSnapshotUpdateId
  <2>1. lastSnapshotUpdateId = None \/ ~ (s.id <= lastSnapshotUpdateId)
    BY DEF ApplySnapshot, SnapshotAccepted, StaleSnapshot
  <2>2. s.id \in Nat
    BY <1>1, IdsAreNaturals
  <2> QED
    BY <2>1, <2>2, HistoryFacts DEF None
<1> QED
  BY <1>1, <1>2, <1>3, <1>4, <1>5, <1>6, <1>7, <1>8, <1>9

(* A snapshot and the deltas it leaves to replay. *)
LEMMA ApplySnapshotIInv ==
  ASSUME IInv, NEW s \in Snapshots, NEW t \in Timestamps, ApplySnapshot(s, t)
  PROVE  IInv'
<1> DEFINE m == Len(updateBuffer')
<1>1. SnapshotImage(s) = Exchange[s.id] /\ Exchange[s.id] \in [Levels -> Nat]
  BY LoadFacts, HonestFeed DEF ApplySnapshot, SnapshotAccepted, HonestSnapshot
<1>2. image' = Replayed(Exchange[s.id], updateBuffer')
  BY <1>1 DEF ApplySnapshot, LoadSnapshot, Replay, NewestId, NewestTime
<1>3. updateBuffer' # <<>> => m \in 1 .. m /\ updateBuffer'[m] \in Entries
                              /\ updateBuffer'[m].delta.final \in Ids
  BY LoadFacts
<1>4. lastUpdateId' \in Ids
  BY <1>3, LoadFacts
<1>5. TypeOK'
  <2>1. image' \in [Levels -> Nat]
    BY <1>1, <1>2, LoadFacts, ReplayedType
  <2>2. sourceTimestamp' \in Timestamps
    BY <1>3, LoadFacts, EntryTypes
  <2>3. flow' = NoFlow /\ result' \in {"Resynchronized", "Applied"}
    BY DEF ApplySnapshot, LoadSnapshot, Replay, NewestId, NewestTime
  <2>4. updateBuffer' \in Seq(Entries) /\ m <= BufferSize
    BY LoadFacts DEF WellFormedHistory
  <2> QED
    BY <1>4, <2>1, <2>2, <2>3, <2>4, LoadFacts DEF TypeOK, SyncStates, Outcomes
<1>6. HistoryOrdered'
  BY LoadFacts DEF HistoryOrdered, WellFormedHistory, OrderedHistory
<1>7. LiveHistoryIsComplete'
  <2>1. lastSnapshotUpdateId' # None
    BY LoadFacts, IdsAreNaturals DEF None
  <2>2. lastUpdateId' = IF updateBuffer' = <<>> THEN lastSnapshotUpdateId' ELSE BackId'
    BY LoadFacts DEF BackId
  <2> QED
    BY <2>1, <2>2, LoadFacts DEF LiveHistoryIsComplete
<1>8. VisibleIsSnapshotPlusHistory'
  BY <1>2, LoadFacts DEF VisibleIsSnapshotPlusHistory
<1>9. SourceTimeIsOfVisibleUpdate'
  <2> SUFFICES ASSUME NEW i \in 1 .. m, updateBuffer'[i].delta.final = lastUpdateId'
               PROVE  sourceTimestamp' = updateBuffer'[i].at
    BY DEF SourceTimeIsOfVisibleUpdate
  <2>1. m \in Nat /\ updateBuffer' # <<>>
    BY LoadFacts
  <2>2. m \in 1 .. m /\ lastUpdateId' = updateBuffer'[m].delta.final
        /\ sourceTimestamp' = updateBuffer'[m].at
    BY <2>1, LoadFacts
  <2>3. ~ (updateBuffer'[i].delta.final < updateBuffer'[m].delta.final)
    BY <1>4, <2>2, IdsAreNaturals
  <2>4. ~ (i < m)
    BY <2>2, <2>3, LoadFacts DEF OrderedHistory
  <2>5. i = m
    BY <2>1, <2>4
  <2> QED
    BY <2>2, <2>5
<1>10. HistoryReachesVisible'
  <2>1. lastUpdateId' # None /\ lastSnapshotUpdateId' # None
    BY <1>4, LoadFacts, IdsAreNaturals DEF None
  <2>2. \/ lastUpdateId' = lastSnapshotUpdateId'
        \/ \E i \in 1 .. m : updateBuffer'[i].delta.final = lastUpdateId'
    BY LoadFacts
  <2> QED
    BY <2>1, <2>2, LoadFacts DEF HistoryReachesVisible
<1> QED
  BY <1>5, <1>6, <1>7, <1>8, <1>9, <1>10 DEF IInv

(* Every call keeps the invariant. *)
LEMMA NextIInv == IInv /\ [Next]_vars => IInv'
<1> SUFFICES ASSUME IInv, [Next]_vars
             PROVE  IInv'
  OBVIOUS
<1>1. ASSUME NEW d \in Deltas, NEW t \in Timestamps, ReceiveDelta(d, t)
      PROVE  IInv'
  <2>1. CASE RejectMalformedDelta(d)
    BY <2>1, ReturnOnlyIInv DEF RejectMalformedDelta, Errors
  <2>2. CASE IgnoreStaleDelta(d)
    BY <2>2, ReturnOnlyIInv DEF IgnoreStaleDelta, Outcomes
  <2>3. CASE RejectOverflow(d)
    BY <2>3, RejectOverflowIInv
  <2>4. CASE RejectGap(d, t)
    <3>1. syncState' \in SyncStates /\ syncState' # "Live"
      BY <2>4 DEF RejectGap, SyncStates, IInv, TypeOK
    <3>2. syncState' = "AwaitingSnapshot" => syncState = "AwaitingSnapshot"
      BY <2>4 DEF RejectGap
    <3> QED
      BY <2>4, <3>1, <3>2, KeepHiddenIInv DEF RejectGap, Errors
  <2>5. CASE BufferDelta(d, t)
    BY <2>5, KeepHiddenIInv DEF BufferDelta, Outcomes, IInv, TypeOK
  <2>6. CASE ApplyDelta(d, t)
    BY <2>6, ApplyDeltaIInv
  <2> QED
    BY <1>1, <2>1, <2>2, <2>3, <2>4, <2>5, <2>6 DEF ReceiveDelta
<1>2. ASSUME NEW s \in Snapshots, NEW t \in Timestamps, ReceiveSnapshot(s, t)
      PROVE  IInv'
  <2>1. CASE RejectSnapshot(s)
    BY <2>1, ReturnOnlyIInv DEF RejectSnapshot, SnapshotError, Errors
  <2>2. CASE ApplySnapshot(s, t)
    BY <2>2, ApplySnapshotIInv
  <2> QED
    BY <1>2, <2>1, <2>2 DEF ReceiveSnapshot
<1>3. CASE UNCHANGED vars
  BY <1>3, ReturnOnlyIInv DEF vars, visible, IInv, TypeOK
<1> QED
  BY <1>1, <1>2, <1>3 DEF Next

(* The inductive invariant holds in every reachable state. *)
THEOREM Invariance == Spec => []IInv
BY InitIInv, NextIInv, PTL DEF Spec

(* Every value of the state has the type of its field. *)
THEOREM TypeCorrect == Spec => []TypeOK
<1>1. IInv => TypeOK
  BY DEF IInv
<1> QED
  BY <1>1, Invariance, PTL

(* The history stays a chain of well-formed deltas in strictly increasing  *)
(* order, all newer than the last snapshot.                                *)
THEOREM HistoryStaysOrdered == Spec => []HistoryOrdered
<1>1. IInv => HistoryOrdered
  BY DEF IInv
<1> QED
  BY <1>1, Invariance, PTL

(* The history of a live book holds all it applied since its snapshot. *)
THEOREM LiveHistoryStaysComplete == Spec => []LiveHistoryIsComplete
<1>1. IInv => LiveHistoryIsComplete
  BY DEF IInv
<1> QED
  BY <1>1, Invariance, PTL

(* A live book shows the last snapshot with its history laid over it. *)
THEOREM VisibleStaysSnapshotPlusHistory == Spec => []VisibleIsSnapshotPlusHistory
<1>1. IInv => VisibleIsSnapshotPlusHistory
  BY DEF IInv
<1> QED
  BY <1>1, Invariance, PTL

(* The source time is that of the update that gave the visible ID. *)
THEOREM SourceTimeStaysOfVisibleUpdate == Spec => []SourceTimeIsOfVisibleUpdate
<1>1. IInv => SourceTimeIsOfVisibleUpdate
  BY DEF IInv
<1> QED
  BY <1>1, Invariance, PTL

(* The visible ID is the last snapshot's or that of a delta in the history, *)
(* and a desynchronized book with room for one remembers a delta.           *)
THEOREM VisibleStaysWithinReach == Spec => []HistoryReachesVisible
<1>1. IInv => HistoryReachesVisible
  BY DEF IInv
<1> QED
  BY <1>1, Invariance, PTL

(* With room for at least one delta, every range that ends at or below the  *)
(* visible ID is ignored as stale in every state.  (With BufferSize = 0 a   *)
(* desynchronized book has nothing to measure the range against.)           *)
THEOREM CoveredRangesStayStale ==
  ASSUME BufferSize > 0
  PROVE  Spec => []CoveredRangesAreStale
<1>1. IInv => CoveredRangesAreStale
  <2> SUFFICES ASSUME IInv, NEW d \in Deltas, WellFormed(d),
                      lastUpdateId # None, d.final <= lastUpdateId
               PROVE  StaleDelta(d)
    BY DEF CoveredRangesAreStale
  <2>1. d.first \in Nat /\ d.final \in Nat /\ d.first <= d.final
    BY ParameterTypes, IdsAreNaturals DEF WellFormed
  <2>2. syncState # "AwaitingSnapshot"
    BY DEF IInv, HistoryReachesVisible
  <2>3. CASE updateBuffer # <<>>
    BY <2>1, <2>3, HistoryFacts, VisibleWithinHistory DEF StaleDelta
  <2>4. CASE updateBuffer = <<>>
    <3>1. syncState = "Live"
      BY <2>2, <2>4 DEF IInv, TypeOK, SyncStates, HistoryReachesVisible
    <3>2. ~ GapAfterHistory(d)
      BY <2>4, HistoryFacts DEF GapAfterHistory, GapAfter
    <3> QED
      BY <3>1, <3>2 DEF StaleDelta
  <2> QED
    BY <2>3, <2>4
<1> QED
  BY <1>1, Invariance, PTL

-----------------------------------------------------------------------------
(* The flow: of the last delta applied, which the history still holds. *)

(* A call that shows nothing only lengthens the history, if that: the delta *)
(* that the flow is of stays where it is.                                   *)
LEMMA HiddenCallKeepsFlow ==
  ASSUME IInv, FlowIsOfVisibleDelta, UNCHANGED visible,
         \/ UNCHANGED updateBuffer
         \/ \E d \in Deltas, t \in Timestamps : Remember(d, t)
  PROVE  FlowIsOfVisibleDelta'
<1> SUFFICES ASSUME flow # NoFlow
             PROVE  FlowIsOfVisibleDelta'
  BY DEF FlowIsOfVisibleDelta, visible
<1>1. PICK i \in 1 .. Len(updateBuffer) :
        LET delta == updateBuffer[i].delta
        IN  /\ delta.final = lastUpdateId
            /\ \A lv \in Levels :
                 IF lv \in DOMAIN delta.changes
                   THEN image[lv] = delta.changes[lv] /\ flow[lv] <= image[lv]
                   ELSE flow[lv] = 0
  BY DEF FlowIsOfVisibleDelta
<1>2. i \in 1 .. Len(updateBuffer') /\ updateBuffer'[i] = updateBuffer[i]
  <2>1. updateBuffer \in Seq(Entries)
    BY DEF IInv, TypeOK
  <2>2. ASSUME NEW d \in Deltas, NEW t \in Timestamps, Remember(d, t)
        PROVE  i \in 1 .. Len(updateBuffer') /\ updateBuffer'[i] = updateBuffer[i]
    <3>1. [delta |-> d, at |-> t] \in Entries
      BY DEF Entries
    <3> QED
      BY <2>1, <2>2, <3>1, <1>1 DEF Remember
  <2> QED
    BY <2>2
<1> QED
  BY <1>1, <1>2 DEF FlowIsOfVisibleDelta, visible

(* The delta just applied is the newest of the history, and added no more   *)
(* to a level than it left there.                                           *)
LEMMA ApplyDeltaGivesFlow ==
  ASSUME IInv, NEW d \in Deltas, NEW t \in Timestamps, ApplyDelta(d, t)
  PROVE  FlowIsOfVisibleDelta'
<1> DEFINE n == Len(updateBuffer)
           e == [delta |-> d, at |-> t]
<1>1. updateBuffer \in Seq(Entries) /\ n \in Nat /\ e \in Entries
  BY HistoryFacts DEF Entries
<1>2. /\ n + 1 \in 1 .. Len(updateBuffer')
      /\ updateBuffer'[n + 1].delta = d
  BY <1>1 DEF ApplyDelta, Remember
<1>3. image \in [Levels -> Nat]
  BY DEF IInv, TypeOK
<1>4. ASSUME NEW lv \in Levels
      PROVE  IF lv \in DOMAIN d.changes
               THEN image'[lv] = d.changes[lv] /\ flow'[lv] <= image'[lv]
               ELSE flow'[lv] = 0
  <2>1. lv \in DOMAIN d.changes => d.changes[lv] \in Int
    BY ParameterTypes
  <2>2. image[lv] \in Nat
    BY <1>3
  <2> QED
    BY <2>1, <2>2 DEF ApplyDelta, Overwrite, FlowOf
<1> QED
  BY <1>2, <1>4 DEF FlowIsOfVisibleDelta, ApplyDelta

(* A flow is never left over from before a snapshot: it is that of a delta  *)
(* in the history which gave the visible ID and whose sizes are shown.      *)
THEOREM FlowStaysOfVisibleDelta == Spec => []FlowIsOfVisibleDelta
<1>1. Init => FlowIsOfVisibleDelta
  BY DEF Init, FlowIsOfVisibleDelta
<1>2. IInv /\ FlowIsOfVisibleDelta /\ [Next]_vars => FlowIsOfVisibleDelta'
  <2> SUFFICES ASSUME IInv, FlowIsOfVisibleDelta, [Next]_vars
               PROVE  FlowIsOfVisibleDelta'
    OBVIOUS
  <2>1. ASSUME NEW d \in Deltas, NEW t \in Timestamps, ReceiveDelta(d, t)
        PROVE  FlowIsOfVisibleDelta'
    <3>1. CASE RejectMalformedDelta(d) \/ IgnoreStaleDelta(d) \/ RejectOverflow(d)
      BY <3>1, HiddenCallKeepsFlow DEF RejectMalformedDelta, IgnoreStaleDelta, RejectOverflow
    <3>2. CASE RejectGap(d, t) \/ BufferDelta(d, t)
      <4>1. UNCHANGED visible /\ Remember(d, t)
        BY <3>2 DEF RejectGap, BufferDelta
      <4> QED
        BY <4>1, HiddenCallKeepsFlow
    <3>3. CASE ApplyDelta(d, t)
      BY <3>3, ApplyDeltaGivesFlow
    <3> QED
      BY <2>1, <3>1, <3>2, <3>3 DEF ReceiveDelta
  <2>2. ASSUME NEW s \in Snapshots, NEW t \in Timestamps, ReceiveSnapshot(s, t)
        PROVE  FlowIsOfVisibleDelta'
    <3>1. CASE RejectSnapshot(s)
      BY <3>1, HiddenCallKeepsFlow DEF RejectSnapshot
    <3>2. CASE ApplySnapshot(s, t)
      BY <3>2 DEF ApplySnapshot, LoadSnapshot, FlowIsOfVisibleDelta
    <3> QED
      BY <2>2, <3>1, <3>2 DEF ReceiveSnapshot
  <2>3. CASE UNCHANGED vars
    BY <2>3, HiddenCallKeepsFlow DEF vars, visible
  <2> QED
    BY <2>1, <2>2, <2>3 DEF Next
<1> QED
  BY <1>1, <1>2, Invariance, PTL DEF Spec

-----------------------------------------------------------------------------
(* What one call may do: action properties and the refinement. *)

(* No call takes an ID back. *)
LEMMA NextIds ==
  ASSUME IInv, [Next]_vars
  PROVE  /\ lastUpdateId' >= lastUpdateId
         /\ lastSnapshotUpdateId' >= lastSnapshotUpdateId
<1>0. lastUpdateId' \in Int /\ lastSnapshotUpdateId' \in Int
  BY NextIInv, IdsAreNaturals DEF IInv, TypeOK, None
<1>1. CASE UNCHANGED <<visible, syncState>>
  BY <1>1, HistoryFacts DEF visible
<1>2. ASSUME NEW d \in Deltas, NEW t \in Timestamps, ReceiveDelta(d, t)
      PROVE  \/ UNCHANGED <<visible, syncState>>
             \/ UNCHANGED visible /\ syncState' # "Live"
             \/ UNCHANGED visible /\ syncState' = syncState
             \/ ApplyDelta(d, t)
  BY <1>2 DEF ReceiveDelta, RejectMalformedDelta, IgnoreStaleDelta, RejectOverflow,
              RejectGap, BufferDelta
<1>3. CASE UNCHANGED visible /\ (syncState' # "Live" \/ syncState' = syncState)
  BY <1>3, HistoryFacts DEF visible
<1>4. ASSUME NEW d \in Deltas, NEW t \in Timestamps, ApplyDelta(d, t)
      PROVE  /\ lastUpdateId' > lastUpdateId
             /\ lastSnapshotUpdateId' = lastSnapshotUpdateId
             /\ syncState = "Live"
  BY <1>4, FreshIsNewer DEF ApplyDelta
<1>5. ASSUME NEW s \in Snapshots, NEW t \in Timestamps, ApplySnapshot(s, t)
      PROVE  /\ lastUpdateId' >= lastUpdateId
             /\ lastSnapshotUpdateId' > lastSnapshotUpdateId
  <2> DEFINE m == Len(updateBuffer')
  <2>1. s.id \in Nat /\ lastSnapshotUpdateId' = s.id /\ s.id > lastSnapshotUpdateId
    BY <1>5, LoadFacts, IdsAreNaturals
  <2>2. lastUpdateId' \in Nat /\ lastUpdateId' >= s.id
    <3>1. CASE updateBuffer' = <<>>
      BY <1>5, <2>1, <3>1, LoadFacts
    <3>2. CASE updateBuffer' # <<>>
      <4>1. m \in 1 .. m /\ lastUpdateId' = updateBuffer'[m].delta.final
        BY <1>5, <3>2, LoadFacts
      <4>2. updateBuffer'[m].delta.final > s.id /\ updateBuffer'[m].delta.final \in Ids
        BY <1>5, <4>1, LoadFacts
      <4>3. updateBuffer'[m].delta.final \in Nat
        BY <4>2, IdsAreNaturals
      <4> QED
        BY <2>1, <4>1, <4>2, <4>3
    <3> QED
      BY <3>1, <3>2
  <2>3. lastUpdateId' >= lastUpdateId
    <3>1. CASE lastUpdateId = lastSnapshotUpdateId
      BY <2>1, <2>2, <3>1, HistoryFacts
    <3>2. ASSUME NEW j \in 1 .. Len(updateBuffer), updateBuffer[j].delta.final = lastUpdateId
          PROVE  lastUpdateId' >= lastUpdateId
      <4>1. updateBuffer[j].delta.final \in Nat
        BY HistoryFacts
      <4>2. CASE updateBuffer[j].delta.final <= s.id
        BY <2>1, <2>2, <3>2, <4>1, <4>2
      <4>3. CASE updateBuffer[j].delta.final > s.id
        <5>1. PICK i \in 1 .. m : updateBuffer'[i] = updateBuffer[j]
          BY <1>5, <4>3, LoadFacts
        <5>2. m \in Nat /\ updateBuffer' # <<>>
          BY <1>5, <5>1, LoadFacts
        <5>3. m \in 1 .. m /\ lastUpdateId' = updateBuffer'[m].delta.final
          BY <1>5, <5>2, LoadFacts
        <5>4. i < m => updateBuffer'[i].delta.final < updateBuffer'[m].delta.final
          BY <1>5, <5>1, <5>3, LoadFacts DEF OrderedHistory
        <5>5. i = m \/ i < m
          BY <5>2
        <5> QED
          BY <2>2, <3>2, <4>1, <5>1, <5>3, <5>4, <5>5
      <4> QED
        BY <2>1, <4>1, <4>2, <4>3
    <3> QED
      BY <3>1, <3>2 DEF IInv, HistoryReachesVisible
  <2> QED
    BY <2>1, <2>3
<1>6. ASSUME NEW s \in Snapshots, NEW t \in Timestamps, ReceiveSnapshot(s, t)
      PROVE  UNCHANGED <<visible, syncState>> \/ ApplySnapshot(s, t)
  BY <1>6 DEF ReceiveSnapshot, RejectSnapshot
<1>7. CASE \E d \in Deltas, t \in Timestamps : ApplyDelta(d, t)
  <2>1. lastUpdateId' > lastUpdateId /\ lastSnapshotUpdateId' = lastSnapshotUpdateId
        /\ syncState = "Live"
    BY <1>4, <1>7
  <2> QED
    BY <1>0, <2>1, HistoryFacts
<1>8. CASE \E s \in Snapshots, t \in Timestamps : ApplySnapshot(s, t)
  <2>1. lastUpdateId' >= lastUpdateId /\ lastSnapshotUpdateId' > lastSnapshotUpdateId
    BY <1>5, <1>8
  <2> QED
    BY <1>0, <2>1, HistoryFacts
<1>9. CASE UNCHANGED vars
  BY <1>1, <1>9 DEF vars, visible
<1>10. CASE Next
  BY <1>1, <1>2, <1>3, <1>6, <1>7, <1>8, <1>10 DEF Next
<1> QED
  BY <1>9, <1>10

(* A book that is live after it was handed a delta shows that delta, or a   *)
(* newer one, or the snapshot that covered it: only the call that applies   *)
(* it, and the one that finds it stale, leave the book live.                *)
LEMMA LiveAnswers ==
  ASSUME IInv, NEW d \in Deltas, NEW t \in Timestamps,
         ReceiveDelta(d, t), WellFormed(d), syncState' = "Live"
  PROVE  ~ (d.final > lastUpdateId')
<1>0. d.final \in Nat
  BY IdsAreNaturals, ParameterTypes
<1>1. CASE ApplyDelta(d, t)
  BY <1>0, <1>1 DEF ApplyDelta
<1>2. CASE IgnoreStaleDelta(d)
  <2>1. /\ StaleDelta(d) /\ syncState = "Live"
        /\ lastUpdateId' = lastUpdateId
    BY <1>2 DEF IgnoreStaleDelta, visible
  <2>2. lastUpdateId \in Nat
    BY <2>1, IdsAreNaturals, HistoryFacts DEF IInv, TypeOK, LiveHistoryIsComplete, HistoryReachesVisible
  <2>3. CASE d.final <= BackId
    <3>1. updateBuffer # <<>>
      BY <1>0, <2>3 DEF BackId, None
    <3>2. lastUpdateId = BackId
      BY <2>1, <3>1 DEF IInv, LiveHistoryIsComplete
    <3> QED
      BY <1>0, <2>1, <2>2, <2>3, <3>2
  <2>4. CASE d.final <= (IF lastUpdateId = None THEN 0 ELSE lastUpdateId)
    BY <1>0, <2>1, <2>2, <2>4 DEF None
  <2> QED
    BY <2>1, <2>3, <2>4 DEF StaleDelta
<1>3. CASE RejectMalformedDelta(d) \/ RejectOverflow(d) \/ RejectGap(d, t) \/ BufferDelta(d, t)
  BY <1>3 DEF RejectMalformedDelta, RejectOverflow, RejectGap, BufferDelta
<1> QED
  BY <1>1, <1>2, <1>3 DEF ReceiveDelta

(* The IDs never go back, and no delta that the book lost or cannot show    *)
(* leaves it live.                                                          *)
THEOREM LiveBookStaysUpToDate == Spec => LiveBookKeepsUp
<1>1. IInv /\ [Next]_vars
        => [/\ lastUpdateId' >= lastUpdateId
            /\ lastSnapshotUpdateId' >= lastSnapshotUpdateId
            /\ syncState' = "Live" =>
                 ~ \E d \in Deltas, t \in Timestamps :
                     WellFormed(d) /\ d.final > lastUpdateId' /\ ReceiveDelta(d, t)]_vars
  BY NextIds, LiveAnswers
<1> QED
  BY <1>1, Invariance, PTL DEF Spec, LiveBookKeepsUp

(* A live contiguous book shows the venue's book after the visible ID. *)
LiveIsVenue == syncState = "Live" => lastUpdateId \in Ids /\ image = Exchange[lastUpdateId]

(* It follows from the invariant: the history is an unbroken chain. *)
LEMMA LiveShowsVenue ==
  ASSUME UpdatePolicy = "Contiguous"
  PROVE  IInv => LiveIsVenue
<1> SUFFICES ASSUME IInv, syncState = "Live"
             PROVE  lastUpdateId \in Ids /\ image = Exchange[lastUpdateId]
  BY DEF LiveIsVenue
<1> DEFINE n == Len(updateBuffer)
<1>1. lastSnapshotUpdateId \in Ids
  BY DEF IInv, LiveHistoryIsComplete, TypeOK
<1>2. image = Replayed(Exchange[lastSnapshotUpdateId], updateBuffer)
  BY DEF IInv, VisibleIsSnapshotPlusHistory
<1>3. Replayed(Exchange[lastSnapshotUpdateId], updateBuffer)
        = Exchange[Reached(lastSnapshotUpdateId, updateBuffer, n)]
  BY <1>1, HistoryFacts, ChainReplaysVenue DEF IInv, LiveHistoryIsComplete
<1>4. Reached(lastSnapshotUpdateId, updateBuffer, n) = lastUpdateId
  <2>1. n = 0 <=> updateBuffer = <<>>
    BY HistoryFacts, EmptySeq
  <2> QED
    BY <2>1, HistoryFacts DEF Reached, IInv, LiveHistoryIsComplete
<1>5. lastUpdateId \in Ids
  BY DEF IInv, LiveHistoryIsComplete, HistoryReachesVisible, TypeOK
<1> QED
  BY <1>2, <1>3, <1>4, <1>5

(* Every call is a step of the replica, or changes nothing a reader sees. *)
LEMMA NextIsReplicaStep ==
  IInv /\ LiveIsVenue' /\ [Next]_vars => [Replica!Next]_(Replica!vars)
<1> SUFFICES ASSUME IInv, LiveIsVenue', [Next]_vars
             PROVE  [Replica!Next]_(Replica!vars)
  OBVIOUS
<1> USE DEF Replica!Next, Replica!vars
<1>1. CASE syncState' = "Live"
  <2>1. lastUpdateId' >= lastUpdateId
    BY NextIds
  <2> QED
    BY <1>1, <2>1 DEF Replica!Follow, Ids, LiveIsVenue
<1>2. CASE syncState' # "Live"
  <2>1. UNCHANGED visible
    BY <1>2 DEF Next, vars, visible, ReceiveDelta, RejectMalformedDelta, IgnoreStaleDelta,
                RejectOverflow, RejectGap, BufferDelta, ApplyDelta, ReceiveSnapshot,
                RejectSnapshot, ApplySnapshot, LoadSnapshot, Replay
  <2> QED
    BY <1>2, <2>1 DEF Replica!Lose, visible
<1> QED
  BY <1>1, <1>2

(* A contiguous book implements the replica: what it shows is always the    *)
(* venue's book after one ID that never goes back, whatever was lost,       *)
(* repeated or reordered on the way and whatever the history could hold.    *)
THEOREM ImplementsReplica ==
  ASSUME UpdatePolicy = "Contiguous"
  PROVE  Spec => ReplicaSpec
<1>1. Init => Replica!Init
  BY DEF Init, Replica!Init, EmptyImage, None
<1>2. IInv => LiveIsVenue
  BY LiveShowsVenue
<1>3. IInv /\ LiveIsVenue' /\ [Next]_vars => [Replica!Next]_(Replica!vars)
  BY NextIsReplicaStep
<1> QED
  BY <1>1, <1>2, <1>3, Invariance, PTL DEF Spec, ReplicaSpec, Replica!Spec


-----------------------------------------------------------------------------
(* The grid: slots and prices are one to one. *)

LEMMA GridFacts ==
  /\ TickSize \in Nat \ {0} /\ MinPrice \in Nat /\ MaxPrice \in Nat
  /\ MinPrice % TickSize = 0
  /\ (MaxPrice - MinPrice) \div TickSize \in Nat
  /\ Slots = 0 .. (MaxPrice - MinPrice) \div TickSize
  /\ IsFiniteSet(Slots)
<1>1. TickSize \in Int /\ MinPrice \in Int /\ MaxPrice \in Int
  BY Grid
<1>2. /\ TickSize > 0 /\ MinPrice >= 0 /\ MaxPrice >= MinPrice
      /\ MinPrice % TickSize = 0
      /\ Slots = 0 .. (MaxPrice - MinPrice) \div TickSize + 1 - 1
  BY <1>1, Grid DEF Slots, LevelCount
<1>3. (MaxPrice - MinPrice) \div TickSize \in Nat
  <2>1. 0 * TickSize <= MaxPrice - MinPrice
    BY <1>1, <1>2
  <2>2. 0 <= (MaxPrice - MinPrice) \div TickSize
    BY <1>1, <1>2, <2>1, QuotientAtLeast
  <2>3. (MaxPrice - MinPrice) \div TickSize \in Int
    BY <1>1, <1>2, QuotientBounds
  <2> QED
    BY <2>2, <2>3
<1>4. Slots = 0 .. (MaxPrice - MinPrice) \div TickSize
  BY <1>2, <1>3
<1> QED
  BY <1>1, <1>2, <1>3, <1>4, FS_Interval

(* A multiple of the tick is what its quotient says. *)
LEMMA MultipleOfTick ==
  ASSUME NEW p \in Nat, p % TickSize = 0
  PROVE  p = TickSize * (p \div TickSize) /\ p \div TickSize \in Int
BY GridFacts

LEMMA PriceOnGrid ==
  ASSUME NEW price \in Int, OnGrid(price)
  PROVE  IndexOf(price) \in Slots /\ PriceAt(IndexOf(price)) = price
<1> DEFINE tick == TickSize
           a == MinPrice \div tick
           b == price \div tick
           c == MaxPrice - MinPrice
<1>1. tick \in Nat \ {0} /\ MinPrice \in Nat /\ price \in Nat /\ c \in Nat
      /\ price - MinPrice \in Nat /\ price - MinPrice <= c
  BY GridFacts DEF OnGrid
<1>2. MinPrice = tick * a /\ price = tick * b /\ a \in Int /\ b \in Int
  BY <1>1, GridFacts, MultipleOfTick DEF OnGrid
<1>3. price - MinPrice = (b - a) * tick
  <2> HIDE DEF a, b
  <2> QED
    BY <1>1, <1>2
<1>4. (price - MinPrice) \div tick = b - a
  <2> HIDE DEF a, b
  <2>1. b - a <= (price - MinPrice) \div tick
    BY <1>1, <1>2, <1>3, QuotientAtLeast
  <2>2. ((price - MinPrice) \div tick) * tick <= (b - a) * tick
        /\ (price - MinPrice) \div tick \in Int
    BY <1>1, <1>3, QuotientBounds
  <2>3. (price - MinPrice) \div tick <= b - a
    <3> DEFINE q == (price - MinPrice) \div tick
    <3>1. q \in Int /\ q * tick <= (b - a) * tick
      BY <2>2
    <3>2. (b - a - q) * tick >= 0
      <4> HIDE DEF q
      <4> QED
        BY <1>1, <1>2, <3>1
    <3> HIDE DEF q
    <3>3. q <= b - a
      BY <1>1, <1>2, <3>1, <3>2
    <3> QED
      BY <3>3 DEF q
  <2> QED
    BY <1>2, <2>1, <2>2, <2>3
<1>5. IndexOf(price) = b - a /\ b - a \in Int
  BY <1>2, <1>4 DEF IndexOf
<1>6. 0 <= b - a
  <2>1. 0 * tick <= price - MinPrice
    BY <1>1
  <2> QED
    BY <1>1, <1>4, <2>1, QuotientAtLeast
<1>7. b - a <= c \div tick
  <2>1. (price - MinPrice) \div tick <= c \div tick
    <3>1. price - MinPrice \in Int /\ c \in Int
      BY <1>1
    <3> HIDE DEF c
    <3> QED
      BY <1>1, <3>1, QuotientMonotonic
  <2> QED
    BY <1>4, <2>1
<1>8. b - a \in Slots
  BY <1>5, <1>6, <1>7, GridFacts
<1>9. PriceAt(b - a) = price
  <2> HIDE DEF a, b
  <2>1. MinPrice + tick * (b - a) = price
    BY <1>1, <1>2
  <2> QED
    BY <2>1 DEF PriceAt
<1> QED
  BY <1>5, <1>8, <1>9

LEMMA SlotOnGrid ==
  ASSUME NEW slot \in Slots
  PROVE  /\ PriceAt(slot) \in Int
         /\ OnGrid(PriceAt(slot))
         /\ IndexOf(PriceAt(slot)) = slot
<1> DEFINE tick == TickSize
           a == MinPrice \div tick
           c == MaxPrice - MinPrice
<1>1. tick \in Nat \ {0} /\ MinPrice \in Nat /\ MaxPrice \in Nat /\ c \in Int
      /\ slot \in Nat /\ slot <= c \div tick /\ c \div tick \in Nat
  BY GridFacts
<1>2. MinPrice = tick * a /\ a \in Int
  BY GridFacts, MultipleOfTick
<1>3. slot * tick <= c
  <2>1. slot * tick <= (c \div tick) * tick
    BY <1>1, ProductMonotonic
  <2>2. (c \div tick) * tick <= c
    BY <1>1, QuotientBounds
  <2> DEFINE q == c \div tick
  <2>3. q \in Nat /\ q * tick <= c /\ slot * tick <= q * tick
    BY <1>1, <2>1, <2>2
  <2> HIDE DEF q, c
  <2> QED
    BY <1>1, <2>3
<1>4. PriceAt(slot) = MinPrice + tick * slot /\ PriceAt(slot) \in Nat
  BY <1>1 DEF PriceAt
<1>5. PriceAt(slot) = tick * (a + slot)
  <2> HIDE DEF a
  <2> QED
    BY <1>1, <1>2, <1>4
<1>6. PriceAt(slot) % tick = 0
  <2> DEFINE k == a + slot
  <2>1. k \in Int
    BY <1>1, <1>2
  <2> HIDE DEF a, k
  <2>2. (tick * k) % tick = 0
    BY <1>1, <2>1
  <2> QED
    BY <1>5, <2>2 DEF k
<1>7. OnGrid(PriceAt(slot))
  BY <1>1, <1>3, <1>4, <1>6 DEF OnGrid
<1>8. (PriceAt(slot) - MinPrice) \div tick = slot
  <2>1. PriceAt(slot) - MinPrice = slot * tick
    BY <1>1, <1>4
  <2>2. (slot * tick) \div tick = slot
    BY <1>1
  <2> QED
    BY <2>1, <2>2
<1> QED
  BY <1>4, <1>7, <1>8 DEF IndexOf

(* The slot of a level, and the level of a slot. *)
LEMMA LevelFacts ==
  ASSUME NEW lv \in Levels
  PROVE  /\ lv = <<lv[1], lv[2]>> /\ lv[1] \in Sides /\ lv[2] \in Int
         /\ OnGrid(lv[2])
         /\ IndexOf(lv[2]) \in Slots /\ PriceAt(IndexOf(lv[2])) = lv[2]
<1>1. /\ lv = <<lv[1], lv[2]>> /\ lv[1] \in Sides
      /\ lv[2] \in MinPrice .. MaxPrice /\ OnGrid(lv[2])
  BY Grid
<1>2. lv[2] \in Int
  BY <1>1, GridFacts
<1> QED
  BY <1>1, <1>2, PriceOnGrid

LEMMA SlotIsLevel ==
  ASSUME NEW side \in Sides, NEW slot \in Slots
  PROVE  <<side, PriceAt(slot)>> \in Levels
<1>1. PriceAt(slot) \in MinPrice .. MaxPrice /\ OnGrid(PriceAt(slot))
  BY SlotOnGrid, GridFacts DEF OnGrid
<1> QED
  BY <1>1, Grid

LEMMA LevelsAreFinite == IsFiniteSet(Levels)
<1>1. IsFiniteSet(Sides) /\ IsFiniteSet({price \in MinPrice .. MaxPrice : OnGrid(price)})
  <2>1. IsFiniteSet(MinPrice .. MaxPrice)
    BY GridFacts, FS_Interval
  <2>2. IsFiniteSet({"Bid"}) /\ IsFiniteSet({"Bid"} \cup {"Ask"})
    BY FS_EmptySet, FS_AddElement, FS_Singleton
  <2>3. Sides = {"Bid"} \cup {"Ask"}
    BY DEF Sides
  <2> QED
    BY <2>1, <2>2, <2>3, FS_Subset
<1> QED
  BY <1>1, Grid, FS_Product

-----------------------------------------------------------------------------
(* One side. *)

(* The range of occupied slots ends at occupied ones and leaves none out. *)
Tight(sizes, occupied) ==
  IF occupied = <<>> THEN \A slot \in Slots : sizes[slot] = 0
  ELSE \E first, last \in Slots :
         /\ occupied = <<first, last>>
         /\ sizes[first] # 0 /\ sizes[last] # 0
         /\ \A slot \in Slots : sizes[slot] # 0 => first <= slot /\ slot <= last

IsSide(side) ==
  /\ side = [sizes |-> side.sizes, occupied |-> side.occupied]
  /\ side.sizes \in [Slots -> Int]
  /\ Tight(side.sizes, side.occupied)

LEMMA NewSideFacts == IsSide(NewSide) /\ NewSide.sizes = [slot \in Slots |-> 0]
BY DEF NewSide, IsSide, Tight

(* The least and the greatest of some slots. *)
LEMMA ExtremeSlots ==
  ASSUME NEW T \in SUBSET Slots, T # {}
  PROVE  /\ Min(T) \in T /\ \A x \in T : Min(T) <= x
         /\ Max(T) \in T /\ \A x \in T : x <= Max(T)
<1>1. T \in SUBSET Nat /\ T \in SUBSET Int /\ IsFiniteSet(T)
  <2>1. IsFiniteSet(T)
    BY GridFacts, FS_Subset
  <2>2. Slots \in SUBSET Nat
    BY GridFacts
  <2> QED
    BY <2>1, <2>2
<1>2. \E x \in T : \A y \in T : x <= y
  BY <1>1, LeastElement
<1>3. Min(T) \in T /\ \A x \in T : Min(T) <= x
  BY <1>2 DEF Min
<1>4. PICK x \in T : \A y \in T : y <= x
  BY <1>1, GreatestElement
<1>5. \A y \in T : x >= y
  BY <1>1, <1>4
<1>6. Max(T) \in T /\ \A y \in T : Max(T) >= y
  BY <1>4, <1>5 DEF Max
<1> QED
  BY <1>1, <1>3, <1>6

(* How a range is shown to be tight. *)
LEMMA TightRange ==
  ASSUME NEW sizes, NEW first \in Slots, NEW last \in Slots, sizes[first] # 0, sizes[last] # 0,
         \A slot \in Slots : sizes[slot] # 0 => first <= slot /\ slot <= last
  PROVE  Tight(sizes, <<first, last>>)
<1>1. <<first, last>> # <<>>
  OBVIOUS
<1> QED
  BY <1>1 DEF Tight

LEMMA TightEmpty ==
  ASSUME NEW sizes, \A slot \in Slots : sizes[slot] = 0
  PROVE  Tight(sizes, <<>>)
BY DEF Tight

(* Adding a slot to the range. *)
LEMMA WidenedTight ==
  ASSUME NEW sizes \in [Slots -> Int], NEW occupied, Tight(sizes, occupied),
         NEW slot \in Slots, NEW size \in Int, size # 0
  PROVE  Tight([sizes EXCEPT ![slot] = size], Widened(occupied, slot))
<1> DEFINE new == [sizes EXCEPT ![slot] = size]
<1> SUFFICES Tight(new, Widened(occupied, slot))
  OBVIOUS
<1>1. /\ new[slot] # 0
      /\ \A other \in Slots : other # slot => new[other] = sizes[other]
      /\ Slots \in SUBSET Int
  BY GridFacts
<1>2. CASE occupied = <<>>
  <2>1. \A other \in Slots : new[other] # 0 => other = slot
    BY <1>1, <1>2 DEF Tight
  <2>2. Widened(occupied, slot) = <<slot, slot>>
    BY <1>2 DEF Widened
  <2>3. \A other \in Slots : new[other] # 0 => slot <= other /\ other <= slot
    BY <1>1, <2>1
  <2> HIDE DEF new
  <2> QED
    BY <1>1, <2>2, <2>3, TightRange
<1>3. CASE occupied # <<>>
  <2>1. PICK first \in Slots, last \in Slots :
          /\ occupied = <<first, last>>
          /\ sizes[first] # 0 /\ sizes[last] # 0
          /\ \A other \in Slots : sizes[other] # 0 => first <= other /\ other <= last
    BY <1>3 DEF Tight
  <2> DEFINE low == Min({first, slot})
             high == Max({last, slot})
  <2>2. /\ low \in {first, slot} /\ low <= first /\ low <= slot
        /\ high \in {last, slot} /\ last <= high /\ slot <= high
    BY ExtremeSlots
  <2>3. Widened(occupied, slot) = <<low, high>>
    BY <1>3, <2>1 DEF Widened
  <2> HIDE DEF low, high
  <2>4. low \in Slots /\ high \in Slots /\ new[low] # 0 /\ new[high] # 0
    BY <1>1, <2>1, <2>2
  <2>5. ASSUME NEW other \in Slots, new[other] # 0
        PROVE  low <= other /\ other <= high
    BY <1>1, <2>1, <2>2, <2>4, <2>5
  <2> HIDE DEF new
  <2> QED
    BY <2>3, <2>4, <2>5, TightRange
<1> QED
  BY <1>2, <1>3

(* The two scans after a deletion. *)
LEMMA NarrowedTight ==
  ASSUME NEW sizes \in [Slots -> Int], NEW occupied, Tight(sizes, occupied), NEW slot \in Slots
  PROVE  LET new == [sizes EXCEPT ![slot] = 0]
         IN  Tight(new, Narrowed(new, occupied))
<1> DEFINE new == [sizes EXCEPT ![slot] = 0]
<1> SUFFICES Tight(new, Narrowed(new, occupied))
  OBVIOUS
<1>1. /\ new \in [Slots -> Int] /\ new[slot] = 0
      /\ \A other \in Slots : other # slot => new[other] = sizes[other]
      /\ Slots \in SUBSET Int
  BY GridFacts
<1>2. CASE occupied = <<>>
  <2>1. Narrowed(new, occupied) = <<>>
    BY <1>2 DEF Narrowed
  <2>2. \A other \in Slots : new[other] = 0
    BY <1>1, <1>2 DEF Tight
  <2> HIDE DEF new
  <2> QED
    BY <2>1, <2>2, TightEmpty
<1>3. CASE occupied # <<>>
  <2>1. PICK from \in Slots, to \in Slots :
          /\ occupied = <<from, to>>
          /\ \A other \in Slots : sizes[other] # 0 => from <= other /\ other <= to
    BY <1>3 DEF Tight
  <2>2. \A other \in Slots : new[other] # 0 => from <= other /\ other <= to
    BY <1>1, <2>1
  <2>3. /\ \A a, b \in Slots : a .. b \in SUBSET Slots
        /\ from .. to \in SUBSET Slots
    BY GridFacts
  <2> DEFINE up == {other \in from .. to : new[other] # 0} \cup {to}
             first == Min(up)
             down == {other \in first .. to : new[other] # 0} \cup {first}
             last == Max(down)
  <2>4. first \in up /\ \A other \in up : first <= other
    <3>1. up \in SUBSET Slots /\ up # {}
      BY <2>3
    <3> HIDE DEF up
    <3> QED
      BY <3>1, ExtremeSlots
  <2>5. first \in Slots /\ first .. to \in SUBSET Slots
    <3>1. first \in Slots
      BY <2>3, <2>4
    <3> HIDE DEF first
    <3> QED
      BY <2>3, <3>1
  <2>6. last \in down /\ \A other \in down : other <= last
    <3>1. down \in SUBSET Slots /\ down # {}
      BY <2>5
    <3> HIDE DEF down
    <3> QED
      BY <3>1, ExtremeSlots
  <2>7. last \in Slots
    BY <2>5, <2>6
  <2>8. Narrowed(new, occupied) = IF new[first] # 0 THEN <<first, last>> ELSE <<>>
    <3> HIDE DEF new
    <3> QED
      BY <1>3, <2>1 DEF Narrowed
  <2> HIDE DEF new
  <2>9. ASSUME NEW other \in Slots, new[other] # 0
        PROVE  new[first] # 0 /\ first <= other /\ other <= last
    <3>1. other \in from .. to /\ other \in up
      BY <2>2, <2>9, GridFacts
    <3>2. first <= other
      BY <2>4, <3>1
    <3>3. other \in first .. to
      BY <2>5, <3>1, <3>2, GridFacts
    <3>4. other <= last
      BY <2>6, <2>9, <3>3
    <3>5. new[first] # 0
      <4>1. CASE first = to
        <5>1. other = to
          BY <2>1, <3>1, <3>2, <4>1, GridFacts
        <5> QED
          BY <2>9, <4>1, <5>1
      <4>2. CASE first # to
        BY <2>4, <4>2
      <4> QED
        BY <4>1, <4>2
    <3> QED
      BY <3>2, <3>4, <3>5
  <2>10. CASE new[first] # 0
    <3>1. new[last] # 0
      BY <2>6, <2>10
    <3>2. Narrowed(new, occupied) = <<first, last>>
      BY <2>8, <2>10
    <3>3. first \in Slots
      BY <2>5
    <3> HIDE DEF first, last
    <3> QED
      BY <2>7, <2>9, <2>10, <3>1, <3>2, <3>3, TightRange
  <2>11. CASE new[first] = 0
    <3>1. Narrowed(new, occupied) = <<>> /\ \A other \in Slots : new[other] = 0
      BY <2>8, <2>9, <2>11
    <3> QED
      BY <3>1, TightEmpty
  <2> QED
    BY <2>10, <2>11
<1> QED
  BY <1>2, <1>3

(* A size is written and the range follows. *)
LEMMA UpdateLevelFacts ==
  ASSUME NEW side, IsSide(side), NEW price \in Int, OnGrid(price), NEW size \in Int
  PROVE  LET new == UpdateLevel(side, price, size)
         IN  /\ IsSide(new)
             /\ new.sizes = [side.sizes EXCEPT ![IndexOf(price)] = size]
<1> DEFINE slot == IndexOf(price)
           sizes == [side.sizes EXCEPT ![slot] = size]
           occupied == IF size # 0 THEN Widened(side.occupied, slot)
                       ELSE Narrowed(sizes, side.occupied)
<1>1. slot \in Slots
  BY PriceOnGrid
<1>2. UpdateLevel(side, price, size) = [sizes |-> sizes, occupied |-> occupied]
  BY DEF UpdateLevel
<1>3. side.sizes \in [Slots -> Int] /\ Tight(side.sizes, side.occupied)
  BY DEF IsSide
<1>4. Tight(sizes, occupied)
  <2>1. CASE size # 0
    BY <1>1, <1>3, <2>1, WidenedTight
  <2>2. CASE size = 0
    BY <1>1, <1>3, <2>2, NarrowedTight
  <2> QED
    BY <2>1, <2>2
<1>5. sizes \in [Slots -> Int]
  BY <1>3
<1> HIDE DEF sizes, occupied
<1>6. IsSide([sizes |-> sizes, occupied |-> occupied])
  BY <1>4, <1>5 DEF IsSide
<1>7. [sizes |-> sizes, occupied |-> occupied].sizes = sizes
  OBVIOUS
<1> QED
  BY <1>2, <1>6, <1>7 DEF sizes

-----------------------------------------------------------------------------
(* A book of two sides and the image it holds. *)

IsBook(book) ==
  /\ book = [side \in Sides |-> book[side]]
  /\ \A side \in Sides : IsSide(book[side])

ImageOf(book) == [lv \in Levels |-> book[lv[1]].sizes[IndexOf(lv[2])]]

LEMMA ImageType ==
  ASSUME NEW book, IsBook(book)
  PROVE  ImageOf(book) \in [Levels -> Int]
BY LevelFacts DEF IsBook, IsSide, ImageOf

(* The update of one level of a book is that of one level of the image. *)
Changed(book, lv, size) == [book EXCEPT ![lv[1]] = UpdateLevel(@, lv[2], size)]

LEMMA ChangedFacts ==
  ASSUME NEW book, IsBook(book), NEW lv \in Levels, NEW size \in Int
  PROVE  /\ IsBook(Changed(book, lv, size))
         /\ ImageOf(Changed(book, lv, size)) = [ImageOf(book) EXCEPT ![lv] = size]
<1> DEFINE new == Changed(book, lv, size)
           one == UpdateLevel(book[lv[1]], lv[2], size)
<1>1. /\ lv = <<lv[1], lv[2]>> /\ lv[1] \in Sides /\ lv[2] \in Int /\ OnGrid(lv[2])
      /\ IndexOf(lv[2]) \in Slots
  BY LevelFacts
<1>2. IsSide(book[lv[1]]) /\ book[lv[1]].sizes \in [Slots -> Int]
  BY <1>1 DEF IsBook, IsSide
<1>3. IsSide(one) /\ one.sizes = [book[lv[1]].sizes EXCEPT ![IndexOf(lv[2])] = size]
  BY <1>1, <1>2, UpdateLevelFacts
<1>4. new = [side \in Sides |-> IF side = lv[1] THEN one ELSE book[side]]
  BY <1>1 DEF Changed, IsBook
<1>5. /\ new = [side \in Sides |-> new[side]]
      /\ \A side \in Sides : new[side] = IF side = lv[1] THEN one ELSE book[side]
  BY <1>4
<1> HIDE DEF new, one
<1>6. IsBook(new)
  BY <1>3, <1>5 DEF IsBook
<1>7. ASSUME NEW other \in Levels
      PROVE  ImageOf(new)[other] = [ImageOf(book) EXCEPT ![lv] = size][other]
  <2>1. /\ other = <<other[1], other[2]>> /\ other[1] \in Sides
        /\ IndexOf(other[2]) \in Slots /\ PriceAt(IndexOf(other[2])) = other[2]
        /\ PriceAt(IndexOf(lv[2])) = lv[2]
    BY LevelFacts
  <2>2. /\ ImageOf(new)[other] = new[other[1]].sizes[IndexOf(other[2])]
        /\ ImageOf(book)[other] = book[other[1]].sizes[IndexOf(other[2])]
        /\ lv \in DOMAIN ImageOf(book)
    BY DEF ImageOf
  <2>3. CASE other = lv
    BY <1>1, <1>2, <1>3, <1>5, <2>2, <2>3
  <2>4. CASE other # lv /\ other[1] # lv[1]
    BY <1>5, <2>1, <2>2, <2>4 DEF ImageOf
  <2>5. CASE other # lv /\ other[1] = lv[1]
    <3>1. IndexOf(other[2]) # IndexOf(lv[2])
      BY <1>1, <2>1, <2>5
    <3>2. new[other[1]].sizes[IndexOf(other[2])] = book[other[1]].sizes[IndexOf(other[2])]
      BY <1>1, <1>2, <1>3, <1>5, <2>1, <2>5, <3>1
    <3> QED
      BY <2>2, <2>5, <3>2 DEF ImageOf
  <2> QED
    BY <2>3, <2>4, <2>5
<1>8. ImageOf(new) = [ImageOf(book) EXCEPT ![lv] = size]
  BY <1>7 DEF ImageOf
<1> QED
  BY <1>6, <1>8 DEF new

(* How the sum of some sizes changes with one size. *)
LEMMA SumOverIsSum ==
  ASSUME NEW levels, NEW img
  PROVE  SumOver(levels, img) = SumFunctionOnSet(img, levels)
BY DEF SumOver, FoldSet, SumFunctionOnSet, FoldFunctionOnSet, MapThenFoldSet

LEMMA SumChanges ==
  ASSUME NEW levels \in SUBSET Levels, NEW img \in [Levels -> Int],
         NEW lv \in Levels, NEW size \in Int
  PROVE  /\ SumOver(levels, img) \in Int
         /\ SumOver(levels, [img EXCEPT ![lv] = size])
              = SumOver(levels, img) + IF lv \in levels THEN size - img[lv] ELSE 0
<1> DEFINE new == [img EXCEPT ![lv] = size]
           rest == levels \ {lv}
<1>1. IsFiniteSet(levels) /\ IsFiniteSet(rest)
  BY LevelsAreFinite, FS_Subset
<1>2. /\ new \in [Levels -> Int] /\ new[lv] = size
      /\ \A other \in rest : new[other] = img[other]
      /\ \A other \in levels : new[other] \in Int /\ img[other] \in Int
      /\ \A other \in rest : new[other] \in Int /\ img[other] \in Int
  OBVIOUS
<1> HIDE DEF new
<1>3. SumFunctionOnSet(new, rest) = SumFunctionOnSet(img, rest)
  BY <1>1, <1>2, SumEqual
<1>4. SumFunctionOnSet(img, rest) \in Int /\ SumFunctionOnSet(img, levels) \in Int
  BY <1>1, <1>2, SumType
<1>5. CASE lv \in levels
  <2>1. /\ SumFunctionOnSet(new, levels) = new[lv] + SumFunctionOnSet(new, rest)
        /\ SumFunctionOnSet(img, levels) = img[lv] + SumFunctionOnSet(img, rest)
    BY <1>1, <1>2, <1>5, SumTakeOut
  <2> QED
    BY <1>2, <1>3, <1>4, <1>5, <2>1, SumOverIsSum DEF new
<1>6. CASE lv \notin levels
  <2>1. rest = levels
    BY <1>6
  <2> QED
    BY <1>3, <1>4, <1>6, <2>1, SumOverIsSum DEF new
<1> QED
  BY <1>5, <1>6

-----------------------------------------------------------------------------
(* A delta: a fold over what it lists. *)

SideLevels(side) == {lv \in Levels : lv[1] = side}

IsFlow(total) ==
  /\ total = [side \in Sides |-> total[side]]
  /\ \A side \in Sides :
       /\ total[side] = [added |-> total[side].added, removed |-> total[side].removed]
       /\ total[side].added \in Int /\ total[side].removed \in Int

Net(total, side) == total[side].added - total[side].removed

LEMMA NetType ==
  ASSUME NEW total, IsFlow(total), NEW side \in Sides
  PROVE  Net(total, side) \in Int
<1>1. total[side].added \in Int /\ total[side].removed \in Int
  BY DEF IsFlow
<1> QED
  BY <1>1 DEF Net

OneChange(none, b, listed) ==
  [book |-> Changed(b.book, listed[1], listed[2]),
   flow |-> [b.flow EXCEPT
               ![listed[1][1]] =
                 WithFlow(@, listed[2] - LevelSize(b.book[listed[1][1]], listed[1][2]))]]

DeltaFold == INSTANCE FoldLemmas WITH Step <- OneChange

LEMMA DeltaIsFold ==
  ASSUME NEW book, NEW d
  PROVE  ApplyDeltaUpdate(book, d)
           = DeltaFold!LeftFold({}, [book |-> book, flow |-> ZeroFlow], d.listed)
BY DEF ApplyDeltaUpdate, OneChange, Changed, FoldLeft, MapThenFoldSet, Max,
       DeltaFold!LeftFold, DeltaFold!FoldLeft, DeltaFold!MapThenFoldSet, DeltaFold!Max

(* What one change adds or removes is what the sum of its side gains. *)
LEMMA OneChangeFacts ==
  ASSUME NEW b, IsBook(b.book), IsFlow(b.flow), NEW lv \in Levels, NEW size \in Int
  PROVE  LET r == OneChange({}, b, <<lv, size>>)
             before == ImageOf(b.book)
             after == ImageOf(r.book)
         IN  /\ IsBook(r.book) /\ IsFlow(r.flow)
             /\ after = [before EXCEPT ![lv] = size]
             /\ \A side \in Sides :
                  Net(r.flow, side) - Net(b.flow, side)
                    = SumOver(SideLevels(side), after) - SumOver(SideLevels(side), before)
             /\ size - before[lv] \in Int
             /\ \A side \in Sides :
                  /\ r.flow[side].added
                       = b.flow[side].added
                         + IF side = lv[1] /\ size - before[lv] > 0 THEN size - before[lv] ELSE 0
                  /\ r.flow[side].removed
                       = b.flow[side].removed
                         - IF side = lv[1] /\ size - before[lv] < 0 THEN size - before[lv] ELSE 0
<1> DEFINE r == OneChange({}, b, <<lv, size>>)
           before == ImageOf(b.book)
           after == ImageOf(r.book)
           at == lv[1]
           change == size - LevelSize(b.book[at], lv[2])
           one == WithFlow(b.flow[at], change)
<1>1. /\ at \in Sides /\ OnGrid(lv[2]) /\ before \in [Levels -> Int]
  BY LevelFacts, ImageType
<1>2. r.book = Changed(b.book, lv, size) /\ r.flow = [b.flow EXCEPT ![at] = one]
  BY DEF OneChange
<1>3. IsBook(r.book) /\ after = [before EXCEPT ![lv] = size]
  BY <1>2, ChangedFacts
<1>4. change = size - before[lv] /\ before[lv] \in Int /\ change \in Int
  BY <1>1 DEF LevelSize, ImageOf
<1> HIDE DEF change
<1>5. b.flow[at] = [added |-> b.flow[at].added, removed |-> b.flow[at].removed]
      /\ b.flow[at].added \in Int /\ b.flow[at].removed \in Int
  BY <1>1 DEF IsFlow
<1>6. /\ one = [added |-> one.added, removed |-> one.removed]
      /\ one.added \in Int /\ one.removed \in Int
      /\ one.added - one.removed = b.flow[at].added - b.flow[at].removed + change
      /\ one.added = b.flow[at].added + IF change > 0 THEN change ELSE 0
      /\ one.removed = b.flow[at].removed - IF change < 0 THEN change ELSE 0
  <2>1. CASE change > 0
    <3>1. one = [added |-> b.flow[at].added + change, removed |-> b.flow[at].removed]
      BY <1>5, <2>1 DEF WithFlow
    <3> HIDE DEF one
    <3> QED
      BY <1>4, <1>5, <2>1, <3>1
  <2>2. CASE ~ change > 0
    <3>1. one = [added |-> b.flow[at].added, removed |-> b.flow[at].removed - change]
      BY <1>5, <2>2 DEF WithFlow
    <3> HIDE DEF one
    <3> QED
      BY <1>4, <1>5, <2>2, <3>1
  <2> QED
    BY <2>1, <2>2
<1> HIDE DEF one, at
<1>7. /\ r.flow = [side \in Sides |-> r.flow[side]]
      /\ \A side \in Sides : r.flow[side] = IF side = at THEN one ELSE b.flow[side]
  <2>1. b.flow = [side \in Sides |-> b.flow[side]]
    BY DEF IsFlow
  <2>2. r.flow = [side \in Sides |-> IF side = at THEN one ELSE b.flow[side]]
    BY <1>2, <2>1
  <2> HIDE DEF r
  <2> QED
    BY <2>2
<1> HIDE DEF r
<1>8. IsFlow(r.flow)
  BY <1>6, <1>7 DEF IsFlow
<1>9. ASSUME NEW side \in Sides
      PROVE  Net(r.flow, side) - Net(b.flow, side)
               = SumOver(SideLevels(side), after) - SumOver(SideLevels(side), before)
  <2> DEFINE levels == SideLevels(side)
  <2>1. levels \in SUBSET Levels /\ (lv \in levels <=> side = at)
    BY DEF SideLevels, at
  <2> HIDE DEF levels
  <2>2. /\ SumOver(levels, before) \in Int
        /\ SumOver(levels, after)
             = SumOver(levels, before) + IF lv \in levels THEN size - before[lv] ELSE 0
    BY <1>1, <1>3, <2>1, SumChanges
  <2>3. b.flow[side].added \in Int /\ b.flow[side].removed \in Int
    BY DEF IsFlow
  <2>4. CASE side = at
    <3>1. SumOver(levels, after) = SumOver(levels, before) + change
      BY <1>4, <2>1, <2>2, <2>4
    <3>2. Net(r.flow, side) = Net(b.flow, side) + change /\ Net(b.flow, side) \in Int
      BY <1>4, <1>6, <1>7, <2>3, <2>4 DEF Net
    <3> QED
      BY <1>4, <2>2, <3>1, <3>2 DEF levels
  <2>5. CASE side # at
    <3>1. SumOver(levels, after) = SumOver(levels, before)
      BY <2>1, <2>2, <2>5
    <3>2. Net(r.flow, side) = Net(b.flow, side) /\ Net(b.flow, side) \in Int
      BY <1>7, <2>3, <2>5 DEF Net
    <3> QED
      BY <2>2, <3>1, <3>2 DEF levels
  <2> QED
    BY <2>4, <2>5
<1>10. ASSUME NEW side \in Sides
       PROVE  /\ r.flow[side].added
                   = b.flow[side].added + IF side = at /\ change > 0 THEN change ELSE 0
              /\ r.flow[side].removed
                   = b.flow[side].removed - IF side = at /\ change < 0 THEN change ELSE 0
  <2>1. b.flow[side].added \in Int /\ b.flow[side].removed \in Int
    BY DEF IsFlow
  <2>2. CASE side = at
    BY <1>6, <1>7, <2>2
  <2>3. CASE side # at
    <3>1. r.flow[side] = b.flow[side]
      BY <1>7, <2>3
    <3> QED
      BY <2>1, <2>3, <3>1
  <2> QED
    BY <2>2, <2>3
<1> QED
  BY <1>3, <1>4, <1>8, <1>9, <1>10 DEF r, at

LEMMA ListedFacts ==
  ASSUME NEW d \in Deltas, WellFormed(d)
  PROVE  /\ Len(d.listed) \in Nat /\ DOMAIN d.listed = 1 .. Len(d.listed)
         /\ \A i \in 1 .. Len(d.listed) :
              /\ d.listed[i] = <<d.listed[i][1], d.listed[i][2]>>
              /\ d.listed[i][1] \in Levels /\ d.listed[i][2] \in Int
<1>1. d.listed \in Seq((DOMAIN d.changes) \X Int)
  BY ListedChanges
<1>2. DOMAIN d.changes \in SUBSET Levels
  BY DEF WellFormed, LevelsValid
<1>3. \A i \in 1 .. Len(d.listed) : d.listed[i] \in (DOMAIN d.changes) \X Int
  BY <1>1
<1> QED
  BY <1>1, <1>2, <1>3

(* An image in which the first k changes of a list were laid over another: *)
(* each level has the size of its last mention.                            *)
LaidOver(listed, k, before, after) ==
  /\ \A lv \in Levels : (\A j \in 1 .. k : listed[j][1] # lv) => after[lv] = before[lv]
  /\ \A i \in 1 .. k :
       (\A j \in i + 1 .. k : listed[j][1] # listed[i][1]) => after[listed[i][1]] = listed[i][2]

LEMMA LaidOverNext ==
  ASSUME NEW listed, NEW k \in Nat \ {0}, NEW before, NEW middle \in [Levels -> Int],
         LaidOver(listed, k - 1, before, middle), listed[k][1] \in Levels
  PROVE  LaidOver(listed, k, before, [middle EXCEPT ![listed[k][1]] = listed[k][2]])
<1> DEFINE after == [middle EXCEPT ![listed[k][1]] = listed[k][2]]
<1>1. /\ after[listed[k][1]] = listed[k][2]
      /\ \A lv \in Levels : lv # listed[k][1] => after[lv] = middle[lv]
  OBVIOUS
<1> SUFFICES LaidOver(listed, k, before, after)
  OBVIOUS
<1> HIDE DEF after
<1>2. ASSUME NEW lv \in Levels, \A j \in 1 .. k : listed[j][1] # lv
      PROVE  after[lv] = before[lv]
  <2>1. lv # listed[k][1] /\ \A j \in 1 .. k - 1 : listed[j][1] # lv
    BY <1>2
  <2> QED
    BY <1>1, <2>1 DEF LaidOver
<1>3. ASSUME NEW i \in 1 .. k, \A j \in i + 1 .. k : listed[j][1] # listed[i][1]
      PROVE  after[listed[i][1]] = listed[i][2]
  <2>1. CASE i = k
    BY <1>1, <2>1
  <2>2. CASE i # k
    <3>1. i \in 1 .. k - 1 /\ k \in i + 1 .. k /\ \A j \in i + 1 .. k - 1 : j \in i + 1 .. k
      BY <2>2
    <3>2. listed[i][1] # listed[k][1]
      BY <1>3, <3>1
    <3>3. middle[listed[i][1]] = listed[i][2]
      BY <1>3, <3>1 DEF LaidOver
    <3>4. CASE listed[i][1] \in Levels
      BY <1>1, <3>2, <3>3, <3>4
    <3>5. CASE listed[i][1] \notin Levels
      BY <3>2, <3>3, <3>5 DEF after
    <3> QED
      BY <3>4, <3>5
  <2> QED
    BY <2>1, <2>2
<1> QED
  BY <1>2, <1>3 DEF LaidOver

(* The change a mention makes is from what the mentions before it have left. *)
LEMMA MentionedBefore ==
  ASSUME NEW n \in Nat, NEW listed, DOMAIN listed = 1 .. n, NEW k \in 1 .. n,
         listed[k][1] \in Levels, NEW before, NEW middle, LaidOver(listed, k - 1, before, middle)
  PROVE  StepChanges(listed, before)[k] = listed[k][2] - middle[listed[k][1]]
<1> DEFINE lv == listed[k][1]
           earlier == {j \in 1 .. k - 1 : listed[j][1] = lv}
<1>1. StepChanges(listed, before)[k]
        = listed[k][2] - IF earlier = {} THEN before[lv] ELSE listed[Max(earlier)][2]
  BY DEF StepChanges
<1>2. CASE earlier = {}
  BY <1>1, <1>2 DEF LaidOver
<1>3. CASE earlier # {}
  <2>1. earlier \in SUBSET (1 .. k - 1) /\ k - 1 \in Nat
    OBVIOUS
  <2>2. PICK m \in earlier : \A j \in earlier : j <= m
    <3> HIDE DEF earlier
    <3> QED
      BY <1>3, <2>1, GreatestIndex
  <2>3. Max(earlier) \in earlier /\ \A j \in earlier : Max(earlier) >= j
    <3>1. \A j \in earlier : m >= j
      BY <2>2
    <3> HIDE DEF earlier
    <3> QED
      BY <3>1 DEF Max
  <2> DEFINE last == Max(earlier)
  <2>4. last \in 1 .. k - 1 /\ listed[last][1] = lv
    BY <2>3
  <2>5. \A j \in last + 1 .. k - 1 : listed[j][1] # lv
    <3> SUFFICES ASSUME NEW j \in last + 1 .. k - 1, listed[j][1] = lv
                 PROVE  FALSE
      OBVIOUS
    <3>1. last \in Nat /\ j \in 1 .. k - 1 /\ j > last
      <4> HIDE DEF last
      <4> QED BY <2>4
    <3>2. j \in earlier
      BY <3>1
    <3>3. last >= j
      BY <2>3, <3>2
    <3> HIDE DEF last
    <3> QED
      BY <3>1, <3>3
  <2> HIDE DEF last
  <2>6. middle[lv] = listed[last][2]
    BY <2>4, <2>5 DEF LaidOver
  <2> QED
    BY <1>1, <1>3, <2>6 DEF last
<1> QED
  BY <1>2, <1>3

(* The sum over the chosen of the first numbers, from one number to the next. *)
SumSteps(chosen, given, at) ==
  /\ SumOver(chosen \cap (1 .. at - 1), given) \in Int
  /\ SumOver(chosen \cap (1 .. at), given)
       = SumOver(chosen \cap (1 .. at - 1), given) + IF at \in chosen THEN given[at] ELSE 0

LEMMA SumOfFirst ==
  ASSUME NEW most \in Nat, NEW given, \A i \in 1 .. most : given[i] \in Int,
         NEW chosen \in SUBSET (1 .. most), NEW at \in 1 .. most
  PROVE  SumSteps(chosen, given, at)
<1> DEFINE low == chosen \cap (1 .. at - 1)
           high == chosen \cap (1 .. at)
<1>1. IsFiniteSet(low) /\ IsFiniteSet(high)
  <2>1. IsFiniteSet(1 .. most) /\ low \in SUBSET (1 .. most) /\ high \in SUBSET (1 .. most)
    BY FS_Interval
  <2> HIDE DEF low, high
  <2> QED
    BY <2>1, FS_Subset
<1>2. high \ {at} = low /\ (at \in high <=> at \in chosen) /\ (at \notin chosen => high = low)
  OBVIOUS
<1>3. (\A i \in low : given[i] \in Int) /\ (\A i \in high : given[i] \in Int)
  OBVIOUS
<1> HIDE DEF low, high
<1>4. SumFunctionOnSet(given, low) \in Int
  BY <1>1, <1>3, SumType
<1>5. CASE at \in chosen
  <2>1. SumFunctionOnSet(given, high) = given[at] + SumFunctionOnSet(given, low)
    BY <1>1, <1>2, <1>3, <1>5, SumTakeOut
  <2> QED
    BY <1>4, <1>5, <2>1, SumOverIsSum DEF SumSteps, low, high
<1>6. CASE at \notin chosen
  <2>1. high = low
    BY <1>2, <1>6
  <2> QED
    BY <1>4, <1>6, <2>1, SumOverIsSum DEF SumSteps, low, high
<1> QED
  BY <1>5, <1>6, <1>4 DEF SumSteps, low, high

(* A list that was laid over an image to its end says what its delta does. *)
LEMMA LaidOverWhole ==
  ASSUME NEW d \in Deltas, WellFormed(d), NEW before, NEW after \in [Levels -> Int],
         LaidOver(d.listed, Len(d.listed), before, after)
  PROVE  after = Overwrite(before, d.changes)
<1> DEFINE n == Len(d.listed)
<1>1. /\ n \in Nat /\ DOMAIN d.listed = 1 .. n
      /\ DOMAIN d.changes = {d.listed[i][1] : i \in 1 .. n}
      /\ \A i \in 1 .. n :
           (\A j \in i + 1 .. n : d.listed[j][1] # d.listed[i][1])
             => d.changes[d.listed[i][1]] = d.listed[i][2]
  BY ListedFacts, ListedChanges
<1> SUFFICES ASSUME NEW lv \in Levels
             PROVE  after[lv] = IF lv \in DOMAIN d.changes THEN d.changes[lv] ELSE before[lv]
  BY DEF Overwrite
<1>2. CASE lv \notin DOMAIN d.changes
  BY <1>1, <1>2 DEF LaidOver
<1>3. CASE lv \in DOMAIN d.changes
  <2> DEFINE mentions == {i \in 1 .. n : d.listed[i][1] = lv}
  <2>1. mentions # {} /\ mentions \in SUBSET (1 .. n)
    BY <1>1, <1>3
  <2>2. PICK i \in mentions : \A j \in mentions : j <= i
    <3> HIDE DEF mentions, n
    <3> QED
      BY <1>1, <2>1, GreatestIndex
  <2>3. i \in 1 .. n /\ d.listed[i][1] = lv
    OBVIOUS
  <2>4. \A j \in i + 1 .. n : d.listed[j][1] # lv
    <3> SUFFICES ASSUME NEW j \in i + 1 .. n, d.listed[j][1] = lv
                 PROVE  FALSE
      OBVIOUS
    <3>1. j \in 1 .. n /\ i \in Nat /\ j > i
      BY <1>1, <2>3
    <3> QED
      BY <2>2, <3>1
  <2> HIDE DEF n
  <2>5. after[lv] = d.listed[i][2]
    BY <2>3, <2>4 DEF LaidOver, n
  <2>6. d.changes[lv] = d.listed[i][2]
    BY <1>1, <2>3, <2>4
  <2> QED
    BY <1>3, <2>5, <2>6
<1> QED
  BY <1>2, <1>3

(* The book after a delta holds its sizes laid over the image before, and  *)
(* the totals of its flow are what each side gained.                       *)
LEMMA DeltaFacts ==
  ASSUME NEW book, IsBook(book), NEW d \in Deltas, WellFormed(d)
  PROVE  LET applied == ApplyDeltaUpdate(book, d)
             before == ImageOf(book)
             after == ImageOf(applied.book)
         IN  /\ IsBook(applied.book) /\ IsFlow(applied.flow)
             /\ after = Overwrite(before, d.changes)
             /\ \A side \in Sides :
                  /\ Net(applied.flow, side)
                       = SumOver(SideLevels(side), after) - SumOver(SideLevels(side), before)
                  /\ applied.flow[side].added
                       = SumOver(Rising(d.listed, before, side), StepChanges(d.listed, before))
                  /\ applied.flow[side].removed
                       = -SumOver(Falling(d.listed, before, side), StepChanges(d.listed, before))
<1> DEFINE listed == d.listed
           n == Len(listed)
           start == [book |-> book, flow |-> ZeroFlow]
           before == ImageOf(book)
           total(side, img) == SumOver(SideLevels(side), img)
           steps == StepChanges(listed, before)
           up(side) == Rising(listed, before, side)
           down(side) == Falling(listed, before, side)
           Gross(b, k) ==
             \A side \in Sides :
               /\ b.flow[side].added = SumOver(up(side) \cap (1 .. k), steps)
               /\ b.flow[side].removed = -SumOver(down(side) \cap (1 .. k), steps)
           Sound(b, k) ==
             /\ Gross(b, k)
             /\ IsBook(b.book) /\ IsFlow(b.flow)
             /\ LaidOver(listed, k, before, ImageOf(b.book))
             /\ \A side \in Sides :
                  Net(b.flow, side) = total(side, ImageOf(b.book)) - total(side, before)
<1>1. /\ n \in Nat /\ DOMAIN listed = 1 .. n
      /\ \A i \in 1 .. n : /\ listed[i] = <<listed[i][1], listed[i][2]>>
                           /\ listed[i][1] \in Levels /\ listed[i][2] \in Int
  BY ListedFacts
<1>2. before \in [Levels -> Int]
  BY ImageType
<1>3. ASSUME NEW img \in [Levels -> Int], NEW side \in Sides
      PROVE  total(side, img) \in Int
  <2>1. IsFiniteSet(SideLevels(side)) /\ \A lv \in SideLevels(side) : img[lv] \in Int
    BY LevelsAreFinite, FS_Subset DEF SideLevels
  <2> QED
    BY <2>1, SumType, SumOverIsSum
<1>10. \A side \in Sides :
         /\ up(side) \in SUBSET (1 .. n) /\ down(side) \in SUBSET (1 .. n)
         /\ \A i \in 1 .. n :
              /\ i \in up(side) <=> listed[i][1][1] = side /\ steps[i] > 0
              /\ i \in down(side) <=> listed[i][1][1] = side /\ steps[i] < 0
  BY <1>1 DEF Rising, Falling
<1>11. \A i \in 1 .. n : steps[i] \in Int
  <2> SUFFICES ASSUME NEW i \in 1 .. n
               PROVE  steps[i] \in Int
    OBVIOUS
  <2> DEFINE earlier == {j \in 1 .. i - 1 : listed[j][1] = listed[i][1]}
             from == IF earlier = {} THEN before[listed[i][1]] ELSE listed[Max(earlier)][2]
  <2>1. steps[i] = listed[i][2] - from
    BY <1>1 DEF StepChanges
  <2>2. CASE earlier = {}
    BY <1>1, <1>2, <2>1, <2>2
  <2>3. CASE earlier # {}
    <3>1. earlier \in SUBSET (1 .. i - 1) /\ i - 1 \in Nat
      OBVIOUS
    <3>2. Max(earlier) \in earlier
      <4> HIDE DEF earlier
      <4>1. PICK m \in earlier : \A j \in earlier : j <= m
        BY <2>3, <3>1, GreatestIndex
      <4>2. \A j \in earlier : m >= j
        BY <3>1, <4>1
      <4> QED
        BY <4>2 DEF Max
    <3> DEFINE last == Max(earlier)
    <3>3. last \in 1 .. n
      BY <1>1, <3>2
    <3>4. steps[i] = listed[i][2] - listed[last][2]
      BY <2>1, <2>3
    <3> HIDE DEF last, steps
    <3> QED
      BY <1>1, <3>3, <3>4
  <2> QED
    BY <2>2, <2>3
<1> HIDE DEF listed, n, total, steps, up, down
<1>4. PICK run : DeltaFold!LeftRun({}, start, listed, n, run)
  BY <1>1, DeltaFold!LeftFoldRuns
<1>5. /\ run[0] = start
      /\ \A k \in 1 .. n : run[k] = OneChange({}, run[k - 1], listed[k])
      /\ ApplyDeltaUpdate(book, d) = run[n]
  BY <1>4, DeltaIsFold DEF DeltaFold!LeftRun, listed
<1> DEFINE T == {k \in 0 .. n : Sound(run[k], k)}
<1>6. 0 \in T
  <2>1. IsFlow(ZeroFlow) /\ \A side \in Sides : Net(ZeroFlow, side) = 0
    BY DEF IsFlow, Net, ZeroFlow
  <2>2. run[0].book = book /\ run[0].flow = ZeroFlow
    BY <1>5
  <2>3. LaidOver(listed, 0, before, before)
    BY DEF LaidOver
  <2>4. \A side \in Sides : total(side, before) \in Int
    BY <1>2, <1>3
  <2>6. Gross(run[0], 0)
    <3>1. \A set : SumOver(set \cap (1 .. 0), steps) = 0
      <4>1. \A set : set \cap (1 .. 0) = {}
        OBVIOUS
      <4>2. SumOver({}, steps) = 0
        BY SumEmpty, SumOverIsSum
      <4> QED
        BY <4>1, <4>2
    <3>2. \A side \in Sides : ZeroFlow[side].added = 0 /\ ZeroFlow[side].removed = 0
      BY DEF ZeroFlow
    <3> QED
      BY <2>2, <3>1, <3>2
  <2> HIDE DEF start, before, Gross
  <2>5. Sound(run[0], 0)
    BY <2>1, <2>2, <2>3, <2>4, <2>6 DEF before
  <2> QED
    BY <1>1, <2>5
<1>7. ASSUME NEW k \in 1 .. n, k - 1 \in T
      PROVE  k \in T
  <2> DEFINE b == run[k - 1]
             lv == listed[k][1]
             size == listed[k][2]
             middle == ImageOf(b.book)
             after == ImageOf(run[k].book)
  <2>1. /\ IsBook(b.book) /\ IsFlow(b.flow)
        /\ LaidOver(listed, k - 1, before, middle)
        /\ \A side \in Sides : Net(b.flow, side) = total(side, middle) - total(side, before)
    BY <1>7
  <2>2. lv \in Levels /\ size \in Int /\ run[k] = OneChange({}, b, <<lv, size>>)
    BY <1>1, <1>5
  <2> HIDE DEF b
  <2>3. /\ IsBook(run[k].book) /\ IsFlow(run[k].flow)
        /\ after = [middle EXCEPT ![lv] = size]
        /\ \A side \in Sides :
             Net(run[k].flow, side) - Net(b.flow, side) = total(side, after) - total(side, middle)
        /\ \A side \in Sides :
             /\ run[k].flow[side].added
                  = b.flow[side].added
                    + IF side = lv[1] /\ size - middle[lv] > 0 THEN size - middle[lv] ELSE 0
             /\ run[k].flow[side].removed
                  = b.flow[side].removed
                    - IF side = lv[1] /\ size - middle[lv] < 0 THEN size - middle[lv] ELSE 0
    <3> HIDE DEF lv, size
    <3> QED
      BY <2>1, <2>2, OneChangeFacts, SMTT(30) DEF total
  <2>4. middle \in [Levels -> Int] /\ after \in [Levels -> Int] /\ k \in Nat \ {0}
    <3>1. middle \in [Levels -> Int] /\ after \in [Levels -> Int]
      <4> HIDE DEF T, Sound
      <4> QED
        BY <2>1, <2>3, ImageType
    <3> HIDE DEF middle, after, T, Sound
    <3>2. k \in Nat \ {0}
      BY <1>1
    <3> QED
      BY <3>1, <3>2
  <2>5. LaidOver(listed, k, before, after)
    <3> HIDE DEF middle, after, before
    <3> QED
      BY <2>1, <2>2, <2>3, <2>4, LaidOverNext
  <2>6. ASSUME NEW side \in Sides
        PROVE  Net(run[k].flow, side) = total(side, after) - total(side, before)
    <3> HIDE DEF middle, after, before
    <3>1. /\ total(side, after) \in Int /\ total(side, middle) \in Int
          /\ total(side, before) \in Int
      BY <1>2, <1>3, <2>4
    <3>2. Net(run[k].flow, side) \in Int /\ Net(b.flow, side) \in Int
      BY <2>1, <2>3, NetType
    <3>3. /\ Net(b.flow, side) = total(side, middle) - total(side, before)
          /\ Net(run[k].flow, side) - Net(b.flow, side) = total(side, after) - total(side, middle)
      BY <2>1, <2>3
    <3> DEFINE x == Net(run[k].flow, side)
               y == Net(b.flow, side)
               u == total(side, before)
               v == total(side, middle)
               w == total(side, after)
    <3>4. x \in Int /\ y \in Int /\ u \in Int /\ v \in Int /\ w \in Int
      BY <3>1, <3>2
    <3>5. y = v - u /\ x - y = w - v
      BY <3>3
    <3> HIDE DEF x, y, u, v, w
    <3>6. x = w - u
      BY ONLY <3>4, <3>5
    <3> QED
      BY <3>6 DEF x, u, w
  <2>8. Gross(run[k], k)
    <3>1. Gross(b, k - 1)
      BY <1>7 DEF b
    <3>2. steps[k] = size - middle[lv]
      <4> HIDE DEF middle, before
      <4> QED
        BY <1>1, <2>1, <2>2, MentionedBefore DEF steps
    <3> HIDE DEF middle, after, before, lv, size
    <3> SUFFICES ASSUME NEW side \in Sides
                 PROVE  /\ run[k].flow[side].added = SumOver(up(side) \cap (1 .. k), steps)
                        /\ run[k].flow[side].removed = -SumOver(down(side) \cap (1 .. k), steps)
      BY DEF Gross
    <3> DEFINE x == steps[k]
               u == SumOver(up(side) \cap (1 .. k - 1), steps)
               v == SumOver(down(side) \cap (1 .. k - 1), steps)
    <3>3. /\ run[k].flow[side].added
                = b.flow[side].added + IF side = lv[1] /\ x > 0 THEN x ELSE 0
          /\ run[k].flow[side].removed
                = b.flow[side].removed - IF side = lv[1] /\ x < 0 THEN x ELSE 0
      BY <2>3, <3>2
    <3>4. /\ k \in up(side) <=> side = lv[1] /\ x > 0
          /\ k \in down(side) <=> side = lv[1] /\ x < 0
      BY <1>10 DEF lv
    <3>5. /\ u \in Int /\ v \in Int
          /\ SumOver(up(side) \cap (1 .. k), steps) = u + IF k \in up(side) THEN x ELSE 0
          /\ SumOver(down(side) \cap (1 .. k), steps) = v + IF k \in down(side) THEN x ELSE 0
      <4> DEFINE rising == up(side)
                 falling == down(side)
      <4>1. rising \in SUBSET (1 .. n) /\ falling \in SUBSET (1 .. n) /\ n \in Nat
        BY <1>1, <1>10
      <4> HIDE DEF rising, falling, steps, n
      <4>2. SumSteps(rising, steps, k) /\ SumSteps(falling, steps, k)
        BY <1>11, <4>1, SumOfFirst
      <4> QED
        BY <4>2 DEF SumSteps, rising, falling
    <3>6. b.flow[side].added = u /\ b.flow[side].removed = -v
      BY <3>1 DEF Gross
    <3>7. x \in Int
      BY <1>11
    <3> HIDE DEF u, v, x
    <3> QED
      BY <3>3, <3>4, <3>5, <3>6, <3>7
  <2> HIDE DEF Gross
  <2>7. Sound(run[k], k)
    BY <2>3, <2>5, <2>6, <2>8
  <2> QED
    BY <2>7
<1>8. Sound(run[n], n)
  <2> HIDE DEF T
  <2>1. n \in Nat /\ 0 \in T /\ \A k \in 1 .. n : k - 1 \in T => k \in T
    BY <1>1, <1>6, <1>7
  <2>2. \A k \in 0 .. n : k \in T
    BY ONLY <2>1, UpwardInduction
  <2>3. n \in T
    BY <2>1, <2>2
  <2> QED
    BY <2>3 DEF T
<1>9. ImageOf(run[n].book) = Overwrite(before, d.changes)
  <2>1. ImageOf(run[n].book) \in [Levels -> Int]
    BY <1>8, ImageType
  <2> HIDE DEF before
  <2> QED
    BY <1>8, <2>1, LaidOverWhole DEF listed, n
<1>12. ASSUME NEW side \in Sides
       PROVE  /\ run[n].flow[side].added = SumOver(up(side), steps)
              /\ run[n].flow[side].removed = -SumOver(down(side), steps)
  <2>1. up(side) \cap (1 .. n) = up(side) /\ down(side) \cap (1 .. n) = down(side)
    BY <1>10
  <2> QED
    BY <1>8, <2>1
<1> HIDE DEF Gross
<1> QED
  BY <1>5, <1>8, <1>9, <1>12 DEF total, steps, up, down, listed

-----------------------------------------------------------------------------
(* A snapshot: a fold over the levels of each side, and one over the       *)
(* history that it leaves to replay.                                       *)

LoadLevel(levels, loaded, lv) == UpdateLevel(loaded, lv[2], levels[lv])

SideFold == INSTANCE FoldLemmas WITH Step <- LoadLevel

ReplayEntry(none, book, entry) == ApplyDeltaUpdate(book, entry.delta).book

HistoryFold == INSTANCE FoldLemmas WITH Step <- ReplayEntry

LEMMA LoadsAreFolds ==
  ASSUME NEW s, NEW side
  PROVE  /\ LoadSide(s, side)
              = SideFold!SetFold(s.levels, NewSide, {lv \in DOMAIN s.levels : lv[1] = side})
         /\ LoadSides(s)
              = HistoryFold!LeftFold({}, [which \in Sides |-> LoadSide(s, which)],
                                     NewerThan(updateBuffer, s.id))
<1>1. LoadSide(s, side)
        = SideFold!SetFold(s.levels, NewSide, {lv \in DOMAIN s.levels : lv[1] = side})
  BY DEF LoadSide, LoadLevel, FoldSet, MapThenFoldSet,
         SideFold!SetFold, SideFold!FoldSet, SideFold!MapThenFoldSet
<1>2. LoadSides(s)
        = HistoryFold!LeftFold({}, [which \in Sides |-> LoadSide(s, which)],
                               NewerThan(updateBuffer, s.id))
  BY DEF LoadSides, ReplayEntry, FoldLeft, MapThenFoldSet, Max,
         HistoryFold!LeftFold, HistoryFold!FoldLeft, HistoryFold!MapThenFoldSet, HistoryFold!Max
<1> QED
  BY <1>1, <1>2

(* In whichever order the levels come, the side has their sizes. *)
LEMMA LoadSideFacts ==
  ASSUME NEW s \in Snapshots, LevelsValid(s.levels), NEW side \in Sides
  PROVE  /\ IsSide(LoadSide(s, side))
         /\ \A slot \in Slots :
              LoadSide(s, side).sizes[slot] = SnapshotImage(s)[<<side, PriceAt(slot)>>]
<1> DEFINE levels == s.levels
           set == {lv \in DOMAIN levels : lv[1] = side}
           at(slot) == <<side, PriceAt(slot)>>
           Good(t, loaded) ==
             /\ IsSide(loaded)
             /\ \A slot \in Slots :
                  loaded.sizes[slot] = IF at(slot) \in t THEN levels[at(slot)] ELSE 0
<1>1. /\ DOMAIN levels \in SUBSET Levels /\ \A lv \in DOMAIN levels : levels[lv] \in Int
      /\ set \in SUBSET Levels /\ \A lv \in set : lv[1] = side
  BY ParameterTypes DEF LevelsValid
<1>2. IsFiniteSet(set)
  BY <1>1, LevelsAreFinite, FS_Subset
<1>3. PICK run : SideFold!SetRun(levels, NewSide, set, run)
  <2>1. SideFold!IsFiniteSet(set)
    BY <1>2 DEF IsFiniteSet, SideFold!IsFiniteSet
  <2> HIDE DEF set
  <2> QED
    BY <2>1, SideFold!SetFoldRuns
<1>4. /\ run[{}] = NewSide
      /\ \A t \in SUBSET set : t # {} => \E lv \in t : run[t] = LoadLevel(levels, run[t \ {lv}], lv)
      /\ LoadSide(s, side) = run[set]
  <2>1. LoadSide(s, side) = SideFold!SetFold(levels, NewSide, set)
    BY LoadsAreFolds
  <2> HIDE DEF set
  <2> QED
    BY <1>3, <2>1 DEF SideFold!SetRun
<1> HIDE DEF set
<1> DEFINE Bad == {t \in SUBSET set : ~ Good(t, run[t])}
<1>5. Bad = {}
  <2> SUFFICES ASSUME Bad # {}
               PROVE  FALSE
    OBVIOUS
  <2>1. PICK t \in Bad : \A r \in SUBSET t : r # t => r \notin Bad
    <3>1. Bad \in SUBSET SUBSET set
      OBVIOUS
    <3> HIDE DEF Bad
    <3> QED
      BY <1>2, <3>1, MinimalSubset
  <2>2. t \in SUBSET set /\ ~ Good(t, run[t])
    OBVIOUS
  <2>3. CASE t = {}
    <3>1. Good({}, NewSide)
      BY NewSideFacts
    <3> HIDE DEF Good
    <3> QED
      BY <1>4, <2>2, <2>3, <3>1
  <2>4. CASE t # {}
    <3>1. PICK lv \in t : run[t] = LoadLevel(levels, run[t \ {lv}], lv)
      BY <1>4, <2>2, <2>4
    <3> DEFINE r == t \ {lv}
               old == run[r]
    <3>2. Good(r, old)
      <4>1. r \in SUBSET t /\ r # t /\ r \in SUBSET set
        BY <2>2
      <4> HIDE DEF Good, r
      <4> QED
        BY <2>1, <4>1
    <3>3. /\ lv \in Levels /\ lv[1] = side /\ levels[lv] \in Int /\ lv \in t
          /\ lv = <<side, lv[2]>> /\ lv[2] \in Int /\ OnGrid(lv[2])
          /\ IndexOf(lv[2]) \in Slots /\ PriceAt(IndexOf(lv[2])) = lv[2]
      <4>1. lv \in set
        BY <2>2
      <4>2. lv \in Levels /\ lv[1] = side /\ levels[lv] \in Int
        BY <1>1, <4>1 DEF set
      <4> QED
        BY <4>2, LevelFacts
    <3>4. /\ IsSide(run[t])
          /\ run[t].sizes = [old.sizes EXCEPT ![IndexOf(lv[2])] = levels[lv]]
      <4>1. run[t] = UpdateLevel(old, lv[2], levels[lv]) /\ IsSide(old)
        BY <3>1, <3>2 DEF LoadLevel
      <4> HIDE DEF old, levels
      <4> QED
        BY <3>3, <4>1, UpdateLevelFacts
    <3> HIDE DEF r, old
    <3>5. ASSUME NEW slot \in Slots
          PROVE  run[t].sizes[slot] = IF at(slot) \in t THEN levels[at(slot)] ELSE 0
      <4>1. old.sizes \in [Slots -> Int] /\ IndexOf(PriceAt(slot)) = slot
        BY <3>2, SlotOnGrid DEF IsSide
      <4>2. CASE slot = IndexOf(lv[2])
        <5>1. at(slot) = lv
          BY <3>3, <4>2
        <5> QED
          BY <3>3, <3>4, <4>1, <4>2, <5>1
      <4>3. CASE slot # IndexOf(lv[2])
        <5>1. at(slot) # lv
          <6>1. at(slot)[2] = PriceAt(slot)
            OBVIOUS
          <6> QED
            BY <4>1, <4>3, <6>1
        <5>2. at(slot) \in t <=> at(slot) \in r
          BY <5>1 DEF r
        <5> QED
          BY <3>2, <3>4, <4>1, <4>3, <5>2
      <4> QED
        BY <4>2, <4>3
    <3> QED
      BY <2>2, <3>4, <3>5
  <2> QED
    BY <2>3, <2>4
<1>6. Good(set, run[set])
  BY <1>5
<1>7. ASSUME NEW slot \in Slots
      PROVE  SnapshotImage(s)[at(slot)] = IF at(slot) \in set THEN levels[at(slot)] ELSE 0
  <2>1. at(slot) \in Levels /\ at(slot)[1] = side
    BY SlotIsLevel
  <2> QED
    BY <2>1 DEF SnapshotImage, Overwrite, EmptyImage, set
<1> QED
  BY <1>4, <1>6, <1>7

LEMMA LoadedImage ==
  ASSUME NEW s \in Snapshots, LevelsValid(s.levels)
  PROVE  LET book == [side \in Sides |-> LoadSide(s, side)]
         IN  IsBook(book) /\ ImageOf(book) = SnapshotImage(s)
<1> DEFINE book == [side \in Sides |-> LoadSide(s, side)]
<1>1. /\ book = [side \in Sides |-> book[side]]
      /\ \A side \in Sides : book[side] = LoadSide(s, side)
  OBVIOUS
<1> HIDE DEF book
<1>2. IsBook(book)
  BY <1>1, LoadSideFacts DEF IsBook
<1>3. ASSUME NEW lv \in Levels
      PROVE  ImageOf(book)[lv] = SnapshotImage(s)[lv]
  <2>1. /\ lv = <<lv[1], PriceAt(IndexOf(lv[2]))>> /\ lv[1] \in Sides
        /\ IndexOf(lv[2]) \in Slots
    BY LevelFacts
  <2>2. ImageOf(book)[lv] = LoadSide(s, lv[1]).sizes[IndexOf(lv[2])]
    BY <1>1, <2>1 DEF ImageOf
  <2> QED
    BY <2>1, <2>2, LoadSideFacts
<1>4. ImageOf(book) = SnapshotImage(s)
  BY <1>3 DEF ImageOf, SnapshotImage, Overwrite
<1> QED
  BY <1>2, <1>4 DEF book

(* The sides after a snapshot hold it with the newer history laid over it. *)
LEMMA LoadSidesFacts ==
  ASSUME NEW s \in Snapshots, LevelsValid(s.levels),
         WellFormedHistory(NewerThan(updateBuffer, s.id))
  PROVE  /\ IsBook(LoadSides(s))
         /\ ImageOf(LoadSides(s)) = Replayed(SnapshotImage(s), NewerThan(updateBuffer, s.id))
<1> DEFINE history == NewerThan(updateBuffer, s.id)
           n == Len(history)
           book == [side \in Sides |-> LoadSide(s, side)]
           img == SnapshotImage(s)
           Prefix(k) == SubSeq(history, 1, k)
           Sound(b, k) == IsBook(b) /\ ImageOf(b) = Replayed(img, Prefix(k))
<1>1. /\ history \in Seq(Entries) /\ n \in Nat /\ DOMAIN history = 1 .. n
      /\ \A i \in 1 .. n : /\ history[i] \in Entries
                           /\ history[i].delta \in Deltas /\ WellFormed(history[i].delta)
  <2>1. history \in Seq(Entries) /\ \A i \in 1 .. n : WellFormed(history[i].delta)
    BY DEF WellFormedHistory
  <2>2. n \in Nat /\ DOMAIN history = 1 .. n /\ \A i \in 1 .. n : history[i] \in Entries
    <3> HIDE DEF history
    <3> QED
      BY <2>1
  <2> QED
    BY <2>1, <2>2, EntryTypes
<1>2. IsBook(book) /\ ImageOf(book) = img
  BY LoadedImage
<1>3. img \in [Levels -> Nat]
  BY ParameterTypes DEF SnapshotImage, Overwrite, EmptyImage, LevelsValid
<1>4. LoadSides(s) = HistoryFold!LeftFold({}, book, history)
  BY LoadsAreFolds
<1> HIDE DEF history, book, n, img
<1>5. PICK run : HistoryFold!LeftRun({}, book, history, n, run)
  BY <1>1, HistoryFold!LeftFoldRuns
<1>6. /\ run[0] = book
      /\ \A k \in 1 .. n : run[k] = ReplayEntry({}, run[k - 1], history[k])
      /\ LoadSides(s) = run[n]
  BY <1>4, <1>5 DEF HistoryFold!LeftRun
<1>7. ASSUME NEW k \in 0 .. n
      PROVE  /\ Prefix(k) \in Seq(Entries) /\ Len(Prefix(k)) = k
             /\ \A i \in 1 .. k : Prefix(k)[i] = history[i]
  <2>1. k \in Nat /\ \A i \in 1 .. k : i \in 1 .. n
    BY <1>1
  <2> QED
    BY <1>1, <2>1, SubSeqProperties
<1> DEFINE T == {k \in 0 .. n : Sound(run[k], k)}
<1>8. 0 \in T
  <2>1. 0 \in 0 .. n
    BY <1>1
  <2>2. Prefix(0) = <<>>
    BY <1>7, <2>1, EmptySeq
  <2> QED
    BY <1>2, <1>3, <1>6, <2>1, <2>2, ReplayedEmpty
<1>9. ASSUME NEW k \in 1 .. n, k - 1 \in T
      PROVE  k \in T
  <2>1. IsBook(run[k - 1]) /\ ImageOf(run[k - 1]) = Replayed(img, Prefix(k - 1))
    BY <1>9
  <2>2. /\ history[k] \in Entries /\ history[k].delta \in Deltas
        /\ WellFormed(history[k].delta) /\ run[k] = ApplyDeltaUpdate(run[k - 1], history[k].delta).book
    BY <1>1, <1>6 DEF ReplayEntry
  <2>3. /\ IsBook(run[k])
        /\ ImageOf(run[k]) = Overwrite(Replayed(img, Prefix(k - 1)), history[k].delta.changes)
    <3> HIDE DEF Prefix
    <3> QED
      BY <2>1, <2>2, DeltaFacts
  <2>4. Prefix(k) = Append(Prefix(k - 1), history[k])
    <3>1. k \in 0 .. n /\ k - 1 \in 0 .. n /\ k \in Nat /\ k - 1 \in Nat
      BY <1>1
    <3> DEFINE p == Prefix(k)
               q == Prefix(k - 1)
               e == history[k]
    <3>2. /\ p \in Seq(Entries) /\ Len(p) = k /\ \A i \in 1 .. k : p[i] = history[i]
          /\ q \in Seq(Entries) /\ Len(q) = k - 1 /\ \A i \in 1 .. k - 1 : q[i] = history[i]
      BY <1>7, <3>1
    <3>3. e \in Entries /\ p[k] = e
      BY <2>2, <3>2
    <3> HIDE DEF p, q, e
    <3>4. /\ Append(q, e) \in Seq(Entries) /\ Len(Append(q, e)) = k
          /\ \A i \in 1 .. k - 1 : Append(q, e)[i] = q[i]
          /\ Append(q, e)[k] = e
      BY <3>1, <3>2, <3>3, AppendProperties
    <3>5. \A i \in 1 .. k : p[i] = Append(q, e)[i]
      <4>1. \A i \in 1 .. k : i = k \/ i \in 1 .. k - 1
        BY <3>1
      <4> QED
        BY <3>2, <3>3, <3>4, <4>1
    <3>6. p = Append(q, e)
      BY <3>2, <3>4, <3>5, SeqEqual
    <3> QED
      BY <3>6 DEF p, q, e
  <2>5. Prefix(k - 1) \in Seq(Entries)
    <3>1. k - 1 \in 0 .. n
      BY <1>1
    <3> QED
      BY <1>7, <3>1
  <2> HIDE DEF Prefix
  <2>6. ImageOf(run[k]) = Replayed(img, Prefix(k))
    BY <2>2, <2>3, <2>4, <2>5, ReplayedAppend
  <2> QED
    BY <2>3, <2>6
<1>10. Sound(run[n], n)
  <2> HIDE DEF T
  <2>0. \A k \in 0 .. n : k \in T
    BY <1>1, <1>8, <1>9, UpwardInduction
  <2>1. n \in T
    BY <1>1, <2>0
  <2> QED
    BY <2>1 DEF T
<1>11. Prefix(n) = history
  BY <1>1, SubSeqFull
<1> HIDE DEF Prefix
<1> QED
  BY <1>6, <1>10, <1>11 DEF history, img

-----------------------------------------------------------------------------
(* The invariant: what the arrays hold is what is visible. *)

DenseInv ==
  /\ IInv
  /\ IsBook(sides)
  /\ ImageOf(sides) = image
  /\ (totals = NoFlow) = (flow = NoFlow)

LEMMA DenseInitInv ==
  ASSUME DenseInit
  PROVE  DenseInv
<1> DEFINE book == [side \in Sides |-> NewSide]
<1>1. sides = book /\ image = EmptyImage /\ totals = NoFlow /\ flow = NoFlow /\ IInv
  BY InitIInv DEF DenseInit, Init
<1>2. IsBook(book)
  BY NewSideFacts DEF IsBook
<1>3. ImageOf(book) = EmptyImage
  BY NewSideFacts, LevelFacts DEF ImageOf, EmptyImage
<1> HIDE DEF book
<1> QED
  BY <1>1, <1>2, <1>3 DEF DenseInv

(* A step of the dense book is a step of the book. *)
LEMMA DenseNextIsNext ==
  ASSUME DenseNext
  PROVE  Next
<1>1. ASSUME NEW d \in Deltas, NEW t \in Timestamps, DenseDelta(d, t)
      PROVE  ReceiveDelta(d, t)
  BY <1>1 DEF DenseDelta, ReceiveDelta
<1>2. ASSUME NEW s \in Snapshots, NEW t \in Timestamps, DenseSnapshot(s, t)
      PROVE  ReceiveSnapshot(s, t)
  BY <1>2 DEF DenseSnapshot, ReceiveSnapshot
<1> QED
  BY <1>1, <1>2 DEF DenseNext, Next

(* Three kinds of step: a delta is applied, a snapshot is, or nothing of    *)
(* what is visible changes.                                                 *)
LEMMA DenseSteps ==
  ASSUME [DenseNext]_<<vars, denseVars>>
  PROVE  \/ \E d \in Deltas, t \in Timestamps : ApplyDelta(d, t) /\ DenseDelta(d, t)
         \/ \E s \in Snapshots, t \in Timestamps : ApplySnapshot(s, t) /\ DenseSnapshot(s, t)
         \/ UNCHANGED <<visible, denseVars>>
<1>1. CASE UNCHANGED <<vars, denseVars>>
  BY <1>1 DEF vars, visible
<1>2. ASSUME NEW d \in Deltas, NEW t \in Timestamps, DenseDelta(d, t)
      PROVE  ApplyDelta(d, t) \/ UNCHANGED <<visible, denseVars>>
  BY <1>2 DEF DenseDelta, RejectMalformedDelta, IgnoreStaleDelta, RejectOverflow, RejectGap,
              BufferDelta
<1>3. ASSUME NEW s \in Snapshots, NEW t \in Timestamps, DenseSnapshot(s, t)
      PROVE  ApplySnapshot(s, t) \/ UNCHANGED <<visible, denseVars>>
  BY <1>3 DEF DenseSnapshot, RejectSnapshot
<1> QED
  BY <1>1, <1>2, <1>3 DEF DenseNext

(* A delta is either applied or not. *)
LEMMA DenseApplies ==
  ASSUME NEW d \in Deltas, NEW t \in Timestamps, ApplyDelta(d, t), DenseDelta(d, t), IInv
  PROVE  /\ sides' = ApplyDeltaUpdate(sides, d).book /\ totals' = ApplyDeltaUpdate(sides, d).flow
         /\ WellFormed(d) /\ image' = Overwrite(image, d.changes)
         /\ flow' = FlowOf(image, d)
<1>1. /\ FreshDelta(d) /\ WellFormed(d) /\ ~ StaleDelta(d)
      /\ ~ HistoryFull /\ ~ DeltaGap(d) /\ syncState = "Live"
  BY DEF ApplyDelta, FreshDelta
<1>2. ~ (\/ RejectMalformedDelta(d) \/ IgnoreStaleDelta(d) \/ RejectOverflow(d)
         \/ RejectGap(d, t) \/ BufferDelta(d, t))
  BY <1>1 DEF RejectMalformedDelta, IgnoreStaleDelta, RejectOverflow, RejectGap, BufferDelta
<1> QED
  BY <1>1, <1>2 DEF DenseDelta, ApplyDelta

LEMMA DenseLoads ==
  ASSUME NEW s \in Snapshots, NEW t \in Timestamps, ApplySnapshot(s, t), DenseSnapshot(s, t), IInv
  PROVE  /\ sides' = LoadSides(s) /\ totals' = NoFlow /\ flow' = NoFlow
         /\ LevelsValid(s.levels) /\ WellFormedHistory(NewerThan(updateBuffer, s.id))
         /\ image' = Replayed(SnapshotImage(s), NewerThan(updateBuffer, s.id))
<1>1. /\ SnapshotAccepted(s) /\ LevelsValid(s.levels) /\ flow' = NoFlow
      /\ image' = Replayed(SnapshotImage(s), NewerThan(updateBuffer, s.id))
      /\ updateBuffer' = NewerThan(updateBuffer, s.id)
  BY DEF ApplySnapshot, SnapshotAccepted, LoadSnapshot, Replay
<1>2. sides' = LoadSides(s) /\ totals' = NoFlow
  BY <1>1 DEF DenseSnapshot, RejectSnapshot
<1>3. s.id \in Int
  BY ParameterTypes DEF Ids
<1>4. WellFormedHistory(NewerThan(updateBuffer, s.id))
  BY <1>3, HistoryFacts, NewerThanFacts
<1> QED
  BY <1>1, <1>2, <1>4

LEMMA DenseStepInv ==
  ASSUME DenseInv, [DenseNext]_<<vars, denseVars>>
  PROVE  DenseInv'
<1>1. IInv /\ IInv'
  <2>1. IInv
    BY DEF DenseInv
  <2>2. [Next]_vars
    BY DenseNextIsNext DEF vars
  <2> QED
    BY <2>1, <2>2, NextIInv
<1>2. DenseInv' = (/\ IInv'
                  /\ IsBook(sides')
                  /\ ImageOf(sides') = image'
                  /\ (totals' = NoFlow) = (flow' = NoFlow))
  BY DEF DenseInv, IsBook, IsSide, Tight, ImageOf
<1>3. ASSUME NEW d \in Deltas, NEW t \in Timestamps, ApplyDelta(d, t), DenseDelta(d, t)
      PROVE  DenseInv'
  <2>1. /\ sides' = ApplyDeltaUpdate(sides, d).book /\ totals' = ApplyDeltaUpdate(sides, d).flow
        /\ WellFormed(d) /\ image' = Overwrite(image, d.changes)
        /\ flow' = FlowOf(image, d)
    BY <1>1, <1>3, DenseApplies
  <2>2. IsBook(sides) /\ ImageOf(sides) = image
    BY DEF DenseInv
  <2>3. IsBook(sides') /\ IsFlow(totals') /\ ImageOf(sides') = image'
    BY <2>1, <2>2, DeltaFacts
  <2>4. totals' # NoFlow /\ flow' # NoFlow
    <3>1. "Bid" \in DOMAIN totals'
      BY <2>3 DEF IsFlow, Sides
    <3>2. \E lv \in Levels : lv \in DOMAIN flow'
      <4>1. PICK slot \in Slots : TRUE
        BY Grid
      <4>2. <<"Bid", PriceAt(slot)>> \in Levels
        BY SlotIsLevel DEF Sides
      <4> QED
        BY <2>1, <4>2 DEF FlowOf
    <3>3. DOMAIN NoFlow = {}
      BY DEF NoFlow
    <3> QED
      BY <3>1, <3>2, <3>3
  <2> QED
    BY <1>1, <1>2, <2>3, <2>4
<1>4. ASSUME NEW s \in Snapshots, NEW t \in Timestamps, ApplySnapshot(s, t), DenseSnapshot(s, t)
      PROVE  DenseInv'
  <2>1. /\ sides' = LoadSides(s) /\ totals' = NoFlow /\ flow' = NoFlow
        /\ LevelsValid(s.levels) /\ WellFormedHistory(NewerThan(updateBuffer, s.id))
        /\ image' = Replayed(SnapshotImage(s), NewerThan(updateBuffer, s.id))
    BY <1>1, <1>4, DenseLoads
  <2>2. IsBook(LoadSides(s)) /\ ImageOf(LoadSides(s)) = image'
    BY <2>1, LoadSidesFacts
  <2> QED
    BY <1>1, <1>2, <2>1, <2>2
<1>5. CASE UNCHANGED <<visible, denseVars>>
  BY <1>1, <1>2, <1>5 DEF visible, denseVars, DenseInv
<1> QED
  BY <1>3, <1>4, <1>5, DenseSteps

(* The arrays hold the visible book in every reachable state. *)
THEOREM DenseInvariance == DenseSpec => []DenseInv
BY DenseInitInv, DenseStepInv, PTL DEF DenseSpec

(* Dense sides are an implementation of the book: apply_update of a book   *)
(* over arrays does what it does to an image.                              *)
THEOREM DenseImplementsBook == DenseSpec => Spec
<1>1. DenseInit => Init
  BY DEF DenseInit
<1>2. [DenseNext]_<<vars, denseVars>> => [Next]_vars
  BY DenseNextIsNext DEF vars
<1> QED
  BY <1>1, <1>2, PTL DEF DenseSpec, Spec

-----------------------------------------------------------------------------
(* What the invariant says slot by slot: each side has the visible size at *)
(* every tick of the grid, 0 where nothing is visible, and a range that    *)
(* ends at the outermost visible levels.                                   *)
SidesHoldImage ==
  \A side \in Sides :
    /\ \A slot \in Slots : sides[side].sizes[slot] = image[<<side, PriceAt(slot)>>]
    /\ Tight(sides[side].sizes, sides[side].occupied)

(* After any mixture of deltas, snapshots and replays the dense sides hold *)
(* exactly the image of the book.                                          *)
THEOREM SidesStayTrue == DenseSpec => []SidesHoldImage
<1>1. ASSUME DenseInv
      PROVE  SidesHoldImage
  <2> SUFFICES ASSUME NEW side \in Sides
               PROVE  /\ \A slot \in Slots : sides[side].sizes[slot] = image[<<side, PriceAt(slot)>>]
                      /\ Tight(sides[side].sizes, sides[side].occupied)
    BY DEF SidesHoldImage
  <2>1. Tight(sides[side].sizes, sides[side].occupied) /\ ImageOf(sides) = image
    BY <1>1 DEF DenseInv, IsBook, IsSide
  <2>2. ASSUME NEW slot \in Slots
        PROVE  sides[side].sizes[slot] = image[<<side, PriceAt(slot)>>]
    <3>1. <<side, PriceAt(slot)>> \in Levels /\ IndexOf(PriceAt(slot)) = slot
      BY SlotIsLevel, SlotOnGrid
    <3>2. ImageOf(sides)[<<side, PriceAt(slot)>>] = sides[side].sizes[slot]
      BY <3>1 DEF ImageOf
    <3> QED
      BY <2>1, <3>2
  <2> QED
    BY <2>1, <2>2
<1> QED
  BY <1>1, DenseInvariance, PTL

(* The flow of a delta accounts for every mention of a level, and so for    *)
(* the growth of each side.                                                 *)
THEOREM FlowStaysAccounted == DenseSpec => FlowAccountsForGrowth
<1> DEFINE Accounted ==
             LET listed == updateBuffer'[Len(updateBuffer')].delta.listed
                 change == StepChanges(listed, image)
             IN  \A side \in Sides :
                   LET total  == totals'[side]
                       ofSide == {lv \in Levels : lv[1] = side}
                   IN  /\ total.added = SumOver(Rising(listed, image, side), change)
                       /\ total.removed = -SumOver(Falling(listed, image, side), change)
                       /\ total.added - total.removed
                            = SumOver(ofSide, image') - SumOver(ofSide, image)
<1>1. ASSUME DenseInv, DenseInv', [DenseNext]_<<vars, denseVars>>
      PROVE  /\ (totals' = NoFlow) = (flow' = NoFlow)
             /\ totals' # NoFlow /\ lastUpdateId' # lastUpdateId => Accounted
  <2>1. (totals' = NoFlow) = (flow' = NoFlow)
    BY <1>1 DEF DenseInv
  <2>2. IInv /\ IsBook(sides) /\ ImageOf(sides) = image
    BY <1>1 DEF DenseInv
  <2>3. ASSUME NEW d \in Deltas, NEW t \in Timestamps, ApplyDelta(d, t), DenseDelta(d, t)
        PROVE  Accounted
    <3>1. /\ totals' = ApplyDeltaUpdate(sides, d).flow
          /\ WellFormed(d) /\ image' = Overwrite(image, d.changes)
      BY <2>2, <2>3, DenseApplies
    <3>2. updateBuffer'[Len(updateBuffer')].delta.listed = d.listed
      <4>1. FreshDelta(d) /\ ~ HistoryFull /\ Remember(d, t)
        BY <2>3 DEF ApplyDelta
      <4>2. updateBuffer'[Len(updateBuffer')] = [delta |-> d, at |-> t]
        BY <2>2, <4>1, RememberFacts
      <4> QED
        BY <4>2
    <3>3. ImageOf(ApplyDeltaUpdate(sides, d).book) = image'
      BY <2>2, <3>1, DeltaFacts
    <3>4. ASSUME NEW side \in Sides
          PROVE  /\ Net(totals', side)
                      = SumOver(SideLevels(side), image') - SumOver(SideLevels(side), image)
                 /\ totals'[side].added
                      = SumOver(Rising(d.listed, image, side), StepChanges(d.listed, image))
                 /\ totals'[side].removed
                      = -SumOver(Falling(d.listed, image, side), StepChanges(d.listed, image))
      BY <2>2, <3>1, <3>3, DeltaFacts
    <3> QED
      BY <3>2, <3>4 DEF Net, SideLevels
  <2>4. ASSUME NEW s \in Snapshots, NEW t \in Timestamps, ApplySnapshot(s, t), DenseSnapshot(s, t)
        PROVE  totals' = NoFlow
    BY <2>2, <2>4, DenseLoads
  <2>5. UNCHANGED <<visible, denseVars>> => lastUpdateId' = lastUpdateId
    BY DEF visible
  <2> HIDE DEF Accounted
  <2> QED
    BY <1>1, <2>1, <2>3, <2>4, <2>5, DenseSteps
<1>2. DenseInv /\ DenseInv' /\ [DenseNext]_<<vars, denseVars>>
        => [/\ (totals' = NoFlow) = (flow' = NoFlow)
            /\ totals' # NoFlow /\ lastUpdateId' # lastUpdateId => Accounted]_<<vars, denseVars>>
  BY <1>1
<1> QED
  BY <1>2, DenseInvariance, PTL DEF DenseSpec, FlowAccountsForGrowth

-----------------------------------------------------------------------------
(* Queries: the scan of a side. *)

(* The better of two prices of a side has the lower key. *)
Key(side, price) == IF side = "Bid" THEN 0 - price ELSE price

LEMMA PriceOrder ==
  ASSUME NEW a \in Slots, NEW b \in Slots, a < b
  PROVE  PriceAt(a) < PriceAt(b) /\ PriceAt(a) \in Int /\ PriceAt(b) \in Int
<1>1. TickSize \in Nat \ {0} /\ MinPrice \in Nat /\ a \in Nat /\ b \in Nat
  BY GridFacts
<1>2. (a + 1) * TickSize <= b * TickSize
  BY <1>1, ProductMonotonic
<1>3. (a + 1) * TickSize = TickSize * a + TickSize /\ b * TickSize = TickSize * b
      /\ TickSize * a \in Int /\ TickSize * b \in Int
  BY <1>1
<1> QED
  BY <1>1, <1>2, <1>3 DEF PriceAt

VisitSlot(s, levels, slot) ==
  IF s.sizes[slot] = 0 THEN levels
  ELSE Append(levels, <<PriceAt(slot), s.sizes[slot]>>)

ScanFold == INSTANCE FoldLemmas WITH Step <- VisitSlot

(* The slots in the order of the scan. *)
ScanOrder(s, side) ==
  LET range   == s.occupied
      upwards == IF range = <<>> THEN <<>>
                 ELSE [i \in 1 .. range[2] - range[1] + 1 |-> range[1] + i - 1]
  IN  IF side = "Bid" THEN Reverse(upwards) ELSE upwards

LEMMA LevelsOfIsFold ==
  ASSUME NEW side
  PROVE  LevelsOf(side) = ScanFold!LeftFold(sides[side], <<>>, ScanOrder(sides[side], side))
BY DEF LevelsOf, ScanOrder, VisitSlot, FoldLeft, MapThenFoldSet, Max,
       ScanFold!LeftFold, ScanFold!FoldLeft, ScanFold!MapThenFoldSet, ScanFold!Max

(* It goes through all occupied slots, from the best end of the range.      *)
GoesThrough(s, side, order, n) ==
  /\ DOMAIN order = 1 .. n
  /\ \A i \in 1 .. n : order[i] \in Slots
  /\ \A i, j \in 1 .. n : i < j => Key(side, PriceAt(order[i])) < Key(side, PriceAt(order[j]))
  /\ \A slot \in Slots : s.sizes[slot] # 0 => \E i \in 1 .. n : order[i] = slot
  /\ IF s.occupied = <<>> THEN n = 0
     ELSE /\ n > 0 /\ s.sizes[order[1]] # 0
          /\ order[1] = IF side = "Bid" THEN s.occupied[2] ELSE s.occupied[1]

LEMMA ScanGoesThrough ==
  ASSUME NEW s, IsSide(s), NEW side \in Sides
  PROVE  \E n \in Nat : GoesThrough(s, side, ScanOrder(s, side), n)
<1>1. CASE s.occupied = <<>>
  <2>1. Len(<<>>) = 0 /\ DOMAIN <<>> = 1 .. 0 /\ \A slot \in Slots : s.sizes[slot] = 0
    BY <1>1 DEF IsSide, Tight
  <2> DEFINE order == ScanOrder(s, side)
  <2>2. DOMAIN order = 1 .. 0
    BY <1>1, <2>1 DEF ScanOrder, Reverse
  <2> HIDE DEF order
  <2>3. GoesThrough(s, side, order, 0)
    BY <1>1, <2>1, <2>2 DEF GoesThrough
  <2> QED
    BY <2>3 DEF order
<1>2. CASE s.occupied # <<>>
  <2>1. PICK first \in Slots, last \in Slots :
          /\ s.occupied = <<first, last>>
          /\ s.sizes[first] # 0 /\ s.sizes[last] # 0
          /\ \A slot \in Slots : s.sizes[slot] # 0 => first <= slot /\ slot <= last
    BY <1>2 DEF IsSide, Tight
  <2> DEFINE n == last - first + 1
             up == [i \in 1 .. n |-> first + i - 1]
             order == ScanOrder(s, side)
  <2>2. first \in Nat /\ last \in Nat /\ first <= last /\ n \in Nat /\ n > 0
    BY <2>1, GridFacts
  <2>3. s.occupied[1] = first /\ s.occupied[2] = last
    BY <2>1
  <2>4. order = IF side = "Bid" THEN Reverse(up) ELSE up
    BY <1>2, <2>3 DEF ScanOrder
  <2>5. DOMAIN order = 1 .. n
        /\ \A i \in 1 .. n : order[i] = IF side = "Bid" THEN last - i + 1 ELSE first + i - 1
    <3>1. CASE side # "Bid"
      BY <2>2, <2>4, <3>1
    <3>2. CASE side = "Bid"
      <4>1. Len(up) = n
        BY <2>2
      <4>2. order = [i \in 1 .. n |-> up[n - i + 1]]
        <5> HIDE DEF up, n
        <5> QED
          BY <2>4, <3>2, <4>1 DEF Reverse
      <4>3. ASSUME NEW i \in 1 .. n
            PROVE  up[n - i + 1] = last - i + 1
        <5>1. n - i + 1 \in 1 .. n
          BY <2>2
        <5>2. up[n - i + 1] = first + (n - i + 1) - 1
          BY <5>1
        <5> QED
          BY <2>2, <5>2
      <4> HIDE DEF up, order, n
      <4> QED
        BY <3>2, <4>2, <4>3
    <3> QED
      BY <3>1, <3>2
  <2> HIDE DEF order
  <2>6. ASSUME NEW i \in 1 .. n
        PROVE  order[i] \in Slots
    <3>1. first <= order[i] /\ order[i] <= last /\ order[i] \in Int
      BY <2>2, <2>5
    <3> QED
      BY <2>2, <3>1, GridFacts
  <2>7. ASSUME NEW i \in 1 .. n, NEW j \in 1 .. n, i < j
        PROVE  Key(side, PriceAt(order[i])) < Key(side, PriceAt(order[j]))
    <3>1. order[i] \in Slots /\ order[j] \in Slots
      BY <2>6
    <3>2. CASE side = "Bid"
      <4>1. order[j] < order[i]
        BY <2>2, <2>5, <2>7, <3>2
      <4> QED
        BY <3>1, <3>2, <4>1, PriceOrder DEF Key
    <3>3. CASE side # "Bid"
      <4>1. order[i] < order[j]
        BY <2>2, <2>5, <2>7, <3>3
      <4> QED
        BY <3>1, <3>3, <4>1, PriceOrder DEF Key
    <3> QED
      BY <3>2, <3>3
  <2>8. ASSUME NEW slot \in Slots, s.sizes[slot] # 0
        PROVE  \E i \in 1 .. n : order[i] = slot
    <3>1. first <= slot /\ slot <= last /\ slot \in Nat
      BY <2>1, <2>8, GridFacts
    <3>2. CASE side = "Bid"
      <4>1. last - slot + 1 \in 1 .. n /\ last - (last - slot + 1) + 1 = slot
        BY <2>2, <3>1
      <4> QED
        BY <2>5, <3>2, <4>1
    <3>3. CASE side # "Bid"
      <4>1. slot - first + 1 \in 1 .. n /\ first + (slot - first + 1) - 1 = slot
        BY <2>2, <3>1
      <4> QED
        BY <2>5, <3>3, <4>1
    <3> QED
      BY <3>2, <3>3
  <2>9. order[1] = IF side = "Bid" THEN last ELSE first
    BY <2>2, <2>5
  <2> HIDE DEF n
  <2>10. GoesThrough(s, side, order, n)
    BY <1>2, <2>1, <2>2, <2>3, <2>5, <2>6, <2>7, <2>8, <2>9 DEF GoesThrough
  <2> QED
    BY <2>2, <2>10 DEF order
<1> QED
  BY <1>1, <1>2

(* What the scan has found after the first k slots: their occupied levels, *)
(* in the order of the scan.                                               *)
LevelAt(s, slot) == <<PriceAt(slot), s.sizes[slot]>>

Found(s, side, order, k, levels) ==
  /\ levels \in Seq(Int \X Int)
  /\ \A i \in 1 .. Len(levels) :
       \E m \in 1 .. k : s.sizes[order[m]] # 0 /\ levels[i] = LevelAt(s, order[m])
  /\ \A m \in 1 .. k :
       s.sizes[order[m]] # 0 => \E i \in 1 .. Len(levels) : levels[i] = LevelAt(s, order[m])
  /\ \A i, j \in 1 .. Len(levels) : i < j => Key(side, levels[i][1]) < Key(side, levels[j][1])

LEMMA VisitFinds ==
  ASSUME NEW s, IsSide(s), NEW side \in Sides, NEW order, NEW n \in Nat,
         GoesThrough(s, side, order, n), NEW k \in 1 .. n,
         NEW levels, Found(s, side, order, k - 1, levels)
  PROVE  Found(s, side, order, k, VisitSlot(s, levels, order[k]))
<1> DEFINE slot == order[k]
           l == LevelAt(s, slot)
           new == VisitSlot(s, levels, slot)
<1>1. /\ slot \in Slots /\ s.sizes[slot] \in Int /\ PriceAt(slot) \in Int
      /\ l \in Int \X Int /\ l[1] = PriceAt(slot)
  BY SlotOnGrid DEF GoesThrough, IsSide, LevelAt
<1>2. levels \in Seq(Int \X Int) /\ Len(levels) \in Nat
  BY DEF Found
<1>3. /\ k \in Nat /\ k - 1 \in Nat
      /\ \A m \in 1 .. k : m = k \/ m \in 1 .. k - 1
      /\ \A m \in 1 .. k - 1 : m \in 1 .. k /\ m \in 1 .. n /\ m < k
      /\ k \in 1 .. k
  OBVIOUS
<1>4. CASE s.sizes[slot] = 0
  <2>1. new = levels
    BY <1>4 DEF VisitSlot
  <2>2. Found(s, side, order, k, levels)
    BY <1>3, <1>4 DEF Found
  <2> QED
    BY <2>1, <2>2
<1>5. CASE s.sizes[slot] # 0
  <2> DEFINE c == Len(levels)
  <2>1. new = Append(levels, l)
    BY <1>5 DEF VisitSlot, LevelAt
  <2> HIDE DEF l, new
  <2>2. /\ new \in Seq(Int \X Int) /\ Len(new) = c + 1 /\ new[c + 1] = l
        /\ \A i \in 1 .. c : new[i] = levels[i]
    BY <1>1, <1>2, <2>1, AppendProperties
  <2>3. /\ c \in Nat
        /\ \A i \in 1 .. c + 1 : i = c + 1 \/ i \in 1 .. c
        /\ \A i \in 1 .. c : i \in 1 .. c + 1
        /\ c + 1 \in 1 .. c + 1
    BY <1>2
  <2>4. ASSUME NEW i \in 1 .. c + 1
        PROVE  \E m \in 1 .. k : s.sizes[order[m]] # 0 /\ new[i] = LevelAt(s, order[m])
    <3>1. CASE i = c + 1
      BY <1>3, <1>5, <2>2, <3>1 DEF l
    <3>2. CASE i \in 1 .. c
      <4>1. PICK m \in 1 .. k - 1 : s.sizes[order[m]] # 0 /\ levels[i] = LevelAt(s, order[m])
        BY <3>2 DEF Found
      <4> QED
        BY <1>3, <2>2, <3>2, <4>1
    <3> QED
      BY <2>3, <3>1, <3>2
  <2>5. ASSUME NEW m \in 1 .. k, s.sizes[order[m]] # 0
        PROVE  \E i \in 1 .. c + 1 : new[i] = LevelAt(s, order[m])
    <3>1. CASE m = k
      BY <2>2, <2>3, <3>1 DEF l
    <3>2. CASE m \in 1 .. k - 1
      <4>1. PICK i \in 1 .. c : levels[i] = LevelAt(s, order[m])
        BY <2>5, <3>2 DEF Found
      <4> QED
        BY <2>2, <2>3, <4>1
    <3> QED
      BY <1>3, <3>1, <3>2
  <2>6. ASSUME NEW i \in 1 .. c + 1, NEW j \in 1 .. c + 1, i < j
        PROVE  Key(side, new[i][1]) < Key(side, new[j][1])
    <3>1. i \in 1 .. c
      BY <2>3, <2>6
    <3>2. CASE j \in 1 .. c
      BY <2>2, <2>6, <3>1, <3>2 DEF Found
    <3>3. CASE j = c + 1
      <4>1. PICK m \in 1 .. k - 1 : levels[i] = LevelAt(s, order[m])
        BY <3>1 DEF Found
      <4>2. new[i][1] = PriceAt(order[m]) /\ new[j][1] = PriceAt(slot)
        <5>1. new[i] = LevelAt(s, order[m]) /\ new[j] = l
          BY <2>2, <3>1, <3>3, <4>1
        <5>2. LevelAt(s, order[m])[1] = PriceAt(order[m])
          BY DEF LevelAt
        <5> HIDE DEF slot
        <5> QED
          BY <1>1, <5>1, <5>2
      <4>3. Key(side, PriceAt(order[m])) < Key(side, PriceAt(order[k]))
        BY <1>3 DEF GoesThrough
      <4> QED
        BY <4>2, <4>3
    <3> QED
      BY <2>3, <3>2, <3>3
  <2>7. Found(s, side, order, k, new)
    BY <2>2, <2>4, <2>5, <2>6 DEF Found
  <2> QED
    BY <2>7 DEF new
<1> QED
  BY <1>4, <1>5

(* The levels of a side are its occupied slots, the best first, and the    *)
(* best level is the first of them.                                        *)
Lists(s, side, levels) ==
  /\ levels \in Seq(Int \X Int)
  /\ \A i \in 1 .. Len(levels) :
       \E slot \in Slots : s.sizes[slot] # 0 /\ levels[i] = LevelAt(s, slot)
  /\ \A slot \in Slots :
       s.sizes[slot] # 0 => \E i \in 1 .. Len(levels) : levels[i] = LevelAt(s, slot)
  /\ \A i, j \in 1 .. Len(levels) : i < j => Key(side, levels[i][1]) < Key(side, levels[j][1])

LEMMA LevelsAreListed ==
  ASSUME NEW side \in Sides, IsSide(sides[side])
  PROVE  /\ Lists(sides[side], side, LevelsOf(side))
         /\ BestLevel(side) = IF Len(LevelsOf(side)) = 0 THEN <<>> ELSE LevelsOf(side)[1]
<1> DEFINE s == sides[side]
           order == ScanOrder(s, side)
           levels == LevelsOf(side)
<1>1. PICK n \in Nat : GoesThrough(s, side, order, n)
  BY ScanGoesThrough
<1>2. DOMAIN order = 1 .. n /\ levels = ScanFold!LeftFold(s, <<>>, order)
  BY <1>1, LevelsOfIsFold DEF GoesThrough
<1> HIDE DEF order, levels, s
<1>3. PICK run : ScanFold!LeftRun(s, <<>>, order, n, run)
  BY <1>2, ScanFold!LeftFoldRuns
<1>4. /\ run[0] = <<>>
      /\ \A k \in 1 .. n : run[k] = VisitSlot(s, run[k - 1], order[k])
      /\ levels = run[n]
  BY <1>2, <1>3 DEF ScanFold!LeftRun
<1> DEFINE T == {k \in 0 .. n : Found(s, side, order, k, run[k])}
<1>5. 0 \in T
  <2>1. <<>> \in Seq(Int \X Int) /\ Len(<<>>) = 0 /\ 0 \in 0 .. n
    BY EmptySeq
  <2>2. 1 .. 0 = {} /\ 1 .. Len(<<>>) = {}
    BY <2>1
  <2>3. Found(s, side, order, 0, <<>>)
    BY <2>1, <2>2 DEF Found
  <2> QED
    BY <1>4, <2>1, <2>3
<1>6. ASSUME NEW k \in 1 .. n, k - 1 \in T
      PROVE  k \in T
  <2>1. IsSide(s) /\ Found(s, side, order, k - 1, run[k - 1])
    BY <1>6 DEF s
  <2>2. Found(s, side, order, k, VisitSlot(s, run[k - 1], order[k]))
    BY <1>1, <2>1, VisitFinds
  <2> QED
    BY <1>4, <2>2
<1>7. Found(s, side, order, n, levels)
  <2> HIDE DEF T
  <2>1. \A k \in 0 .. n : k \in T
    BY <1>5, <1>6, UpwardInduction
  <2>2. n \in T
    BY <2>1
  <2> QED
    BY <1>4, <2>2 DEF T
<1>8. Lists(s, side, levels)
  <2>1. ASSUME NEW slot \in Slots, s.sizes[slot] # 0
        PROVE  \E i \in 1 .. Len(levels) : levels[i] = LevelAt(s, slot)
    <3>1. PICK m \in 1 .. n : order[m] = slot
      BY <1>1, <2>1 DEF GoesThrough
    <3> QED
      BY <1>7, <2>1, <3>1 DEF Found
  <2>2. ASSUME NEW i \in 1 .. Len(levels)
        PROVE  \E slot \in Slots : s.sizes[slot] # 0 /\ levels[i] = LevelAt(s, slot)
    <3>1. PICK m \in 1 .. n : s.sizes[order[m]] # 0 /\ levels[i] = LevelAt(s, order[m])
      BY <1>7 DEF Found
    <3>2. order[m] \in Slots
      BY <1>1 DEF GoesThrough
    <3> QED
      BY <3>1, <3>2
  <2> QED
    BY <1>7, <2>1, <2>2 DEF Found, Lists
<1>9. Len(levels) \in Nat
  BY <1>7 DEF Found
<1>10. CASE s.occupied = <<>>
  <2>1. n = 0
    BY <1>1, <1>10 DEF GoesThrough
  <2>2. Len(levels) = 0
    BY <1>7, <1>9, <2>1 DEF Found
  <2>3. BestLevel(side) = <<>>
    BY <1>10 DEF BestLevel, s
  <2> QED
    BY <1>8, <2>2, <2>3 DEF levels, s
<1>11. CASE s.occupied # <<>>
  <2>1. /\ n > 0 /\ 1 \in 1 .. n /\ order[1] \in Slots /\ s.sizes[order[1]] # 0
        /\ order[1] = IF side = "Bid" THEN s.occupied[2] ELSE s.occupied[1]
    BY <1>1, <1>11 DEF GoesThrough
  <2>2. BestLevel(side) = LevelAt(s, order[1])
    BY <1>11, <2>1 DEF BestLevel, LevelAt, s
  <2>3. PICK i \in 1 .. Len(levels) : levels[i] = LevelAt(s, order[1])
    BY <1>8, <2>1 DEF Lists
  <2>4. i = 1
    <3> SUFFICES ASSUME i # 1
                 PROVE  FALSE
      OBVIOUS
    <3>1. 1 \in 1 .. Len(levels) /\ 1 < i
      BY <1>9
    <3>2. Key(side, levels[1][1]) < Key(side, levels[i][1])
      BY <1>8, <3>1 DEF Lists
    <3>3. PICK m \in 1 .. n : levels[1] = LevelAt(s, order[m])
      BY <1>7, <3>1 DEF Found
    <3>4. Key(side, PriceAt(order[m])) < Key(side, PriceAt(order[1]))
      BY <2>3, <3>2, <3>3 DEF LevelAt
    <3>5. m = 1 \/ 1 < m
      BY <2>1
    <3>6. 1 < m => Key(side, PriceAt(order[1])) < Key(side, PriceAt(order[m]))
      BY <1>1, <2>1 DEF GoesThrough
    <3>7. PriceAt(order[m]) \in Int /\ PriceAt(order[1]) \in Int
      BY <1>1, <2>1, SlotOnGrid DEF GoesThrough
    <3>8. Key(side, PriceAt(order[m])) \in Int /\ Key(side, PriceAt(order[1])) \in Int
      BY <3>7 DEF Key
    <3> QED
      BY <3>4, <3>5, <3>6, <3>8
  <2>5. Len(levels) # 0
    BY <1>9, <2>3
  <2> QED
    BY <1>8, <2>2, <2>3, <2>4, <2>5 DEF levels, s
<1> QED
  BY <1>10, <1>11

-----------------------------------------------------------------------------
(* The scan and the ranking of the image are the same enumeration. *)

(* What the queries need to know of the arrays. *)
Holds ==
  /\ image \in [Levels -> Nat]
  /\ \A side \in Sides :
       /\ IsSide(sides[side])
       /\ \A slot \in Slots : sides[side].sizes[slot] = image[<<side, PriceAt(slot)>>]

IsRanking(side, ranked, n) ==
  /\ n \in Nat /\ ranked \in Bijection(1 .. n, Present(side))
  /\ \A i, j \in 1 .. n : i < j => Better(side, ranked[i], ranked[j])

LEMMA RankingFacts ==
  ASSUME NEW side \in Sides, NEW n, NEW ranked, IsRanking(side, ranked, n)
  PROVE  /\ n \in Nat /\ DOMAIN ranked = 1 .. n /\ Cardinality(Present(side)) = n
         /\ ranked = [i \in 1 .. n |-> ranked[i]]
         /\ \A i \in 1 .. n :
              /\ ranked[i] \in Present(side) /\ ranked[i] \in Levels
              /\ ranked[i] = <<side, ranked[i][2]>> /\ ranked[i][2] \in Int
         /\ \A lv \in Present(side) : \E i \in 1 .. n : ranked[i] = lv
         /\ \A i, j \in 1 .. n :
              i < j => Key(side, ranked[i][2]) < Key(side, ranked[j][2])
<1>1. n \in Nat /\ ranked \in Bijection(1 .. n, Present(side))
  BY DEF IsRanking
<1>2. /\ ranked \in [1 .. n -> Present(side)]
      /\ \A lv \in Present(side) : \E i \in 1 .. n : ranked[i] = lv
  BY <1>1, Fun_BijectionProperties
<1>3. ASSUME NEW i \in 1 .. n
      PROVE  /\ ranked[i] \in Present(side) /\ ranked[i] \in Levels
             /\ ranked[i] = <<side, ranked[i][2]>> /\ ranked[i][2] \in Int
  <2>1. ranked[i] \in Present(side)
    BY <1>2
  <2>2. ranked[i] \in Levels /\ ranked[i][1] = side
    BY <2>1 DEF Present
  <2> QED
    BY <2>1, <2>2, LevelFacts
<1>4. Cardinality(Present(side)) = n
  <2>1. IsFiniteSet(1 .. n) /\ Cardinality(1 .. n) = n
    BY <1>1, FS_Interval
  <2>2. ExistsBijection(1 .. n, Present(side))
    BY <1>1 DEF ExistsBijection
  <2> QED
    BY <2>1, <2>2, FS_Bijection
<1>5. ASSUME NEW i \in 1 .. n, NEW j \in 1 .. n, i < j
      PROVE  Key(side, ranked[i][2]) < Key(side, ranked[j][2])
  <2>1. Better(side, ranked[i], ranked[j]) /\ ranked[i][2] \in Int /\ ranked[j][2] \in Int
    BY <1>3, <1>5 DEF IsRanking
  <2> QED
    BY <2>1 DEF Better, Key
<1> QED
  BY <1>1, <1>2, <1>3, <1>4, <1>5

(* The scan is a ranking. *)
LEMMA ScanIsRanking ==
  ASSUME Holds, NEW side \in Sides
  PROVE  LET levels == LevelsOf(side)
             n == Len(levels)
             listed == [i \in 1 .. n |-> <<side, levels[i][1]>>]
         IN  /\ levels \in Seq(Int \X Int) /\ n \in Nat
             /\ IsRanking(side, listed, n)
             /\ \A i \in 1 .. n : levels[i] = Quote(listed[i])
<1> DEFINE s == sides[side]
           levels == LevelsOf(side)
           n == Len(levels)
           listed == [i \in 1 .. n |-> <<side, levels[i][1]>>]
<1>1. /\ IsSide(s) /\ image \in [Levels -> Nat]
      /\ \A slot \in Slots : s.sizes[slot] = image[<<side, PriceAt(slot)>>]
  BY DEF Holds
<1>2. Lists(s, side, levels)
  BY <1>1, LevelsAreListed
<1> HIDE DEF s, levels
<1>3. levels \in Seq(Int \X Int) /\ n \in Nat
  BY <1>2 DEF Lists
<1>4. ASSUME NEW i \in 1 .. n
      PROVE  /\ <<side, levels[i][1]>> \in Present(side)
             /\ levels[i] = Quote(<<side, levels[i][1]>>)
             /\ levels[i][1] \in Int
  <2>1. PICK slot \in Slots : s.sizes[slot] # 0 /\ levels[i] = LevelAt(s, slot)
    BY <1>2 DEF Lists
  <2> DEFINE lv == <<side, PriceAt(slot)>>
  <2>2. /\ lv \in Levels /\ image[lv] = s.sizes[slot] /\ image[lv] \in Nat
        /\ PriceAt(slot) \in Int
    BY <1>1, SlotIsLevel, SlotOnGrid
  <2>3. lv \in Present(side) /\ Quote(lv) = LevelAt(s, slot)
    BY <2>1, <2>2 DEF Present, Quote, LevelAt
  <2>4. levels[i][1] = PriceAt(slot)
    BY <2>1 DEF LevelAt
  <2> QED
    BY <2>1, <2>2, <2>3, <2>4
<1>5. ASSUME NEW lv \in Present(side)
      PROVE  \E i \in 1 .. n : listed[i] = lv
  <2>1. /\ lv \in Levels /\ lv[1] = side /\ image[lv] > 0 /\ lv = <<side, lv[2]>>
        /\ IndexOf(lv[2]) \in Slots /\ PriceAt(IndexOf(lv[2])) = lv[2]
    BY LevelFacts DEF Present
  <2>2. s.sizes[IndexOf(lv[2])] # 0
    <3>1. s.sizes[IndexOf(lv[2])] = image[<<side, PriceAt(IndexOf(lv[2]))>>]
      BY <1>1, <2>1
    <3>2. s.sizes[IndexOf(lv[2])] = image[lv]
      BY <2>1, <3>1
    <3> QED
      BY <1>1, <2>1, <3>2
  <2>3. PICK i \in 1 .. n : levels[i] = LevelAt(s, IndexOf(lv[2]))
    BY <1>2, <2>1, <2>2 DEF Lists
  <2>4. levels[i][1] = lv[2]
    BY <2>1, <2>3 DEF LevelAt
  <2> QED
    BY <2>1, <2>4
<1>6. ASSUME NEW i \in 1 .. n, NEW j \in 1 .. n, i < j
      PROVE  Key(side, levels[i][1]) < Key(side, levels[j][1])
  BY <1>2, <1>6 DEF Lists
<1>7. listed \in Bijection(1 .. n, Present(side))
  <2>1. listed \in [1 .. n -> Present(side)]
    BY <1>4
  <2>2. ASSUME NEW i \in 1 .. n, NEW j \in 1 .. n, listed[i] = listed[j]
        PROVE  i = j
    <3>1. levels[i][1] = levels[j][1] /\ levels[i][1] \in Int
      BY <1>4, <2>2
    <3>2. Key(side, levels[i][1]) = Key(side, levels[j][1]) /\ Key(side, levels[i][1]) \in Int
      BY <3>1 DEF Key
    <3>3. ~ i < j /\ ~ j < i
      BY <1>6, <3>2
    <3> QED
      BY <1>3, <3>3
  <2> HIDE DEF listed
  <2> QED
    BY <1>5, <2>1, <2>2 DEF Bijection, Injection, Surjection, IsInjective
<1>8. ASSUME NEW i \in 1 .. n, NEW j \in 1 .. n, i < j
      PROVE  Better(side, listed[i], listed[j])
  <2>1. listed[i][2] = levels[i][1] /\ listed[j][2] = levels[j][1]
    OBVIOUS
  <2>2. levels[i][1] \in Int /\ levels[j][1] \in Int
    BY <1>4
  <2> QED
    BY <1>6, <1>8, <2>1, <2>2 DEF Better, Key
<1>9. IsRanking(side, listed, n)
  BY <1>3, <1>7, <1>8 DEF IsRanking
<1>10. \A i \in 1 .. n : levels[i] = Quote(listed[i])
  BY <1>4
<1> QED
  BY <1>3, <1>9, <1>10 DEF levels

(* There is one ranking, and the scan is it. *)
LEMMA ScanIsRanked ==
  ASSUME Holds, NEW side \in Sides
  PROVE  LET levels == LevelsOf(side)
             n == Len(levels)
         IN  /\ IsRanking(side, Ranked(side), n)
             /\ levels \in Seq(Int \X Int) /\ n \in Nat
             /\ \A i \in 1 .. n : levels[i] = Quote(Ranked(side)[i])
<1> DEFINE levels == LevelsOf(side)
           n == Len(levels)
           listed == [i \in 1 .. n |-> <<side, levels[i][1]>>]
           ranked == Ranked(side)
<1>1. /\ levels \in Seq(Int \X Int) /\ n \in Nat /\ IsRanking(side, listed, n)
      /\ \A i \in 1 .. n : levels[i] = Quote(listed[i])
  BY ScanIsRanking
<1> HIDE DEF levels, listed, ranked
<1>2. Cardinality(Present(side)) = n
  BY <1>1, RankingFacts
<1>3. IsRanking(side, ranked, n)
  <2> DEFINE Sorted(r) == \A i, j \in DOMAIN r : i < j => Better(side, r[i], r[j])
  <2>1. listed \in Bijection(1 .. n, Present(side)) /\ Sorted(listed)
    <3> HIDE DEF n
    <3>1. listed \in Bijection(1 .. n, Present(side)) /\ DOMAIN listed = 1 .. n
      BY <1>1, RankingFacts DEF IsRanking
    <3>2. \A i, j \in 1 .. n : i < j => Better(side, listed[i], listed[j])
      BY <1>1 DEF IsRanking
    <3> QED
      BY <3>1, <3>2
  <2>2. ranked = CHOOSE r \in Bijection(1 .. n, Present(side)) : Sorted(r)
    BY <1>2 DEF Ranked, ranked
  <2>3. ranked \in Bijection(1 .. n, Present(side)) /\ Sorted(ranked)
    <3> HIDE DEF Sorted
    <3> QED
      BY <2>1, <2>2
  <2>4. DOMAIN ranked = 1 .. n
    BY <2>3, Fun_BijectionProperties
  <2> QED
    BY <1>1, <2>3, <2>4 DEF IsRanking
<1>4. ASSUME NEW i \in 1 .. n
      PROVE  ranked[i] = listed[i]
  <2> DEFINE a == [k \in 1 .. n |-> Key(side, ranked[k][2])]
             b == [k \in 1 .. n |-> Key(side, listed[k][2])]
  <2>1. /\ \A k \in 1 .. n : /\ ranked[k] \in Present(side) /\ ranked[k] = <<side, ranked[k][2]>>
                             /\ ranked[k][2] \in Int
        /\ \A lv \in Present(side) : \E k \in 1 .. n : ranked[k] = lv
        /\ \A k, j \in 1 .. n : k < j => Key(side, ranked[k][2]) < Key(side, ranked[j][2])
    <3> HIDE DEF n
    <3> QED
      BY <1>3, RankingFacts
  <2>2. /\ \A k \in 1 .. n : /\ listed[k] \in Present(side) /\ listed[k] = <<side, listed[k][2]>>
                             /\ listed[k][2] \in Int
        /\ \A lv \in Present(side) : \E k \in 1 .. n : listed[k] = lv
        /\ \A k, j \in 1 .. n : k < j => Key(side, listed[k][2]) < Key(side, listed[j][2])
    <3> HIDE DEF n
    <3> QED
      BY <1>1, RankingFacts
  <2>3. \A p \in Int : Key(side, p) \in Int
    BY DEF Key
  <2>4. /\ a \in [1 .. n -> Int] /\ b \in [1 .. n -> Int]
        /\ \A k, j \in 1 .. n : k < j => a[k] < a[j]
        /\ \A k, j \in 1 .. n : k < j => b[k] < b[j]
        /\ \A k \in 1 .. n : \E j \in 1 .. n : a[k] = b[j]
        /\ \A k \in 1 .. n : \E j \in 1 .. n : b[k] = a[j]
    <3>1. a \in [1 .. n -> Int] /\ b \in [1 .. n -> Int]
      BY <2>1, <2>2, <2>3
    <3>2. \A k, j \in 1 .. n : k < j => a[k] < a[j]
      BY <2>1
    <3>3. \A k, j \in 1 .. n : k < j => b[k] < b[j]
      BY <2>2
    <3>4. ASSUME NEW k \in 1 .. n
          PROVE  \E j \in 1 .. n : a[k] = b[j]
      <4>1. PICK j \in 1 .. n : listed[j] = ranked[k]
        BY <2>1, <2>2
      <4> QED
        BY <4>1
    <3>5. ASSUME NEW k \in 1 .. n
          PROVE  \E j \in 1 .. n : b[k] = a[j]
      <4>1. PICK j \in 1 .. n : ranked[j] = listed[k]
        BY <2>1, <2>2
      <4> QED
        BY <4>1
    <3> HIDE DEF a, b
    <3> QED
      BY <3>1, <3>2, <3>3, <3>4, <3>5
  <2>5. a[i] = b[i]
    <3> HIDE DEF a, b
    <3>1. \A k \in 1 .. n : a[k] = b[k]
      BY <1>1, <2>4, IncreasingUnique
    <3> QED
      BY <3>1
  <2>6. Key(side, ranked[i][2]) = Key(side, listed[i][2])
    BY <2>5
  <2>7. /\ ranked[i] = <<side, ranked[i][2]>> /\ ranked[i][2] \in Int
        /\ listed[i] = <<side, listed[i][2]>> /\ listed[i][2] \in Int
    BY <2>1, <2>2
  <2> HIDE DEF a, b, n
  <2>8. ranked[i][2] = listed[i][2]
    BY <2>6, <2>7 DEF Key
  <2> QED
    BY ONLY <2>7, <2>8
<1> QED
  BY <1>1, <1>3, <1>4 DEF levels, ranked

-----------------------------------------------------------------------------
(* The queries answer from the ranking. *)

(* The levels a side lists, and the ranking of the image they come from.    *)
ListsRanked(side, levels, ranked, n) ==
  /\ n \in Nat /\ levels \in Seq(Int \X Int) /\ Len(levels) = n
  /\ DOMAIN levels = 1 .. n /\ DOMAIN ranked = 1 .. n
  /\ ranked \in Seq(Levels) /\ Len(ranked) = n
  /\ \A i \in 1 .. n :
       /\ levels[i] = <<ranked[i][2], image[ranked[i]]>>
       /\ ranked[i] \in Present(side) /\ ranked[i] \in Levels
       /\ ranked[i] = <<side, ranked[i][2]>> /\ ranked[i][2] \in Int
       /\ image[ranked[i]] \in Nat \ {0}
  /\ \A lv \in Present(side) : \E i \in 1 .. n : ranked[i] = lv
  /\ \A i, j \in 1 .. n : i < j => Key(side, ranked[i][2]) < Key(side, ranked[j][2])

LEMMA SideListsRanked ==
  ASSUME Holds, NEW side \in Sides
  PROVE  \E n \in Nat : ListsRanked(side, LevelsOf(side), Ranked(side), n)
<1> DEFINE levels == LevelsOf(side)
           ranked == Ranked(side)
           n == Len(levels)
<1>1. /\ IsRanking(side, ranked, n) /\ levels \in Seq(Int \X Int) /\ n \in Nat
      /\ \A i \in 1 .. n : levels[i] = Quote(ranked[i])
  BY ScanIsRanked
<1> HIDE DEF levels, ranked
<1>2. /\ DOMAIN ranked = 1 .. n
      /\ ranked = [i \in 1 .. n |-> ranked[i]]
      /\ \A i \in 1 .. n :
           /\ ranked[i] \in Present(side) /\ ranked[i] \in Levels
           /\ ranked[i] = <<side, ranked[i][2]>> /\ ranked[i][2] \in Int
      /\ \A lv \in Present(side) : \E i \in 1 .. n : ranked[i] = lv
      /\ \A i, j \in 1 .. n : i < j => Key(side, ranked[i][2]) < Key(side, ranked[j][2])
  BY <1>1, RankingFacts
<1>3. DOMAIN levels = 1 .. n
  BY <1>1
<1>4. ranked \in Seq(Levels) /\ Len(ranked) = n
  <2>1. ranked \in [1 .. n -> Levels]
    BY <1>2
  <2> HIDE DEF n
  <2> QED
    BY <1>1, <1>2, <2>1
<1>5. ASSUME NEW i \in 1 .. n
      PROVE  levels[i] = <<ranked[i][2], image[ranked[i]]>> /\ image[ranked[i]] \in Nat \ {0}
  <2>1. ranked[i] \in Levels /\ image[ranked[i]] > 0
    BY <1>2 DEF Present
  <2>2. image[ranked[i]] \in Nat
    BY <2>1 DEF Holds
  <2> QED
    BY <1>1, <2>1, <2>2 DEF Quote
<1>6. ListsRanked(side, levels, ranked, n)
  <2> HIDE DEF n
  <2> QED
    BY <1>1, <1>2, <1>3, <1>4, <1>5 DEF ListsRanked, n
<1> QED
  BY <1>1, <1>6 DEF levels, ranked

(* The first k levels of a ranking. *)
Foremost(ranked, k) == {ranked[i] : i \in 1 .. k}

LEMMA ForemostFacts ==
  ASSUME NEW side \in Sides, NEW levels, NEW ranked, NEW n \in Nat,
         ListsRanked(side, levels, ranked, n), NEW k \in 0 .. n
  PROVE  /\ Foremost(ranked, k) \subseteq Present(side)
         /\ Foremost(ranked, k) \in SUBSET Levels
         /\ IsFiniteSet(Foremost(ranked, k))
         /\ k = 0 => Foremost(ranked, k) = {}
         /\ k = n => Foremost(ranked, k) = Present(side)
         /\ k > 0 => /\ Foremost(ranked, k) = Foremost(ranked, k - 1) \cup {ranked[k]}
                     /\ ranked[k] \notin Foremost(ranked, k - 1)
<1>1. k \in Nat /\ \A i \in 1 .. k : i \in 1 .. n
  OBVIOUS
<1>2. Foremost(ranked, k) \subseteq Present(side) /\ Foremost(ranked, k) \in SUBSET Levels
  BY <1>1 DEF Foremost, ListsRanked, Present
<1>3. IsFiniteSet(Foremost(ranked, k))
  BY <1>2, LevelsAreFinite, FS_Subset
<1>4. k = 0 => Foremost(ranked, k) = {}
  BY DEF Foremost
<1>5. k = n => Foremost(ranked, k) = Present(side)
  BY <1>2 DEF Foremost, ListsRanked
<1>6. ASSUME k > 0
      PROVE  /\ Foremost(ranked, k) = Foremost(ranked, k - 1) \cup {ranked[k]}
             /\ ranked[k] \notin Foremost(ranked, k - 1)
  <2>1. 1 .. k = (1 .. k - 1) \cup {k} /\ k \in 1 .. n
    BY <1>1, <1>6
  <2>2. ASSUME NEW i \in 1 .. k - 1
        PROVE  ranked[i] # ranked[k]
    <3>1. i \in 1 .. n /\ i < k
      BY <1>1
    <3>2. Key(side, ranked[i][2]) < Key(side, ranked[k][2]) /\ ranked[k][2] \in Int
      BY <2>1, <3>1 DEF ListsRanked
    <3>3. Key(side, ranked[k][2]) \in Int
      BY <3>2 DEF Key
    <3> QED
      BY <3>2, <3>3
  <2> QED
    BY <2>1, <2>2 DEF Foremost
<1> QED
  BY <1>2, <1>3, <1>4, <1>5, <1>6

(* Adding up the sizes of the first k levels that have one of the prices.  *)
Priced(set, prices) == {lv \in set : lv[2] \in prices}

LEMMA PrefixSums ==
  ASSUME image \in [Levels -> Nat],
         NEW side \in Sides, NEW levels, NEW ranked, NEW n \in Nat,
         ListsRanked(side, levels, ranked, n), NEW k \in 0 .. n,
         NEW prices, NEW run, run[0] = 0,
         \A j \in 1 .. k : run[j] = IF ranked[j][2] \in prices THEN run[j - 1] + levels[j][2]
                                    ELSE run[j - 1]
  PROVE  run[k] = SumOver(Priced(Foremost(ranked, k), prices), image)
<1> DEFINE Chosen(j) == Priced(Foremost(ranked, j), prices)
           T == {j \in 0 .. k : run[j] = SumOver(Chosen(j), image)}
<1>1. k \in Nat /\ \A j \in 0 .. k : j \in 0 .. n
  OBVIOUS
<1>2. 0 \in T
  <2>1. Chosen(0) = {}
    BY <1>1, ForemostFacts DEF Priced
  <2>2. SumOver({}, image) = 0
    BY SumEmpty, SumOverIsSum
  <2>3. run[0] = SumOver(Chosen(0), image)
    BY <2>1, <2>2
  <2> HIDE DEF Chosen
  <2> QED
    BY <1>1, <2>3
<1>3. ASSUME NEW j \in 1 .. k, j - 1 \in T
      PROVE  j \in T
  <2>1. j \in 0 .. n /\ j > 0 /\ j \in 1 .. n /\ j - 1 \in 0 .. n /\ j \in 0 .. k
    BY <1>1
  <2>2. /\ Foremost(ranked, j) = Foremost(ranked, j - 1) \cup {ranked[j]}
        /\ ranked[j] \notin Foremost(ranked, j - 1)
        /\ Foremost(ranked, j - 1) \in SUBSET Levels /\ IsFiniteSet(Foremost(ranked, j - 1))
    BY <2>1, ForemostFacts
  <2>3. levels[j] = <<ranked[j][2], image[ranked[j]]>> /\ ranked[j] \in Levels
    BY <2>1 DEF ListsRanked
  <2>4. run[j - 1] = SumOver(Chosen(j - 1), image)
    BY <1>3
  <2>5. CASE ranked[j][2] \in prices
    <3>1. Chosen(j) = Chosen(j - 1) \cup {ranked[j]} /\ ranked[j] \notin Chosen(j - 1)
      BY <2>2, <2>5 DEF Priced
    <3>2. Chosen(j - 1) \in SUBSET Levels /\ IsFiniteSet(Chosen(j - 1))
      BY <2>2, FS_Subset DEF Priced
    <3> HIDE DEF Chosen
    <3>3. \A lv \in Chosen(j - 1) \cup {ranked[j]} : image[lv] \in Int
      BY <2>3, <3>2
    <3>4. SumOver(Chosen(j), image) = SumOver(Chosen(j - 1), image) + image[ranked[j]]
      BY <3>1, <3>2, <3>3, SumAdd, SumOverIsSum
    <3>5. run[j] = run[j - 1] + levels[j][2]
      BY <2>5
    <3> QED
      BY <2>1, <2>3, <2>4, <3>4, <3>5
  <2>6. CASE ranked[j][2] \notin prices
    <3>1. Chosen(j) = Chosen(j - 1)
      BY <2>2, <2>6 DEF Priced
    <3>2. run[j] = run[j - 1]
      BY <2>6
    <3> HIDE DEF Chosen
    <3> QED
      BY <2>1, <2>4, <3>1, <3>2
  <2> QED
    BY <2>5, <2>6
<1>4. \A j \in 0 .. k : j \in T
  <2> HIDE DEF T
  <2> QED
    BY <1>1, <1>2, <1>3, UpwardInduction
<1>5. k \in T
  BY <1>1, <1>4
<1> QED
  BY <1>5

AddSize(none, sum, level) == sum + level[2]

SizeFold == INSTANCE FoldLemmas WITH Step <- AddSize

AddPriced(prices, sum, level) == IF level[1] \in prices THEN sum + level[2] ELSE sum

PricedFold == INSTANCE FoldLemmas WITH Step <- AddPriced

LEMMA SizesAreFolds ==
  ASSUME NEW levels
  PROVE  /\ SizeOf(levels) = SizeFold!LeftFold(0, 0, levels)
         /\ \A prices : SizeAt(levels, prices) = PricedFold!LeftFold(prices, 0, levels)
<1>1. SizeOf(levels) = SizeFold!LeftFold(0, 0, levels)
  BY DEF SizeOf, AddSize, FoldLeft, MapThenFoldSet, Max,
         SizeFold!LeftFold, SizeFold!FoldLeft, SizeFold!MapThenFoldSet, SizeFold!Max
<1>2. ASSUME NEW prices
      PROVE  SizeAt(levels, prices) = PricedFold!LeftFold(prices, 0, levels)
  BY DEF SizeAt, AddPriced, FoldLeft, MapThenFoldSet, Max,
         PricedFold!LeftFold, PricedFold!FoldLeft, PricedFold!MapThenFoldSet, PricedFold!Max
<1> QED
  BY <1>1, <1>2

(* Whole levels from the best on, and all levels at some prices.           *)
LEMMA SizesAreSums ==
  ASSUME image \in [Levels -> Nat],
         NEW side \in Sides, NEW levels, NEW ranked, NEW n \in Nat,
         ListsRanked(side, levels, ranked, n)
  PROVE  /\ \A k \in 0 .. n :
              SizeOf(SubSeq(levels, 1, k)) = SumOver(Foremost(ranked, k), image)
         /\ \A prices : SizeAt(levels, prices) = SumOver(Priced(Present(side), prices), image)
<1>1. ASSUME NEW k \in 0 .. n
      PROVE  SizeOf(SubSeq(levels, 1, k)) = SumOver(Foremost(ranked, k), image)
  <2> DEFINE head == SubSeq(levels, 1, k)
  <2>1. k \in Nat /\ \A j \in 1 .. k : j \in 1 .. n
    OBVIOUS
  <2>2. DOMAIN head = 1 .. k /\ \A j \in 1 .. k : head[j] = levels[j]
    BY <2>1 DEF ListsRanked
  <2> HIDE DEF head
  <2>3. PICK run : SizeFold!LeftRun(0, 0, head, k, run)
    BY <2>1, <2>2, SizeFold!LeftFoldRuns
  <2>4. /\ run[0] = 0 /\ SizeOf(head) = run[k]
        /\ \A j \in 1 .. k : run[j] = run[j - 1] + levels[j][2]
    BY <2>2, <2>3, SizesAreFolds DEF SizeFold!LeftRun, AddSize
  <2>5. \A j \in 1 .. k : ranked[j][2] \in Int
    BY <2>1 DEF ListsRanked
  <2>6. run[k] = SumOver(Priced(Foremost(ranked, k), Int), image)
    <3>1. \A j \in 1 .. k : run[j] = IF ranked[j][2] \in Int THEN run[j - 1] + levels[j][2]
                                     ELSE run[j - 1]
      BY <2>4, <2>5
    <3> QED
      BY <2>4, <3>1, PrefixSums
  <2>7. Priced(Foremost(ranked, k), Int) = Foremost(ranked, k)
    BY <2>5 DEF Priced, Foremost
  <2> QED
    BY <2>4, <2>6, <2>7 DEF head
<1>2. ASSUME NEW prices
      PROVE  SizeAt(levels, prices) = SumOver(Priced(Present(side), prices), image)
  <2>1. DOMAIN levels = 1 .. n /\ \A j \in 1 .. n : levels[j][1] = ranked[j][2]
    BY DEF ListsRanked
  <2>2. PICK run : PricedFold!LeftRun(prices, 0, levels, n, run)
    BY <2>1, PricedFold!LeftFoldRuns
  <2>3. /\ run[0] = 0 /\ SizeAt(levels, prices) = run[n]
        /\ \A j \in 1 .. n : run[j] = IF ranked[j][2] \in prices THEN run[j - 1] + levels[j][2]
                                      ELSE run[j - 1]
    BY <2>1, <2>2, SizesAreFolds DEF PricedFold!LeftRun, AddPriced
  <2>4. n \in 0 .. n /\ Foremost(ranked, n) = Present(side)
    BY ForemostFacts
  <2>5. run[n] = SumOver(Priced(Foremost(ranked, n), prices), image)
    BY <2>3, <2>4, PrefixSums
  <2> QED
    BY <2>3, <2>4, <2>5
<1> QED
  BY <1>1, <1>2


(* The greatest and the least of some counts. *)
LEMMA ExtremeCounts ==
  ASSUME NEW n \in Nat, NEW T \in SUBSET (0 .. n), T # {}
  PROVE  /\ Min(T) \in T /\ \A x \in T : Min(T) <= x
         /\ Max(T) \in T /\ \A x \in T : x <= Max(T)
<1>1. T \in SUBSET Nat /\ T \in SUBSET Int /\ IsFiniteSet(T)
  <2>1. IsFiniteSet(0 .. n)
    BY FS_Interval
  <2>2. IsFiniteSet(T)
    BY <2>1, FS_Subset
  <2> QED
    BY <2>2
<1>2. \E x \in T : \A y \in T : x <= y
  BY <1>1, LeastElement
<1>3. Min(T) \in T /\ \A x \in T : Min(T) <= x
  BY <1>2 DEF Min
<1>4. PICK x \in T : \A y \in T : y <= x
  BY <1>1, GreatestElement
<1>5. \A y \in T : x >= y
  BY <1>1, <1>4
<1>6. Max(T) \in T /\ \A y \in T : Max(T) >= y
  BY <1>4, <1>5 DEF Max
<1> QED
  BY <1>1, <1>3, <1>6

LEMMA MinOfTwo ==
  ASSUME NEW a \in Int, NEW b \in Int
  PROVE  /\ Min({a, b}) = IF a <= b THEN a ELSE b
         /\ Max({a, b}) = IF a <= b THEN b ELSE a
<1>1. \E x \in {a, b} : \A y \in {a, b} : x <= y
  OBVIOUS
<1>2. Min({a, b}) \in {a, b} /\ \A y \in {a, b} : Min({a, b}) <= y
  BY <1>1 DEF Min
<1>3. \E x \in {a, b} : \A y \in {a, b} : x >= y
  OBVIOUS
<1>4. Max({a, b}) \in {a, b} /\ \A y \in {a, b} : Max({a, b}) >= y
  BY <1>3 DEF Max
<1> QED
  BY <1>2, <1>4

(* The best n levels, or all there are. *)
LEMMA TopNFacts ==
  ASSUME Holds, NEW side \in Sides, NEW n \in Nat,
         ListsRanked(side, LevelsOf(side), Ranked(side), n), NEW m \in Nat
  PROVE  LET k == IF m <= n THEN m ELSE n
         IN  /\ k \in 0 .. n
             /\ TopN(side, m) = SubSeq(LevelsOf(side), 1, k)
             /\ TopNSize(side, m) = SumOver(Foremost(Ranked(side), k), image)
<1> DEFINE k == IF m <= n THEN m ELSE n
<1>1. k \in 0 .. n /\ Len(LevelsOf(side)) = n
  BY DEF ListsRanked
<1>2. Min({m, n}) = k
  BY MinOfTwo
<1>3. TopN(side, m) = SubSeq(LevelsOf(side), 1, k)
  BY <1>1, <1>2 DEF TopN
<1>4. image \in [Levels -> Nat]
  BY DEF Holds
<1> HIDE DEF k
<1>5. SizeOf(SubSeq(LevelsOf(side), 1, k)) = SumOver(Foremost(Ranked(side), k), image)
  BY <1>1, <1>4, SizesAreSums
<1> QED
  BY <1>1, <1>3, <1>5 DEF TopNSize, k

(* The n-th best level, for any n. *)
LEMMA NthFacts ==
  ASSUME Holds, NEW side \in Sides, NEW m \in Nat \ {0}
  PROVE  Nth(side, m) = IF m > Len(Ranked(side)) THEN <<>> ELSE Quote(Ranked(side)[m])
<1> DEFINE levels == LevelsOf(side)
           ranked == Ranked(side)
           k == IF m <= Len(ranked) THEN m ELSE Len(ranked)
<1>1. PICK n \in Nat : ListsRanked(side, levels, ranked, n)
  BY SideListsRanked
<1>2. /\ levels \in Seq(Int \X Int) /\ Len(levels) = n /\ Len(ranked) = n
      /\ \A i \in 1 .. n : levels[i] = Quote(ranked[i])
  BY <1>1 DEF ListsRanked, Quote
<1>3. k \in 0 .. n /\ TopN(side, m) = SubSeq(levels, 1, k)
  BY <1>1, <1>2, TopNFacts
<1>4. Len(SubSeq(levels, 1, k)) = k /\ (m <= n => SubSeq(levels, 1, k)[m] = levels[m])
  <2> HIDE DEF levels, ranked
  <2> QED
    BY <1>2, <1>3
<1> HIDE DEF levels
<1>5. Nth(side, m) = IF m <= n THEN levels[m] ELSE <<>>
  BY <1>2, <1>3, <1>4 DEF Nth
<1> QED
  BY <1>2, <1>5

(* The levels, the best level and each of the best levels are the ranked.  *)
LEMMA LevelsAreRanked ==
  ASSUME Holds, NEW side \in Sides
  PROVE  LevelsAreOfImage(side)
<1> DEFINE levels == LevelsOf(side)
           ranked == Ranked(side)
<1>1. PICK n \in Nat : ListsRanked(side, levels, ranked, n)
  BY SideListsRanked
<1>2. /\ levels \in Seq(Int \X Int) /\ Len(levels) = n
      /\ DOMAIN levels = 1 .. n /\ DOMAIN ranked = 1 .. n
      /\ ranked \in Seq(Levels) /\ Len(ranked) = n
      /\ \A i \in 1 .. n : levels[i] = Quote(ranked[i])
  BY <1>1 DEF ListsRanked, Quote
<1>3. BestLevel(side) = IF n = 0 THEN <<>> ELSE levels[1]
  BY <1>2, LevelsAreListed DEF Holds
<1>4. \A m \in 1 .. 3 : Nth(side, m) = IF m > Len(ranked) THEN <<>> ELSE Quote(ranked[m])
  BY NthFacts
<1> HIDE DEF levels, ranked
<1>5. levels = [i \in DOMAIN ranked |-> Quote(ranked[i])]
  <2>1. levels = [i \in 1 .. n |-> levels[i]]
    BY <1>2
  <2> QED
    BY <1>2, <2>1
<1>6. ranked = <<>> <=> n = 0
  BY <1>2
<1>7. BestLevel(side) = IF ranked = <<>> THEN <<>> ELSE Quote(ranked[1])
  BY <1>2, <1>3, <1>6
<1> QED
  BY <1>4, <1>5, <1>7 DEF LevelsAreOfImage, levels, ranked

(* A sum over levels is that over the occupied ones among them.            *)
LEMMA SumOfPresent ==
  ASSUME image \in [Levels -> Nat], NEW side \in Sides,
         NEW set \in SUBSET Levels, \A lv \in set : lv[1] = side
  PROVE  SumOver(set, image) = SumOver(set \cap Present(side), image)
<1>1. IsFiniteSet(set) /\ \A lv \in set : image[lv] \in Nat
  BY LevelsAreFinite, FS_Subset
<1>2. \A lv \in set \ (set \cap Present(side)) : image[lv] = 0
  BY <1>1 DEF Present
<1>3. SumFunctionOnSet(image, set) = SumFunctionOnSet(image, set \cap Present(side))
  <2>1. set \cap Present(side) \in SUBSET set /\ \A lv \in set : image[lv] \in Int
    BY <1>1
  <2> QED
    BY <1>1, <1>2, <2>1, SumOfNonzero
<1> QED
  BY <1>3, SumOverIsSum

LEMMA LevelSizeFacts ==
  ASSUME Holds, NEW side \in Sides, NEW price \in Int
  PROVE  LevelSize(sides[side], price)
           = SumOver({lv \in Levels : lv[1] = side /\ lv[2] = price}, image)
<1> DEFINE at == {lv \in Levels : lv[1] = side /\ lv[2] = price}
<1>1. CASE OnGrid(price)
  <2>1. price \in MinPrice .. MaxPrice
    BY <1>1, GridFacts DEF OnGrid
  <2>2. <<side, price>> \in Levels
    BY <1>1, <2>1, Grid
  <2>3. at = {} \cup {<<side, price>>}
    BY <2>2, LevelFacts
  <2>4. image[<<side, price>>] \in Nat
    BY <2>2 DEF Holds
  <2>5. SumOver(at, image) = image[<<side, price>>]
    <3>1. SumFunctionOnSet(image, {} \cup {<<side, price>>})
            = SumFunctionOnSet(image, {}) + image[<<side, price>>]
      <4>1. IsFiniteSet({}) /\ <<side, price>> \notin {}
            /\ \A x \in {} \cup {<<side, price>>} : image[x] \in Int
        BY <2>4, FS_EmptySet
      <4> QED
        BY <4>1, SumAdd
    <3> HIDE DEF at
    <3> QED
      BY <2>3, <2>4, <3>1, SumEmpty, SumOverIsSum
  <2>6. IndexOf(price) \in Slots /\ PriceAt(IndexOf(price)) = price
    BY <2>2, LevelFacts
  <2>7. sides[side].sizes[IndexOf(price)] = image[<<side, price>>]
    BY <2>6 DEF Holds
  <2> QED
    BY <1>1, <2>5, <2>7 DEF LevelSize
<1>2. CASE ~ OnGrid(price)
  <2>1. at = {}
    BY <1>2, LevelFacts
  <2>2. SumOver({}, image) = 0
    BY SumEmpty, SumOverIsSum
  <2> QED
    BY <1>2, <2>1, <2>2 DEF LevelSize
<1> QED
  BY <1>1, <1>2

LEMMA DepthUntilSizeFacts ==
  ASSUME Holds, NEW side \in Sides, NEW size \in Nat
  PROVE  DepthUntilTotalSize(side, size) = DepthOfImage(side, size)
<1> DEFINE levels == LevelsOf(side)
           ranked == Ranked(side)
           Total(m) == SumOver({ranked[i] : i \in 1 .. m}, image)
           reach == {m \in DOMAIN levels : TopNSize(side, m) >= size}
           enough == {m \in DOMAIN ranked : Total(m) >= size}
<1>1. PICK n \in Nat : ListsRanked(side, levels, ranked, n)
  BY SideListsRanked
<1>2. /\ DOMAIN levels = 1 .. n /\ DOMAIN ranked = 1 .. n
      /\ \A i \in 1 .. n : levels[i][1] = ranked[i][2]
  <2> HIDE DEF levels, ranked
  <2>1. /\ DOMAIN levels = 1 .. n /\ DOMAIN ranked = 1 .. n
        /\ \A i \in 1 .. n : levels[i] = <<ranked[i][2], image[ranked[i]]>>
    BY <1>1 DEF ListsRanked
  <2> QED
    BY <2>1
<1>3. ASSUME NEW m \in 1 .. n
      PROVE  TopNSize(side, m) = Total(m)
  <2>1. m \in Nat /\ m <= n
    OBVIOUS
  <2>2. TopNSize(side, m) = SumOver(Foremost(ranked, m), image)
    BY <1>1, <2>1, TopNFacts
  <2> QED
    BY <2>2 DEF Foremost
<1>4. reach = enough
  <2> HIDE DEF levels, ranked, Total
  <2> QED
    BY <1>2, <1>3
<1>5. DepthUntilTotalSize(side, size)
        = IF size <= 0 \/ reach = {} THEN <<>>
          ELSE <<levels[1][1], levels[Min(reach)][1], TopNSize(side, Min(reach))>>
  BY DEF DepthUntilTotalSize
<1>6. DepthOfImage(side, size)
        = IF size = 0 \/ enough = {} THEN <<>>
          ELSE <<ranked[1][2], ranked[Min(enough)][2], Total(Min(enough))>>
  BY DEF DepthOfImage
<1>7. size <= 0 <=> size = 0
  OBVIOUS
<1>8. ASSUME enough # {}
      PROVE  Min(enough) \in 1 .. n /\ 1 \in 1 .. n
  <2>1. enough \in SUBSET (0 .. n) /\ enough \in SUBSET (1 .. n)
    BY <1>2
  <2> HIDE DEF enough
  <2>2. Min(enough) \in enough
    BY <1>8, <2>1, ExtremeCounts
  <2>3. \A m \in 1 .. n : 1 \in 1 .. n
    OBVIOUS
  <2>4. Min(enough) \in 1 .. n
    BY <2>1, <2>2
  <2> QED
    BY <2>3, <2>4
<1> HIDE DEF levels, ranked, Total, reach, enough
<1> QED
  BY <1>2, <1>3, <1>4, <1>5, <1>6, <1>7, <1>8

(* The best levels up to a price are those that are not beyond it.         *)
LEMMA DepthUntilPriceFacts ==
  ASSUME Holds, NEW side \in Sides, NEW price \in Int
  PROVE  DepthUntilPrice(side, price)
           = SumOver({lv \in Levels : lv[1] = side /\ Key(side, lv[2]) <= Key(side, price)}, image)
<1> DEFINE levels == LevelsOf(side)
           ranked == Ranked(side)
           Within(i) == Key(side, levels[i][1]) <= Key(side, price)
           counts == {m \in 0 .. Len(levels) : \A i \in 1 .. m : Within(i)}
           upTo == {lv \in Levels : lv[1] = side /\ Key(side, lv[2]) <= Key(side, price)}
<1>1. PICK n \in Nat : ListsRanked(side, levels, ranked, n)
  BY SideListsRanked
<1>2. /\ Len(levels) = n
      /\ \A i \in 1 .. n : /\ levels[i][1] = ranked[i][2] /\ ranked[i][2] \in Int
                           /\ ranked[i] \in Present(side) /\ ranked[i][1] = side
                           /\ ranked[i] \in Levels
      /\ \A lv \in Present(side) : \E i \in 1 .. n : ranked[i] = lv
      /\ \A i, j \in 1 .. n : i < j => Key(side, ranked[i][2]) < Key(side, ranked[j][2])
  BY <1>1 DEF ListsRanked, Present
<1>3. DepthUntilPrice(side, price) = TopNSize(side, Max(counts))
  <2> DEFINE Inside(level) == IF side = "Bid" THEN level[1] >= price ELSE level[1] <= price
             listed == {m \in 0 .. Len(levels) : \A i \in 1 .. m : Inside(levels[i])}
  <2>1. DepthUntilPrice(side, price) = TopNSize(side, Max(listed))
    BY DEF DepthUntilPrice
  <2>2. \A i \in 1 .. n : Inside(levels[i]) <=> Within(i)
    <3>1. \A i \in 1 .. n : levels[i][1] \in Int
      BY <1>2
    <3> HIDE DEF levels
    <3> QED
      BY <3>1 DEF Key
  <2>3. listed = counts
    <3> HIDE DEF Inside, Within
    <3>1. \A m \in 0 .. n : \A i \in 1 .. m : i \in 1 .. n
      OBVIOUS
    <3> QED
      BY <1>2, <2>2, <3>1
  <2> HIDE DEF listed, counts
  <2> QED
    BY <2>1, <2>3
<1> DEFINE k == Max(counts)
<1>4. k \in 0 .. n /\ k \in counts /\ \A m \in counts : m <= k
  <2>1. counts \in SUBSET (0 .. n) /\ 0 \in counts
    BY <1>2
  <2> HIDE DEF counts
  <2> QED
    BY <2>1, ExtremeCounts
<1>5. \A i \in 1 .. k : Within(i)
  BY <1>4
<1> HIDE DEF k
<1>6. ASSUME NEW i \in 1 .. n, Within(i)
      PROVE  i <= k
  <2>1. i \in 0 .. n
    OBVIOUS
  <2>2. ASSUME NEW j \in 1 .. i
        PROVE  Within(j)
    <3>1. j \in 1 .. n /\ (j = i \/ j < i)
      OBVIOUS
    <3>2. j < i => Key(side, levels[j][1]) < Key(side, levels[i][1])
      BY <1>2, <3>1
    <3>3. /\ Key(side, levels[j][1]) \in Int /\ Key(side, levels[i][1]) \in Int
          /\ Key(side, price) \in Int
      <4>1. levels[i][1] \in Int /\ levels[j][1] \in Int
        BY <1>2, <3>1
      <4> HIDE DEF levels
      <4> QED
        BY <4>1 DEF Key
    <3> HIDE DEF levels
    <3> QED
      BY <1>6, <3>1, <3>2, <3>3
  <2>3. i \in counts
    <3> HIDE DEF Within
    <3> QED
      BY <1>2, <2>1, <2>2
  <2> HIDE DEF counts
  <2> QED
    BY <1>4, <2>3
<1>7. Foremost(ranked, k) = upTo \cap Present(side)
  <2>1. ASSUME NEW i \in 1 .. k
        PROVE  ranked[i] \in upTo \cap Present(side)
    <3>1. i \in 1 .. n
      BY <1>4
    <3> QED
      BY <1>2, <1>5, <3>1
  <2>2. ASSUME NEW lv \in upTo \cap Present(side)
        PROVE  \E i \in 1 .. k : ranked[i] = lv
    <3>1. PICK i \in 1 .. n : ranked[i] = lv
      BY <1>2
    <3>2. Within(i)
      BY <1>2, <3>1
    <3>3. i <= k
      BY <1>6, <3>2
    <3>4. i \in 1 .. k
      BY <1>4, <3>3
    <3> QED
      BY <3>1, <3>4
  <2> HIDE DEF upTo
  <2> QED
    BY <2>1, <2>2 DEF Foremost
<1>8. SumOver(upTo, image) = SumOver(upTo \cap Present(side), image)
  <2>1. upTo \in SUBSET Levels /\ \A lv \in upTo : lv[1] = side
    OBVIOUS
  <2> HIDE DEF upTo
  <2> QED
    BY <2>1, SumOfPresent DEF Holds
<1>9. TopNSize(side, k) = SumOver(Foremost(ranked, k), image)
  BY <1>1, <1>4, TopNFacts
<1> QED
  <2> HIDE DEF upTo, counts, ranked
  <2> QED
    BY <1>3, <1>7, <1>8, <1>9 DEF k, upTo

LEMMA VolumeBetweenFacts ==
  ASSUME Holds, NEW side \in Sides, NEW from \in Int, NEW to \in Int
  PROVE  VolumeBetweenPrices(side, from, to)
           = IF from >= to THEN <<>>
             ELSE <<SumOver({lv \in Levels : lv[1] = side /\ from <= lv[2] /\ lv[2] < to}, image)>>
<1> DEFINE between == {lv \in Levels : lv[1] = side /\ from <= lv[2] /\ lv[2] < to}
           prices == from .. to - 1
<1>1. PICK n \in Nat : ListsRanked(side, LevelsOf(side), Ranked(side), n)
  BY SideListsRanked
<1>2. SizeAt(LevelsOf(side), prices) = SumOver(Priced(Present(side), prices), image)
  BY <1>1, SizesAreSums DEF Holds
<1>3. Priced(Present(side), prices) = between \cap Present(side)
  <2>1. \A lv \in Present(side) : lv \in Levels /\ lv[1] = side
    BY DEF Present
  <2>2. \A lv \in Levels : lv[2] \in Int
    BY LevelFacts
  <2>3. ASSUME NEW lv \in Present(side)
        PROVE  lv[2] \in prices <=> lv \in between
    BY <2>1, <2>2
  <2> HIDE DEF prices, between
  <2> QED
    BY <2>3 DEF Priced
<1>4. SumOver(between, image) = SumOver(between \cap Present(side), image)
  <2>1. between \in SUBSET Levels /\ \A lv \in between : lv[1] = side
    OBVIOUS
  <2> HIDE DEF between
  <2> QED
    BY <2>1, SumOfPresent DEF Holds
<1>5. SizeAt(LevelsOf(side), prices) = SumOver(between, image)
  <2> HIDE DEF between, prices
  <2> QED
    BY <1>2, <1>3, <1>4
<1> HIDE DEF between
<1> QED
  BY <1>5 DEF VolumeBetweenPrices, between

LEMMA DepthsAreRanked ==
  ASSUME Holds, NEW side \in Sides
  PROVE  DepthsAreOfImage(side)
<1>1. \A size \in 0 .. 4 : DepthUntilTotalSize(side, size) = DepthOfImage(side, size)
  BY DepthUntilSizeFacts
<1>2. ASSUME NEW price \in MinPrice .. MaxPrice + 1
      PROVE  LET below == {lv \in Levels : lv[1] = side /\ lv[2] < price}
                 at    == {lv \in Levels : lv[1] = side /\ lv[2] = price}
                 above == {lv \in Levels : lv[1] = side /\ lv[2] > price}
             IN  /\ LevelSize(sides[side], price) = SumOver(at, image)
                 /\ DepthUntilPrice(side, price) =
                      SumOver(at \cup IF side = "Bid" THEN above ELSE below, image)
                 /\ VolumeBetweenPrices(side, MinPrice, price) =
                      IF price = MinPrice THEN <<>> ELSE <<SumOver(below, image)>>
  <2> DEFINE below == {lv \in Levels : lv[1] = side /\ lv[2] < price}
             at    == {lv \in Levels : lv[1] = side /\ lv[2] = price}
             above == {lv \in Levels : lv[1] = side /\ lv[2] > price}
             upTo  == {lv \in Levels : lv[1] = side /\ Key(side, lv[2]) <= Key(side, price)}
  <2>1. price \in Int
    BY GridFacts
  <2>2. upTo = at \cup IF side = "Bid" THEN above ELSE below
    <3>1. ASSUME NEW lv \in Levels
          PROVE  Key(side, lv[2]) <= Key(side, price)
                   <=> lv[2] = price \/ IF side = "Bid" THEN lv[2] > price ELSE lv[2] < price
      BY <2>1, LevelFacts DEF Key
    <3>2. CASE side = "Bid"
      BY <3>1, <3>2
    <3>3. CASE side # "Bid"
      BY <3>1, <3>3
    <3> QED
      BY <3>2, <3>3
  <2>3. LevelSize(sides[side], price) = SumOver(at, image)
    BY <2>1, LevelSizeFacts
  <2>4. DepthUntilPrice(side, price) = SumOver(upTo, image)
    BY <2>1, DepthUntilPriceFacts
  <2>5. VolumeBetweenPrices(side, MinPrice, price) =
          IF price = MinPrice THEN <<>> ELSE <<SumOver(below, image)>>
    <3> DEFINE between == {lv \in Levels : lv[1] = side /\ MinPrice <= lv[2] /\ lv[2] < price}
    <3>1. MinPrice \in Int /\ (MinPrice >= price <=> price = MinPrice)
      BY <2>1, GridFacts
    <3>2. between = below
      <4>1. \A lv \in Levels : MinPrice <= lv[2]
        BY LevelFacts DEF OnGrid
      <4> QED
        BY <4>1
    <3>3. VolumeBetweenPrices(side, MinPrice, price) =
            IF MinPrice >= price THEN <<>> ELSE <<SumOver(between, image)>>
      BY <2>1, <3>1, VolumeBetweenFacts
    <3> HIDE DEF between, below
    <3> QED
      BY <3>1, <3>2, <3>3
  <2> HIDE DEF upTo
  <2> QED
    BY <2>2, <2>3, <2>4, <2>5
<1> QED
  BY <1>1, <1>2 DEF DepthsAreOfImage

-----------------------------------------------------------------------------
(* The imbalance and the prices of both sides. *)

LEMMA DepthIsPositive ==
  ASSUME Holds, NEW side \in Sides, NEW m \in Nat \ {0}
  PROVE  /\ TopNSize(side, m) \in Nat
         /\ TopNSize(side, m) > 0 <=> Present(side) # {}
<1>1. PICK n \in Nat : ListsRanked(side, LevelsOf(side), Ranked(side), n)
  BY SideListsRanked
<1> DEFINE ranked == Ranked(side)
           k == IF m <= n THEN m ELSE n
           best == Foremost(ranked, k)
<1>2. k \in 0 .. n /\ TopNSize(side, m) = SumOver(best, image)
  BY <1>1, TopNFacts
<1>3. best \subseteq Present(side) /\ best \in SUBSET Levels /\ IsFiniteSet(best)
  BY <1>1, <1>2, ForemostFacts
<1>4. \A lv \in best : image[lv] \in Nat /\ image[lv] > 0
  BY <1>3 DEF Holds, Present
<1>5. SumFunctionOnSet(image, best) \in Nat
      /\ \A lv \in best : image[lv] <= SumFunctionOnSet(image, best)
  BY <1>3, <1>4, SumNat
<1>6. CASE n = 0
  <2>1. Present(side) = {}
    BY <1>1, <1>6 DEF ListsRanked
  <2>2. best = {}
    BY <1>3, <2>1
  <2> HIDE DEF best
  <2> QED
    BY <1>2, <2>1, <2>2, SumEmpty, SumOverIsSum
<1>7. CASE n # 0
  <2>1. 1 \in 1 .. k /\ 1 \in 1 .. n
    BY <1>7
  <2>2. ranked[1] \in best /\ ranked[1] \in Present(side)
    BY <1>1, <2>1 DEF Foremost, ListsRanked
  <2> HIDE DEF best
  <2> QED
    BY <1>2, <1>4, <1>5, <2>2, SumOverIsSum
<1> QED
  BY <1>6, <1>7

LEMMA ImbalanceFacts ==
  ASSUME Holds
  PROVE  Imbalance(3) # <<>> <=> \E lv \in Levels : image[lv] > 0
<1> DEFINE bids == TopNSize("Bid", 3)
           asks == TopNSize("Ask", 3)
<1>1. /\ bids \in Nat /\ (bids > 0 <=> Present("Bid") # {})
      /\ asks \in Nat /\ (asks > 0 <=> Present("Ask") # {})
  BY DepthIsPositive DEF Sides
<1>2. Imbalance(3) = IF bids + asks = 0 THEN <<>> ELSE <<bids - asks, bids + asks>>
  BY DEF Imbalance
<1> HIDE DEF bids, asks
<1>3. Imbalance(3) # <<>> <=> Present("Bid") # {} \/ Present("Ask") # {}
  <2>1. bids + asks = 0 <=> bids = 0 /\ asks = 0
    BY <1>1
  <2>2. <<bids - asks, bids + asks>> # <<>>
    OBVIOUS
  <2> QED
    BY <1>1, <1>2, <2>1, <2>2
<1>4. Present("Bid") # {} \/ Present("Ask") # {} <=> \E lv \in Levels : image[lv] > 0
  <2>1. \A lv \in Levels : lv[1] = "Bid" \/ lv[1] = "Ask"
    BY LevelFacts DEF Sides
  <2> QED
    BY <2>1 DEF Present
<1> QED
  BY <1>3, <1>4

(* A price weighted by sizes lies between the prices.                      *)
LEMMA WeightedBetween ==
  ASSUME NEW p \in Nat, NEW q \in Nat, NEW x \in Nat, NEW y \in Nat
  PROVE  /\ Min({p, q}) * (x + y) <= p * x + q * y
         /\ p * x + q * y <= Max({p, q}) * (x + y)
<1> DEFINE least == Min({p, q})
           most == Max({p, q})
<1>1. /\ least \in Nat /\ least <= p /\ least <= q
      /\ most \in Nat /\ p <= most /\ q <= most
  BY MinOfTwo
<1> HIDE DEF least, most
<1>2. least * x <= p * x /\ least * y <= q * y
  BY <1>1, ProductMonotonic
<1>3. p * x <= most * x /\ q * y <= most * y
  BY <1>1, ProductMonotonic
<1>4. least * (x + y) = least * x + least * y /\ most * (x + y) = most * x + most * y
  BY <1>1
<1>5. /\ least * x \in Int /\ least * y \in Int /\ most * x \in Int /\ most * y \in Int
      /\ p * x \in Int /\ q * y \in Int
  BY <1>1
<1>6. least * x + least * y <= p * x + q * y
  BY <1>2, <1>5
<1>7. p * x + q * y <= most * x + most * y
  BY <1>3, <1>5
<1> QED
  BY <1>4, <1>6, <1>7 DEF least, most

LEMMA PricesFacts ==
  ASSUME Holds
  PROVE  PricesAreOfQuotes
<1> DEFINE bids == Ranked("Bid")
           asks == Ranked("Ask")
<1>1. PICK m \in Nat : ListsRanked("Bid", LevelsOf("Bid"), bids, m)
  BY SideListsRanked DEF Sides
<1>2. PICK n \in Nat : ListsRanked("Ask", LevelsOf("Ask"), asks, n)
  BY SideListsRanked DEF Sides
<1>3. (Present("Bid") = {} <=> m = 0) /\ (Present("Ask") = {} <=> n = 0)
  <2>1. m # 0 => 1 \in 1 .. m
    OBVIOUS
  <2>2. n # 0 => 1 \in 1 .. n
    OBVIOUS
  <2>3. /\ m # 0 => bids[1] \in Present("Bid")
        /\ \A lv \in Present("Bid") : \E i \in 1 .. m : bids[i] = lv
    BY <1>1, <2>1 DEF ListsRanked
  <2>4. /\ n # 0 => asks[1] \in Present("Ask")
        /\ \A lv \in Present("Ask") : \E i \in 1 .. n : asks[i] = lv
    BY <1>2, <2>2 DEF ListsRanked
  <2> HIDE DEF bids, asks
  <2> QED
    BY <2>3, <2>4
<1>4. /\ BestLevel("Bid") = IF m = 0 THEN <<>> ELSE LevelsOf("Bid")[1]
      /\ BestLevel("Ask") = IF n = 0 THEN <<>> ELSE LevelsOf("Ask")[1]
  <2>1. Len(LevelsOf("Bid")) = m /\ Len(LevelsOf("Ask")) = n
    BY <1>1, <1>2 DEF ListsRanked
  <2>2. IsSide(sides["Bid"]) /\ IsSide(sides["Ask"])
    BY DEF Holds, Sides
  <2> QED
    BY <2>1, <2>2, LevelsAreListed DEF Sides
<1>5. CASE m = 0 \/ n = 0
  <2>1. BestLevel("Bid") = <<>> \/ BestLevel("Ask") = <<>>
    BY <1>4, <1>5
  <2>2. /\ MidPrice = <<>> /\ WeightedMidPrice = <<>> /\ Microprice = <<>> /\ Spread = <<>>
        /\ SpreadBps = <<>>
    BY <2>1 DEF MidPrice, WeightedMidPrice, Microprice, Spread, SpreadBps, OfQuotes
  <2> QED
    BY <1>3, <1>5, <2>2 DEF PricesAreOfQuotes
<1>6. CASE m # 0 /\ n # 0
  <2> DEFINE p == bids[1][2]
             q == asks[1][2]
             x == image[bids[1]]
             y == image[asks[1]]
             least == Min({p, q})
             most == Max({p, q})
  <2>1. 1 \in 1 .. m /\ 1 \in 1 .. n
    BY <1>6
  <2>2. /\ LevelsOf("Bid")[1] = <<p, x>> /\ x \in Nat \ {0} /\ bids[1] \in Levels
        /\ LevelsOf("Ask")[1] = <<q, y>> /\ y \in Nat \ {0} /\ asks[1] \in Levels
    BY <1>1, <1>2, <2>1 DEF ListsRanked
  <2>3. BestLevel("Bid") = <<p, x>> /\ BestLevel("Ask") = <<q, y>>
    BY <1>4, <1>6, <2>2
  <2>4. p \in Nat /\ q \in Nat
    <3>1. ASSUME NEW lv \in Levels
          PROVE  lv[2] \in Nat
      <4>1. MinPrice \in Nat /\ lv[2] \in Int /\ MinPrice <= lv[2]
        BY LevelFacts, GridFacts DEF OnGrid
      <4> QED
        BY <4>1
    <3> QED
      BY <2>2, <3>1
  <2> HIDE DEF p, q, x, y
  <2>5. /\ MidPrice = <<p + q, 2>>
        /\ Spread = <<Max({q - p, p - q})>>
        /\ WeightedMidPrice = <<p * x + q * y, x + y>>
        /\ Microprice = <<p * y + q * x, x + y>>
    <3>1. \A a, b : <<a, b>> # <<>> /\ <<a, b>>[1] = a /\ <<a, b>>[2] = b
      OBVIOUS
    <3>2. /\ BestLevel("Bid") # <<>> /\ BestLevel("Ask") # <<>>
          /\ BestLevel("Bid")[1] = p /\ BestLevel("Bid")[2] = x
          /\ BestLevel("Ask")[1] = q /\ BestLevel("Ask")[2] = y
      BY <2>3, <3>1
    <3>3. MidPrice = <<p + q, 2>>
      BY <3>2 DEF MidPrice, OfQuotes
    <3>4. Spread = <<Max({q - p, p - q})>>
      BY <3>2, Zenon DEF Spread, OfQuotes
    <3>5. WeightedMidPrice = <<p * x + q * y, x + y>>
      BY <3>2, Zenon DEF WeightedMidPrice, OfQuotes
    <3>6. Microprice = <<p * y + q * x, x + y>>
      BY <3>2, Zenon DEF Microprice, OfQuotes
    <3> QED
      BY <3>3, <3>4, <3>5, <3>6
  <2>6. least = (IF p <= q THEN p ELSE q) /\ most = IF p <= q THEN q ELSE p
    BY <2>4, MinOfTwo
  <2>7. Spread = <<most - least>>
    <3>1. Max({q - p, p - q}) = IF q - p <= p - q THEN p - q ELSE q - p
      BY <2>4, MinOfTwo
    <3> QED
      BY <2>4, <2>5, <2>6, <3>1
  <2>8. SpreadBps = IF most = 0 THEN <<>> ELSE <<most - least, most + least>>
    <3>1. p + q = most + least /\ (p + q = 0 <=> most = 0)
      BY <2>4, <2>6
    <3>2. SpreadBps = IF MidPrice[1] = 0 THEN <<>> ELSE <<Spread[1], MidPrice[1]>>
      BY <2>5 DEF SpreadBps
    <3> HIDE DEF least, most
    <3> QED
      BY <2>5, <2>7, <3>1, <3>2
  <2>9. least * MidPrice[2] <= MidPrice[1] /\ MidPrice[1] <= most * MidPrice[2]
    <3>1. least * 2 <= p + q /\ p + q <= most * 2
      BY <2>4, <2>6
    <3> QED
      BY <2>5, <3>1
  <2>10. /\ least * WeightedMidPrice[2] <= WeightedMidPrice[1]
         /\ WeightedMidPrice[1] <= most * WeightedMidPrice[2]
    BY <2>2, <2>4, <2>5, WeightedBetween
  <2>11. least * Microprice[2] <= Microprice[1] /\ Microprice[1] <= most * Microprice[2]
    <3>1. least * (y + x) <= p * y + q * x /\ p * y + q * x <= most * (y + x)
      BY <2>2, <2>4, WeightedBetween
    <3>2. y + x = x + y
      BY <2>2
    <3> QED
      BY <2>5, <3>1, <3>2
  <2>12. ~ (Present("Bid") = {} \/ Present("Ask") = {})
    BY <1>3, <1>6
  <2> QED
    BY <2>7, <2>8, <2>9, <2>10, <2>11, <2>12 DEF PricesAreOfQuotes, p, q
<1> QED
  BY <1>5, <1>6

(* The arrays of a reachable book hold its image, and no size is negative. *)
LEMMA DenseInvHolds == DenseInv => Holds
<1> SUFFICES ASSUME DenseInv
             PROVE  Holds
  OBVIOUS
<1>1. image \in [Levels -> Nat]
  BY DEF DenseInv, IInv, TypeOK
<1>2. ImageOf(sides) = image /\ \A side \in Sides : IsSide(sides[side])
  BY DEF DenseInv, IsBook
<1>3. ASSUME NEW side \in Sides, NEW slot \in Slots
      PROVE  sides[side].sizes[slot] = image[<<side, PriceAt(slot)>>]
  <2>1. <<side, PriceAt(slot)>> \in Levels /\ IndexOf(PriceAt(slot)) = slot
    BY SlotIsLevel, SlotOnGrid
  <2>2. ImageOf(sides)[<<side, PriceAt(slot)>>] = sides[side].sizes[slot]
    BY <2>1 DEF ImageOf
  <2> QED
    BY <1>2, <2>2
<1> QED
  BY <1>1, <1>2, <1>3 DEF Holds

(* QuotesAreOfImage asks for sizes and counts that a small instance has;   *)
(* the queries answer right for all of them.                               *)
DepthsAreOfEverySize ==
  \A side \in Sides :
    /\ \A n \in Nat \ {0} :
         Nth(side, n) = IF n > Len(Ranked(side)) THEN <<>> ELSE Quote(Ranked(side)[n])
    /\ \A n \in Nat :
         TopNSize(side, n) =
           SumOver({Ranked(side)[i] : i \in 1 .. Min({n, Len(Ranked(side))})}, image)
    /\ \A size \in Nat : DepthUntilTotalSize(side, size) = DepthOfImage(side, size)
    /\ \A price \in Int :
         LET reached(lv) == lv[2] = price \/ Better(side, lv, <<side, price>>)
         IN  DepthUntilPrice(side, price) =
               SumOver({lv \in Levels : lv[1] = side /\ reached(lv)}, image)
    /\ \A from, to \in Int :
         VolumeBetweenPrices(side, from, to) =
           IF from >= to THEN <<>>
           ELSE <<SumOver({lv \in Levels : lv[1] = side /\ from <= lv[2] /\ lv[2] < to}, image)>>

(* Any number of best levels, any size, any price and any range of prices: *)
(* the depth that is read off the arrays is that of the image.             *)
THEOREM DepthsStayOfEverySize == DenseSpec => []DepthsAreOfEverySize
<1>1. ASSUME Holds
      PROVE  DepthsAreOfEverySize
  <2> SUFFICES ASSUME NEW side \in Sides
               PROVE
      /\ \A n \in Nat \ {0} :
           Nth(side, n) = IF n > Len(Ranked(side)) THEN <<>> ELSE Quote(Ranked(side)[n])
      /\ \A n \in Nat :
           TopNSize(side, n) =
             SumOver({Ranked(side)[i] : i \in 1 .. Min({n, Len(Ranked(side))})}, image)
      /\ \A size \in Nat : DepthUntilTotalSize(side, size) = DepthOfImage(side, size)
      /\ \A price \in Int :
           LET reached(lv) == lv[2] = price \/ Better(side, lv, <<side, price>>)
           IN  DepthUntilPrice(side, price) =
                 SumOver({lv \in Levels : lv[1] = side /\ reached(lv)}, image)
      /\ \A from, to \in Int :
           VolumeBetweenPrices(side, from, to) =
             IF from >= to THEN <<>>
             ELSE <<SumOver({lv \in Levels : lv[1] = side /\ from <= lv[2] /\ lv[2] < to}, image)>>
    BY DEF DepthsAreOfEverySize
  <2>1. \A n \in Nat \ {0} :
          Nth(side, n) = IF n > Len(Ranked(side)) THEN <<>> ELSE Quote(Ranked(side)[n])
    BY <1>1, NthFacts
  <2>2. ASSUME NEW n \in Nat
        PROVE  TopNSize(side, n) =
                 SumOver({Ranked(side)[i] : i \in 1 .. Min({n, Len(Ranked(side))})}, image)
    <3>1. PICK c \in Nat : ListsRanked(side, LevelsOf(side), Ranked(side), c)
      BY <1>1, SideListsRanked
    <3>2. Len(Ranked(side)) = c /\ Min({n, c}) = IF n <= c THEN n ELSE c
      BY <3>1, MinOfTwo DEF ListsRanked
    <3>3. TopNSize(side, n) = SumOver(Foremost(Ranked(side), IF n <= c THEN n ELSE c), image)
      BY <1>1, <3>1, TopNFacts
    <3> QED
      BY <3>2, <3>3 DEF Foremost
  <2>3. \A size \in Nat : DepthUntilTotalSize(side, size) = DepthOfImage(side, size)
    BY <1>1, DepthUntilSizeFacts
  <2>4. ASSUME NEW price \in Int
        PROVE  LET reached(lv) == lv[2] = price \/ Better(side, lv, <<side, price>>)
               IN  DepthUntilPrice(side, price) =
                     SumOver({lv \in Levels : lv[1] = side /\ reached(lv)}, image)
    <3> DEFINE reached(lv) == lv[2] = price \/ Better(side, lv, <<side, price>>)
               upTo == {lv \in Levels : lv[1] = side /\ Key(side, lv[2]) <= Key(side, price)}
    <3>1. ASSUME NEW lv \in Levels
          PROVE  Key(side, lv[2]) <= Key(side, price) <=> reached(lv)
      BY LevelFacts DEF Key, Better
    <3>2. upTo = {lv \in Levels : lv[1] = side /\ reached(lv)}
      <4> HIDE DEF reached
      <4> QED
        BY <3>1
    <3>3. DepthUntilPrice(side, price) = SumOver(upTo, image)
      BY <1>1, DepthUntilPriceFacts
    <3> HIDE DEF upTo, reached
    <3>4. DepthUntilPrice(side, price) =
            SumOver({lv \in Levels : lv[1] = side /\ reached(lv)}, image)
      BY <3>2, <3>3
    <3> QED
      BY <3>4 DEF reached
  <2>5. \A from, to \in Int :
          VolumeBetweenPrices(side, from, to) =
            IF from >= to THEN <<>>
            ELSE <<SumOver({lv \in Levels : lv[1] = side /\ from <= lv[2] /\ lv[2] < to}, image)>>
    BY <1>1, VolumeBetweenFacts
  <2> QED
    BY <2>1, <2>2, <2>3, <2>4, <2>5
<1> QED
  BY <1>1, DenseInvHolds, DenseInvariance, PTL

(* In every reachable state the quotes, depths, volumes and prices that    *)
(* book.rs reads off the arrays are those of the image.                    *)
THEOREM QuotesStayOfImage == DenseSpec => []QuotesAreOfImage
<1>1. DenseInv => QuotesAreOfImage
  BY DenseInvHolds, LevelsAreRanked, DepthsAreRanked, ImbalanceFacts, PricesFacts
     DEF QuotesAreOfImage
<1> QED
  BY <1>1, DenseInvariance, PTL

=============================================================================
