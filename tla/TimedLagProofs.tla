---------------------------- MODULE TimedLagProofs ----------------------------
(***************************************************************************)
(* What a TimedTransformer shows, for any aggregation, lags, values and    *)
(* times.  The argument: all that the loop at the front keeps but its      *)
(* first is within the longest lag, so that the ring has room for it and   *)
(* for a new bucket, and an eviction never happens; what is forgotten is   *)
(* forgotten by that loop, which leaves a newer observation as old as the  *)
(* longest lag; and such a one hides it from every lookup.                 *)
(***************************************************************************)
EXTENDS TimedLag, NumberLemmas, SequenceTheorems

Entries == [at : Times, value : Values]

-----------------------------------------------------------------------------
(* Lags and buckets. *)

LEMMA MaxLagFacts ==
  /\ MaxLag \in Nat \ {0}
  /\ \A o \in Outputs : Lags[o] \in Nat \ {0} /\ Lags[o] <= MaxLag
  /\ Aggregation \in Nat \ {0}
  /\ Aggregation <= MaxLag
  /\ MaxLag \div Aggregation \in Nat
  /\ MaxLag = (MaxLag \div Aggregation) * Aggregation
<1> DEFINE All == {Lags[o] : o \in Outputs}
           M == MaxLag \div Aggregation
<1>1. All \in SUBSET Nat /\ All # {} /\ Aggregation \in Nat \ {0}
  BY LagParameters
<1>2. IsFiniteSet(All)
  <2> DEFINE f == [o \in Outputs |-> Lags[o]]
  <2>1. f \in Surjection(Outputs, All)
    BY DEF Surjection
  <2> HIDE DEF f, All
  <2> QED BY <2>1, LagParameters, FS_Surjection
<1>3. \E lag \in All : \A l \in All : l <= lag
  <2> HIDE DEF All
  <2> QED BY <1>1, <1>2, GreatestElement
<1>4. MaxLag \in All /\ \A o \in Outputs : Lags[o] <= MaxLag
  <2>1. \E lag \in All : \A o \in Outputs : Lags[o] <= lag
    BY <1>3
  <2> QED
    BY <2>1 DEF MaxLag
<1>5. MaxLag \in Nat \ {0} /\ MaxLag % Aggregation = 0
  BY <1>4, LagParameters
<1>6. MaxLag = M * Aggregation + (MaxLag % Aggregation) /\ M \in Int
  <2>1. MaxLag \in Int /\ Aggregation \in Nat \ {0}
    BY <1>1, <1>5
  <2> QED
    BY ONLY <2>1, QuotientAndRemainder
<1>7. 1 <= M
  <2>1. SUFFICES ASSUME M <= 0
                 PROVE  FALSE
    BY <1>6
  <2>2. M * Aggregation <= 0 * Aggregation
    BY <1>1, <1>6, <2>1, ProductMonotonic
  <2> HIDE DEF M
  <2> QED BY <1>1, <1>5, <1>6, <2>2
<1>8. 1 * Aggregation <= M * Aggregation
  BY <1>1, <1>6, <1>7, ProductMonotonic
<1> HIDE DEF M
<1>9. Aggregation <= MaxLag /\ M \in Nat /\ MaxLag = M * Aggregation
  BY <1>1, <1>5, <1>6, <1>7, <1>8
<1> QED
  BY <1>1, <1>4, <1>5, <1>9, LagParameters DEF M

LEMMA BucketType ==
  ASSUME NEW t \in Int
  PROVE  BucketOf(t) \in Int
BY MaxLagFacts, QuotientBounds DEF BucketOf

LEMMA BucketMonotonic ==
  ASSUME NEW s \in Int, NEW t \in Int, s <= t
  PROVE  BucketOf(s) <= BucketOf(t)
BY MaxLagFacts, QuotientMonotonic DEF BucketOf

(* A smaller bucket is an earlier time. *)
LEMMA EarlierBucket ==
  ASSUME NEW s \in Int, NEW t \in Int, BucketOf(s) < BucketOf(t)
  PROVE  s < t
<1>1. BucketOf(s) \in Int /\ BucketOf(t) \in Int
  BY BucketType
<1>2. t <= s => BucketOf(t) <= BucketOf(s)
  BY BucketMonotonic
<1> QED
  BY <1>1, <1>2

(* What is within the longest lag is at most as many buckets back. *)
LEMMA WithinLag ==
  ASSUME NEW at \in Int, NEW now \in Int, at > now - MaxLag
  PROVE  BucketOf(now) - (MaxLag \div Aggregation) <= BucketOf(at)
<1> DEFINE M == MaxLag \div Aggregation
           B == BucketOf(now)
<1>1. /\ Aggregation \in Nat \ {0} /\ M \in Nat /\ MaxLag = M * Aggregation
      /\ MaxLag \in Nat /\ B \in Int
  BY MaxLagFacts, BucketType
<1>2. B * Aggregation <= now
  BY <1>1, QuotientBounds DEF BucketOf
<1> HIDE DEF M, B
<1>3. (B - M) * Aggregation = B * Aggregation - M * Aggregation
  BY <1>1
<1>4. B * Aggregation \in Int /\ M * Aggregation \in Int
  BY <1>1
<1>5. (B - M) * Aggregation <= at
  BY <1>1, <1>2, <1>3, <1>4
<1>6. B - M <= at \div Aggregation
  BY <1>1, <1>5, QuotientAtLeast
<1> QED
  BY <1>6 DEF BucketOf, B, M

(* What is as old as the longest lag is of an earlier bucket. *)
LEMMA AsOldAsLag ==
  ASSUME NEW at \in Int, NEW now \in Int, at <= now - MaxLag
  PROVE  BucketOf(at) < BucketOf(now)
<1> DEFINE B == BucketOf(now)
<1>1. Aggregation \in Nat \ {0} /\ MaxLag \in Nat /\ Aggregation <= MaxLag /\ B \in Int
  BY MaxLagFacts, BucketType
<1>2. now < (B + 1) * Aggregation
  BY <1>1, QuotientBounds DEF BucketOf
<1>3. BucketOf(at) \in Int /\ BucketOf(at) * Aggregation <= at
  BY <1>1, QuotientBounds DEF BucketOf
<1> HIDE DEF B
<1>4. (B + 1) * Aggregation = B * Aggregation + Aggregation /\ B * Aggregation \in Int
  BY <1>1
<1>5. SUFFICES ASSUME B <= BucketOf(at)
               PROVE  FALSE
  BY <1>1, <1>3 DEF B
<1>6. B * Aggregation <= BucketOf(at) * Aggregation
  BY <1>1, <1>3, <1>5, ProductMonotonic
<1>7. BucketOf(at) * Aggregation \in Int
  BY <1>1, <1>3
<1> QED
  BY <1>1, <1>2, <1>3, <1>4, <1>6, <1>7

-----------------------------------------------------------------------------
(* The inductive invariant. *)
LagTypes ==
  /\ history \in Seq(Entries)
  /\ clock \in Times \cup {Never}
  /\ current \in Values \cup {NaN}
  /\ seen \subseteq Entries

HistoryIsSpaced ==
  \A i, j \in 1 .. Len(history) :
    i < j => BucketOf(history[i].at) + (j - i) <= BucketOf(history[j].at)

(* One observation of each bucket, none of a time to come. *)
OneOfEachBucket ==
  /\ \A e \in seen : e.at <= clock
  /\ \A e, f \in seen : BucketOf(e.at) = BucketOf(f.at) => e = f

(* The outputs are what a lookup would find now. *)
VisibleIsLookedUp ==
  visible = [o \in Outputs |-> Lagged(history, clock, current, o)]

LagInv ==
  LagTypes /\ HistoryIsSpaced /\ OneOfEachBucket /\ ForgottenAreSuperseded /\ VisibleIsLookedUp

LEMMA LagFacts ==
  ASSUME LagTypes
  PROVE  /\ Len(history) \in Nat
         /\ \A i \in 1 .. Len(history) :
              history[i] \in Entries /\ history[i].at \in Times /\ history[i].at \in Int
         /\ \A e \in seen : e \in Entries /\ e.at \in Times /\ e.at \in Int
         /\ clock \in Int
         /\ history = <<>> <=> Len(history) = 0
<1>1. Len(history) \in Nat /\ (history = <<>> <=> Len(history) = 0)
  BY LenProperties, EmptySeq DEF LagTypes
<1>2. \A i \in 1 .. Len(history) : history[i] \in Entries
  BY ElementOfSeq DEF LagTypes
<1>3. Times \subseteq Int /\ Never \in Int
  BY LagParameters DEF Never
<1> QED
  BY <1>1, <1>2, <1>3 DEF LagTypes, Entries

LEMMA LaterIsNewer ==
  ASSUME LagInv, NEW i \in 1 .. Len(history), NEW j \in 1 .. Len(history), i < j
  PROVE  history[i].at < history[j].at /\ BucketOf(history[i].at) < BucketOf(history[j].at)
<1>1. /\ Len(history) \in Nat /\ history[i].at \in Int /\ history[j].at \in Int
      /\ BucketOf(history[i].at) \in Int /\ BucketOf(history[j].at) \in Int
  BY LagFacts, BucketType DEF LagInv
<1>2. BucketOf(history[i].at) + (j - i) <= BucketOf(history[j].at)
  BY DEF LagInv, HistoryIsSpaced
<1>3. BucketOf(history[i].at) < BucketOf(history[j].at)
  BY <1>1, <1>2
<1> QED
  BY <1>1, <1>3, EarlierBucket

(* What the loop at the front keeps: all from the k-th on, the k-th being   *)
(* the only one that may be as old as the longest lag.                      *)
KeepsFrom(k, now) ==
  /\ k \in Nat \ {0} /\ k <= Len(history) + 1
  /\ Len(history) # 0 => k <= Len(history)
  /\ \A j \in 2 .. k : history[j].at <= now - MaxLag
  /\ \A j \in k + 1 .. Len(history) : history[j].at > now - MaxLag
  /\ Trimmed(now) \in Seq(Entries)
  /\ Len(Trimmed(now)) = Len(history) - k + 1
  /\ \A i \in 1 .. Len(history) - k + 1 : Trimmed(now)[i] = history[k + i - 1]

LEMMA TrimmedKeeps ==
  ASSUME LagInv, NEW now \in Times
  PROVE  \E k \in Nat : KeepsFrom(k, now)
<1> DEFINE n == Len(history)
           last == IF history = <<>> THEN 1 ELSE n
           Old(i) == history[i].at <= now - MaxLag
           Recent(i) == history[i].at > now - MaxLag
           Front(i) == (\A j \in 2 .. i : Old(j)) /\ (i < n => Recent(i + 1))
<1>1. /\ n \in Nat /\ now \in Int /\ MaxLag \in Nat /\ MinTime \in Int
      /\ \A i \in 1 .. n : history[i] \in Entries /\ history[i].at \in Int
                             /\ MinTime <= history[i].at
      /\ history \in Seq(Entries) /\ (history = <<>> <=> n = 0)
  BY LagFacts, MaxLagFacts, LagParameters DEF LagInv, LagTypes
<1>2. last \in Nat \ {0} /\ last <= n + 1 /\ (n # 0 => last = n)
  BY <1>1
<1>3. CASE now - MaxLag < MinTime
  <2>1. Trimmed(now) = history
    BY <1>3 DEF Trimmed
  <2>2. \A j \in 1 .. n : Recent(j)
    BY <1>1, <1>3
  <2>3. KeepsFrom(1, now)
    BY <1>1, <2>1, <2>2 DEF KeepsFrom
  <2> QED
    BY <2>3
<1>4. CASE ~ (now - MaxLag < MinTime)
  <2> DEFINE Stops == {i \in 1 .. last : i < n => Recent(i + 1)}
  <2>1. \E i \in 1 .. last : Front(i)
    <3>1. Stops \in SUBSET Nat /\ last \in Stops
      BY <1>1, <1>2
    <3>2. PICK i \in Stops : \A j \in Stops : i <= j
      <4> HIDE DEF Stops
      <4> QED BY <3>1, LeastElement
    <3>3. ASSUME NEW j \in 2 .. i
          PROVE  Old(j)
      <4>1. j - 1 \in 1 .. last /\ j - 1 < i /\ i \in 1 .. last
        BY <1>2
      <4>2. j - 1 \notin Stops
        <5>1. i \in Int /\ j - 1 \in Int
          BY <1>2, <4>1
        <5> HIDE DEF Stops
        <5> QED BY <3>2, <4>1, <5>1
      <4>3. j - 1 < n /\ ~ Recent((j - 1) + 1)
        BY <4>1, <4>2
      <4>4. (j - 1) + 1 = j /\ j \in 1 .. n
        BY <1>1, <4>1, <4>3
      <4> QED
        BY <1>1, <4>3, <4>4
    <3> QED
      BY <3>2, <3>3
  <2>2. FrontAfter(now) \in 1 .. last /\ Front(FrontAfter(now))
    BY <2>1 DEF FrontAfter
  <2> DEFINE k == FrontAfter(now)
  <2>3. ASSUME NEW j \in k + 1 .. n
        PROVE  Recent(j)
    <3>1. k < n /\ k + 1 \in 1 .. n /\ j \in 1 .. n /\ Recent(k + 1)
      BY <1>1, <1>2, <2>2
    <3>2. k + 1 < j => history[k + 1].at < history[j].at
      BY <3>1, LaterIsNewer
    <3> HIDE DEF k
    <3> QED BY <1>1, <1>2, <2>2, <3>1, <3>2
  <2>4. k \in Nat \ {0} /\ k <= n + 1 /\ (n # 0 => k <= n)
    BY <1>2, <2>2
  <2>5. Trimmed(now) = SubSeq(history, k, n)
    BY <1>4 DEF Trimmed
  <2>6. /\ Trimmed(now) \in Seq(Entries) /\ Len(Trimmed(now)) = n - k + 1
        /\ \A i \in 1 .. n - k + 1 : Trimmed(now)[i] = history[k + i - 1]
    <3>1. \A i \in k .. n : history[i] \in Entries
      BY <1>1, <2>4
    <3>2. (IF k <= n THEN n - k + 1 ELSE 0) = n - k + 1
      BY <1>1, <2>4
    <3> HIDE DEF k
    <3> QED BY <1>1, <2>4, <2>5, <3>1, <3>2, SubSeqProperties
  <2>7. KeepsFrom(k, now)
    BY <2>2, <2>3, <2>4, <2>6 DEF KeepsFrom
  <2> QED
    BY <2>4, <2>7
<1> QED
  BY <1>3, <1>4

-----------------------------------------------------------------------------
(* The history after a step: what is kept of it, the first `kept' from the *)
(* k-th on, and the new observation if there is one.                       *)
Retains(k, kept, now) ==
  /\ k \in Nat \ {0} /\ kept \in Nat
  /\ Len(history) # 0 => k <= Len(history)
  /\ k + kept <= Len(history) + 1
  /\ \A j \in 2 .. k : history[j].at <= now - MaxLag
  /\ \A i \in 1 .. kept : history'[i] = history[k + i - 1]

(* Nothing new: all is kept from the front. *)
LEMMA KeptWithoutNew ==
  ASSUME LagInv, NEW now \in Times, history' = Trimmed(now)
  PROVE  /\ history' \in Seq(Entries)
         /\ \E k \in Nat : Retains(k, Len(history'), now) /\ k + Len(history') = Len(history) + 1
<1> DEFINE n == Len(history)
<1>1. PICK k \in Nat : KeepsFrom(k, now)
  BY TrimmedKeeps
<1>2. n \in Nat
  BY LagFacts DEF LagInv
<1>3. /\ k \in Nat \ {0} /\ k <= n + 1 /\ (n # 0 => k <= n)
      /\ \A j \in 2 .. k : history[j].at <= now - MaxLag
      /\ history' \in Seq(Entries) /\ Len(history') = n - k + 1
      /\ \A i \in 1 .. n - k + 1 : history'[i] = history[k + i - 1]
  BY <1>1 DEF KeepsFrom
<1>4. Len(history') \in Nat /\ k + Len(history') = n + 1
  BY <1>2, <1>3
<1> QED
  BY <1>2, <1>3, <1>4 DEF Retains

(* A new observation replaces one of its own bucket, or is appended: the    *)
(* ring has room, as all but the first are within the longest lag.          *)
LEMMA KeptWithNew ==
  ASSUME LagInv, NEW now \in Times, NEW v \in Values, clock <= now,
         history' = Remembering(Trimmed(now), now, v)
  PROVE  /\ history' \in Seq(Entries)
         /\ \E k, kept \in Nat :
              /\ Retains(k, kept, now)
              /\ Len(history') = kept + 1 /\ history'[kept + 1] = Entry(now, v)
              /\ \A j \in k .. Len(history) :
                   j < k + kept <=> BucketOf(history[j].at) # BucketOf(now)
<1> DEFINE n == Len(history)
           T == Trimmed(now)
           e == Entry(now, v)
           B == BucketOf(now)
           M == MaxLag \div Aggregation
<1>1. PICK k \in Nat : KeepsFrom(k, now)
  BY TrimmedKeeps
<1> DEFINE m == n - k + 1
<1>2. /\ n \in Nat /\ now \in Int /\ B \in Int /\ e \in Entries /\ M \in Nat /\ clock \in Int
      /\ \A i \in 1 .. n : history[i].at \in Int /\ BucketOf(history[i].at) \in Int
  BY LagFacts, BucketType, MaxLagFacts, LagParameters DEF LagInv, Entry, Entries
<1>3. /\ k \in Nat \ {0} /\ k <= n + 1 /\ (n # 0 => k <= n)
      /\ \A j \in 2 .. k : history[j].at <= now - MaxLag
      /\ \A j \in k + 1 .. n : history[j].at > now - MaxLag
      /\ T \in Seq(Entries) /\ Len(T) = m
      /\ \A i \in 1 .. m : T[i] = history[k + i - 1]
  BY <1>1 DEF KeepsFrom
<1>4. m \in Nat /\ (T = <<>> <=> m = 0) /\ (n # 0 => m # 0) /\ k + m = n + 1
  BY <1>2, <1>3, EmptySeq
<1>5. \A j \in 1 .. n : BucketOf(history[j].at) <= B
  <2>1. SUFFICES ASSUME NEW j \in 1 .. n
                 PROVE  history[j].at <= now
    BY <1>2, BucketMonotonic
  <2>2. history[j].at <= clock
    BY DEF LagInv, OneOfEachBucket, ForgottenAreSuperseded, Kept
  <2> QED
    BY <1>2, <2>2
<1>6. m # 0 => T[m] = history[n] /\ n \in 1 .. n
  <2>1. SUFFICES ASSUME m # 0
                 PROVE  T[m] = history[n] /\ n \in 1 .. n
    OBVIOUS
  <2>2. m \in 1 .. m /\ k + m - 1 = n /\ n \in 1 .. n
    BY <1>2, <1>3, <1>4, <2>1
  <2>3. T[m] = history[k + m - 1]
    <3> HIDE DEF m
    <3> QED BY <1>3, <2>2
  <2> QED
    BY <2>2, <2>3
<1>7. SameBucket(T, now) <=> m # 0 /\ BucketOf(history[n].at) = B
  BY <1>3, <1>4, <1>6 DEF SameBucket
<1>8. CASE SameBucket(T, now)
  <2> DEFINE kept == m - 1
  <2>1. m \in 1 .. m /\ kept \in Nat /\ kept + 1 = m
    BY <1>4, <1>7, <1>8
  <2>2. history' = [T EXCEPT ![m] = e]
    BY <1>3, <1>8 DEF Remembering
  <2>3. /\ history' \in Seq(Entries) /\ Len(history') = m
        /\ \A j \in 1 .. m : history'[j] = IF j = m THEN e ELSE T[j]
    <3> HIDE DEF m, e, T
    <3> QED BY <1>2, <1>3, <2>1, <2>2, ExceptSeq
  <2>4. Retains(k, kept, now)
    <3>1. k + kept <= n + 1
      BY <1>2, <1>3, <1>4
    <3>2. \A i \in 1 .. kept : history'[i] = history[k + i - 1]
      <4>1. SUFFICES ASSUME NEW i \in 1 .. kept
                     PROVE  history'[i] = history[k + i - 1]
        OBVIOUS
      <4>2. i \in 1 .. m /\ i # m
        BY <2>1, <1>4
      <4> HIDE DEF m, kept
      <4> QED BY <1>3, <2>3, <4>2
    <3> HIDE DEF m, kept
    <3> QED BY <1>3, <2>1, <3>1, <3>2 DEF Retains
  <2>5. ASSUME NEW j \in k .. n
        PROVE  j < k + kept <=> BucketOf(history[j].at) # B
    <3>1. k + kept = n /\ j \in 1 .. n /\ n \in 1 .. n
      BY <1>2, <1>3, <1>4
    <3>2. j < n => BucketOf(history[j].at) < BucketOf(history[n].at)
      BY <3>1, LaterIsNewer
    <3>3. BucketOf(history[n].at) = B
      BY <1>7, <1>8
    <3> HIDE DEF kept, m, n, B
    <3> QED BY <1>2, <3>1, <3>2, <3>3
  <2> HIDE DEF m, kept
  <2> QED BY <1>3, <2>1, <2>3, <2>4, <2>5
<1>9. CASE ~ SameBucket(T, now)
  <2>1. \A j \in 1 .. n : BucketOf(history[j].at) < B
    <3>1. SUFFICES ASSUME NEW j \in 1 .. n
                   PROVE  BucketOf(history[j].at) < B
      OBVIOUS
    <3>2. n \in 1 .. n /\ m # 0 /\ BucketOf(history[n].at) # B
      BY <1>2, <1>4, <1>7, <1>9
    <3>3. BucketOf(history[n].at) < B
      BY <1>2, <1>5, <3>2
    <3>4. j < n => BucketOf(history[j].at) < BucketOf(history[n].at)
      BY <3>2, LaterIsNewer
    <3> HIDE DEF n, B, m
    <3> QED BY <1>2, <3>1, <3>2, <3>3, <3>4
  <2>2. m # Capacity
    <3>1. SUFFICES ASSUME m = M + 2
                   PROVE  FALSE
      BY DEF Capacity
    <3>2. k + 1 \in k + 1 .. n /\ k + 1 \in 1 .. n /\ n \in 1 .. n /\ n - (k + 1) = M
      BY <1>2, <1>3, <1>4, <3>1
    <3>3. B - M <= BucketOf(history[k + 1].at)
      BY <1>2, <1>3, <3>2, WithinLag
    <3>4. BucketOf(history[k + 1].at) + (n - (k + 1)) <= BucketOf(history[n].at)
      <4>1. CASE k + 1 = n
        <5>1. /\ BucketOf(history[k + 1].at) = BucketOf(history[n].at)
              /\ BucketOf(history[n].at) \in Int
          BY <1>2, <3>2, <4>1
        <5>2. n - (k + 1) = 0
          BY <1>2, <4>1
        <5> HIDE DEF n, m, B
        <5> QED
          BY <5>1, <5>2
      <4>2. CASE k + 1 < n
        BY <3>2, <4>2 DEF LagInv, HistoryIsSpaced
      <4> QED
        BY <1>2, <3>2, <4>1, <4>2
    <3>5. BucketOf(history[n].at) < B
      BY <2>1, <3>2
    <3>6. BucketOf(history[n].at) \in Int /\ BucketOf(history[k + 1].at) \in Int
      BY <1>2, <3>2
    <3> HIDE DEF n, B, M, m
    <3> QED BY <1>2, <3>2, <3>3, <3>4, <3>5, <3>6
  <2>3. history' = Append(T, e)
    BY <1>3, <1>9, <2>2 DEF Remembering
  <2>4. /\ history' \in Seq(Entries) /\ Len(history') = m + 1 /\ history'[m + 1] = e
        /\ \A i \in 1 .. m : history'[i] = T[i]
    <3> HIDE DEF m, T, e
    <3> QED BY <1>2, <1>3, <2>3, AppendProperties
  <2>5. Retains(k, m, now)
    <3> HIDE DEF m
    <3>1. k + m <= n + 1
      BY <1>2, <1>4
    <3> QED BY <1>3, <1>4, <2>4, <3>1 DEF Retains
  <2>6. ASSUME NEW j \in k .. n
        PROVE  j < k + m <=> BucketOf(history[j].at) # B
    <3>1. j \in 1 .. n /\ j < k + m
      BY <1>2, <1>3, <1>4
    <3> HIDE DEF n, m, B
    <3> QED BY <1>2, <2>1, <3>1
  <2> HIDE DEF m
  <2> QED BY <1>3, <1>4, <2>4, <2>5, <2>6
<1> QED
  BY <1>8, <1>9

-----------------------------------------------------------------------------
(* What is forgotten by a step is superseded by what it keeps. *)

(* All from the k-th on is retained but what is of the current bucket, in   *)
(* whose place there is something new.                                      *)
Covers(k, kept, now) ==
  \A j \in k .. Len(history) :
    \/ j < k + kept
    \/ kept < Len(history') /\ BucketOf(history[j].at) = BucketOf(now)

KeptOrSuperseded(e, now) ==
  \/ \E i \in 1 .. Len(history') : history'[i] = e
  \/ \E i \in 1 .. Len(history') : e.at < history'[i].at /\ history'[i].at <= now - MaxLag

LEMMA SupersededAfter ==
  ASSUME LagInv, NEW now \in Times, clock <= now,
         NEW k \in Nat, NEW kept \in Nat, Retains(k, kept, now), Covers(k, kept, now),
         Len(history') \in Nat, kept <= Len(history'),
         NEW e \in seen, kept < Len(history') => BucketOf(e.at) # BucketOf(now)
  PROVE  KeptOrSuperseded(e, now)
<1> DEFINE m == Len(history)
           n == Len(history')
           Superseded == \E i \in 1 .. n : e.at < history'[i].at /\ history'[i].at <= now - MaxLag
<1>1. /\ m \in Nat /\ now \in Int /\ clock \in Int /\ MaxLag \in Nat
      /\ e.at \in Int /\ \A i \in 1 .. m : history[i].at \in Int
  BY LagFacts, MaxLagFacts, LagParameters DEF LagInv
<1>2. /\ k \in Nat \ {0} /\ (m # 0 => k <= m) /\ k + kept <= m + 1
      /\ \A j \in 2 .. k : history[j].at <= now - MaxLag
      /\ \A i \in 1 .. kept : history'[i] = history[k + i - 1]
      /\ \A j \in k .. m : j < k + kept \/ (kept < n /\ BucketOf(history[j].at) = BucketOf(now))
      /\ n \in Nat /\ kept <= n
      /\ kept < n => BucketOf(e.at) # BucketOf(now)
  BY DEF Retains, Covers
(* An old enough one is retained, or the k-th is and is newer. *)
<1>3. ASSUME NEW i \in 1 .. m, history[i].at <= now - MaxLag, k <= i
      PROVE  i - k + 1 \in 1 .. n /\ history'[i - k + 1] = history[i]
  <2>1. BucketOf(history[i].at) # BucketOf(now)
    <3>1. BucketOf(history[i].at) < BucketOf(now)
      BY <1>1, <1>3, AsOldAsLag
    <3> QED
      BY <1>1, <3>1, BucketType
  <2>2. i < k + kept
    BY <1>1, <1>2, <1>3, <2>1
  <2>3. i - k + 1 \in 1 .. kept /\ i - k + 1 \in 1 .. n /\ k + (i - k + 1) - 1 = i
    BY <1>1, <1>2, <1>3, <2>2
  <2> QED
    BY <1>2, <2>3
<1>4. ASSUME NEW i \in 1 .. m, i < k, e.at <= history[i].at
      PROVE  Superseded
  <2>0. k \in 1 .. m /\ k \in 2 .. k
    <3>1. m # 0 /\ 2 <= k
      BY <1>1, <1>2, <1>4
    <3> QED
      BY <1>1, <1>2, <3>1
  <2>1. k \in 1 .. m /\ k <= k /\ history[k].at <= now - MaxLag
    BY <1>2, <2>0
  <2>2. history[i].at < history[k].at
    BY <1>4, <2>1, LaterIsNewer
  <2>3. k - k + 1 \in 1 .. n /\ history'[k - k + 1] = history[k]
    BY <1>1, <1>3, <2>1
  <2>4. e.at < history'[k - k + 1].at /\ history'[k - k + 1].at <= now - MaxLag
    BY <1>1, <1>4, <2>1, <2>2, <2>3
  <2> QED
    BY <2>3, <2>4
<1> USE DEF KeptOrSuperseded
<1>5. CASE e \in Kept
  <2>1. PICK i \in 1 .. m : history[i] = e
    BY <1>5 DEF Kept
  <2>2. CASE i < k
    BY <1>1, <1>4, <2>1, <2>2
  <2>3. CASE k <= i /\ i < k + kept
    <3>1. i - k + 1 \in 1 .. n /\ i - k + 1 \in 1 .. kept /\ k + (i - k + 1) - 1 = i
      BY <1>1, <1>2, <2>3
    <3> QED
      BY <1>2, <2>1, <3>1
  <2>4. CASE k + kept <= i
    <3>1. i \in k .. m /\ ~ (i < k + kept)
      BY <1>1, <1>2, <2>4
    <3>2. BucketOf(history[i].at) = BucketOf(now) /\ kept < n
      BY <1>2, <3>1
    <3> QED
      BY <1>2, <2>1, <3>2
  <2> QED
    BY <1>1, <1>2, <2>2, <2>3, <2>4
<1>6. CASE e \notin Kept
  <2>1. PICK i \in 1 .. m : e.at < history[i].at /\ history[i].at <= clock - MaxLag
    BY <1>6 DEF LagInv, ForgottenAreSuperseded, Kept
  <2>2. history[i].at <= now - MaxLag
    BY <1>1, <2>1
  <2>3. CASE i < k
    BY <1>1, <1>4, <2>1, <2>3
  <2>4. CASE k <= i
    BY <1>1, <1>3, <2>1, <2>2, <2>4
  <2> QED
    BY <1>1, <1>2, <2>3, <2>4
<1> QED
  BY <1>5, <1>6

-----------------------------------------------------------------------------
(* The invariant after a step. *)

(* A step that adds no observation. *)
LEMMA KeepsWithoutNew ==
  ASSUME LagInv, NEW now \in Times, clock <= now, history' = Trimmed(now),
         clock' = now, current' \in Values \cup {NaN}, seen' = seen, VisibleIsLookedUp'
  PROVE  LagInv'
<1> DEFINE n == Len(history)
           m == Len(history')
<1>1. /\ history' \in Seq(Entries)
      /\ \E k \in Nat : Retains(k, m, now) /\ k + m = n + 1
  BY KeptWithoutNew
<1>2. PICK k \in Nat : Retains(k, m, now) /\ k + m = n + 1
  BY <1>1
<1>3. /\ n \in Nat /\ m \in Nat /\ now \in Int /\ clock \in Int /\ k \in Nat \ {0}
      /\ \A i \in 1 .. m : history'[i] = history[k + i - 1]
      /\ \A e \in seen : e.at \in Int
  BY <1>2, LagFacts, LagParameters DEF LagInv, Retains
<1>4. LagTypes'
  BY <1>1 DEF LagInv, LagTypes
<1>5. HistoryIsSpaced'
  <2>1. SUFFICES ASSUME NEW i \in 1 .. m, NEW j \in 1 .. m, i < j
                 PROVE  BucketOf(history'[i].at) + (j - i) <= BucketOf(history'[j].at)
    BY DEF HistoryIsSpaced, BucketOf
  <2> DEFINE a == k + i - 1
             b == k + j - 1
  <2>2. a \in 1 .. n /\ b \in 1 .. n /\ a < b /\ b - a = j - i
    BY <1>2, <1>3, <2>1
  <2> HIDE DEF a, b
  <2>3. BucketOf(history[a].at) + (b - a) <= BucketOf(history[b].at)
    BY <2>2 DEF LagInv, HistoryIsSpaced
  <2>4. history'[i] = history[a] /\ history'[j] = history[b]
    BY <1>3 DEF a, b
  <2> QED
    BY <2>2, <2>3, <2>4
<1>6. OneOfEachBucket'
  <2>1. \A e \in seen : e.at <= now
    BY <1>3 DEF LagInv, OneOfEachBucket
  <2> QED
    BY <2>1 DEF LagInv, OneOfEachBucket, BucketOf
<1>7. ForgottenAreSuperseded'
  <2>1. \A i \in 1 .. m : history'[i] \in seen
    <3>1. \A i \in 1 .. m : k + i - 1 \in 1 .. n
      BY <1>2, <1>3
    <3> QED
      BY <1>3, <3>1 DEF LagInv, ForgottenAreSuperseded, Kept
  <2>2. ASSUME NEW e \in seen
        PROVE  KeptOrSuperseded(e, now)
    <3>1. Covers(k, m, now)
      BY <1>2, <1>3 DEF Covers
    <3>2. m <= m /\ ~ (m < m)
      BY <1>3
    <3> HIDE DEF m
    <3> QED BY <1>2, <1>3, <3>1, <3>2, SupersededAfter DEF m
  <2> QED
    BY <2>1, <2>2 DEF ForgottenAreSuperseded, Kept, KeptOrSuperseded
<1> QED
  BY <1>4, <1>5, <1>6, <1>7 DEF LagInv

(* A step that adds one. *)
LEMMA KeepsWithNew ==
  ASSUME LagInv, NEW now \in Times, NEW v \in Values, clock <= now,
         history' = Remembering(Trimmed(now), now, v), clock' = now,
         current' \in Values \cup {NaN}, VisibleIsLookedUp',
         seen' = {e \in seen : BucketOf(e.at) # BucketOf(now)} \cup {Entry(now, v)}
  PROVE  LagInv'
<1> DEFINE n == Len(history)
           m == Len(history')
           new == Entry(now, v)
           B == BucketOf(now)
<1>1. PICK k, kept \in Nat :
        /\ Retains(k, kept, now)
        /\ m = kept + 1 /\ history'[kept + 1] = new
        /\ \A j \in k .. n : j < k + kept <=> BucketOf(history[j].at) # B
  BY KeptWithNew
<1>2. history' \in Seq(Entries)
  BY KeptWithNew
<1>3. /\ n \in Nat /\ m \in Nat /\ now \in Int /\ clock \in Int /\ k \in Nat \ {0} /\ B \in Int
      /\ new \in Entries /\ new.at = now
      /\ k + kept <= n + 1
      /\ \A i \in 1 .. kept : history'[i] = history[k + i - 1]
      /\ \A e \in seen : e.at \in Int
      /\ \A i \in 1 .. n : history[i].at \in Int /\ BucketOf(history[i].at) \in Int
  BY <1>1, LagFacts, LagParameters, BucketType DEF LagInv, Retains, Entry, Entries
<1>4. LagTypes'
  BY <1>2, <1>3 DEF LagInv, LagTypes
<1>5. ASSUME NEW i \in 1 .. kept
      PROVE  /\ k + i - 1 \in 1 .. n
             /\ history'[i] = history[k + i - 1]
             /\ BucketOf(history'[i].at) < B
             /\ history'[i] \in seen
  <2>1. k + i - 1 \in 1 .. n /\ k + i - 1 \in k .. n /\ k + i - 1 < k + kept
    BY <1>3
  <2>2. BucketOf(history[k + i - 1].at) # B
    BY <1>1, <2>1
  <2>3. history[k + i - 1] \in seen
    BY <2>1 DEF LagInv, ForgottenAreSuperseded, Kept
  <2>4. BucketOf(history[k + i - 1].at) <= B
    <3>1. history[k + i - 1].at <= now
      BY <1>3, <2>1, <2>3 DEF LagInv, OneOfEachBucket
    <3> QED
      BY <1>3, <2>1, <3>1, BucketMonotonic
  <2>5. BucketOf(history[k + i - 1].at) < B
    BY <1>3, <2>1, <2>2, <2>4
  <2> QED
    BY <1>3, <2>1, <2>3, <2>5
<1>6. HistoryIsSpaced'
  <2>1. SUFFICES ASSUME NEW i \in 1 .. m, NEW j \in 1 .. m, i < j
                 PROVE  BucketOf(history'[i].at) + (j - i) <= BucketOf(history'[j].at)
    BY DEF HistoryIsSpaced, BucketOf
  <2> DEFINE a == k + i - 1
             b == k + j - 1
  <2>2. i \in 1 .. kept /\ a \in 1 .. n
    BY <1>1, <1>3, <1>5, <2>1
  <2>3. CASE j \in 1 .. kept
    <3>1. b \in 1 .. n /\ a < b /\ b - a = j - i
      BY <1>3, <1>5, <2>1, <2>2, <2>3
    <3>2. history'[i] = history[a] /\ history'[j] = history[b]
      BY <1>5, <2>2, <2>3
    <3> HIDE DEF a, b
    <3>3. BucketOf(history[a].at) + (b - a) <= BucketOf(history[b].at)
      BY <2>2, <3>1 DEF LagInv, HistoryIsSpaced
    <3> QED
      BY <3>1, <3>2, <3>3
  <2>4. CASE j = kept + 1
    <3> DEFINE c == k + kept - 1
    <3>1. c \in 1 .. n /\ kept \in 1 .. kept /\ a <= c /\ c - a = kept - i
      <4>1. i \in 1 .. kept /\ kept \in Nat /\ k \in Nat \ {0} /\ n \in Nat /\ k + kept <= n + 1
        BY <1>3, <2>2
      <4> HIDE DEF n, m, B
      <4> QED
        BY ONLY <4>1
    <3>2. history'[i] = history[a] /\ history'[kept] = history[c] /\ history'[j].at = now
      BY <1>1, <1>3, <1>5, <2>2, <2>4, <3>1
    <3>3. BucketOf(history[c].at) < B
      BY <1>5, <3>1, <3>2
    <3> HIDE DEF a, c
    <3>4. BucketOf(history[a].at) + (c - a) <= BucketOf(history[c].at)
      <4>1. CASE a = c
        BY <1>3, <3>1, <4>1
      <4>2. CASE a < c
        BY <2>2, <3>1, <4>2 DEF LagInv, HistoryIsSpaced
      <4> QED
        BY <1>3, <2>2, <3>1, <4>1, <4>2
    <3>5. BucketOf(history'[j].at) = B /\ BucketOf(history'[i].at) = BucketOf(history[a].at)
      BY <3>2
    <3>6. BucketOf(history[a].at) \in Int /\ BucketOf(history[c].at) \in Int
      BY <1>3, <2>2, <3>1
    <3>7. j - i = (c - a) + 1 /\ c - a \in Int
      BY <1>3, <2>2, <2>4, <3>1
    <3> HIDE DEF B, n
    <3> QED BY <1>3, <3>3, <3>4, <3>5, <3>6, <3>7
  <2> QED
    BY <1>1, <1>3, <2>1, <2>3, <2>4
<1>7. OneOfEachBucket'
  <2>1. \A e \in seen' : e.at <= now
    <3>1. \A e \in seen : e.at <= now
      BY <1>3 DEF LagInv, OneOfEachBucket
    <3> QED
      BY <1>3, <3>1
  <2>2. \A e, f \in seen' : BucketOf(e.at) = BucketOf(f.at) => e = f
    <3>1. \A e, f \in seen : BucketOf(e.at) = BucketOf(f.at) => e = f
      BY DEF LagInv, OneOfEachBucket
    <3> HIDE DEF new
    <3> QED BY <1>3, <3>1 DEF new
  <2> QED
    BY <2>1, <2>2 DEF OneOfEachBucket, BucketOf
<1>8. ForgottenAreSuperseded'
  <2>1. \A i \in 1 .. m : history'[i] \in seen'
    <3>1. SUFFICES ASSUME NEW i \in 1 .. m
                   PROVE  history'[i] \in seen'
      OBVIOUS
    <3>2. CASE i \in 1 .. kept
      BY <1>3, <1>5, <3>2
    <3>3. CASE i = kept + 1
      BY <1>1, <3>3
    <3> QED
      BY <1>1, <1>3, <3>2, <3>3
  <2>2. ASSUME NEW e \in seen'
        PROVE  KeptOrSuperseded(e, now)
    <3>1. CASE e = new
      <4>1. kept + 1 \in 1 .. m
        BY <1>1, <1>3
      <4> QED
        BY <1>1, <3>1, <4>1 DEF KeptOrSuperseded
    <3>2. CASE e \in seen /\ BucketOf(e.at) # B
      <4>1. kept <= m /\ kept < m
        BY <1>1, <1>3
      <4>2. Covers(k, kept, now)
        BY <1>1, <4>1 DEF Covers
      <4> QED
        BY <1>1, <1>3, <3>2, <4>1, <4>2, SupersededAfter
    <3> QED
      BY <3>1, <3>2
  <2> QED
    BY <2>1, <2>2 DEF ForgottenAreSuperseded, Kept, KeptOrSuperseded
<1> QED
  BY <1>4, <1>6, <1>7, <1>8 DEF LagInv

-----------------------------------------------------------------------------
(* The actions. *)

LEMMA RefreshLooksUp ==
  ASSUME NEW entries, NEW now, NEW v, Refresh(entries, now, v)
  PROVE  /\ history' = entries /\ clock' = now /\ current' = v
         /\ VisibleIsLookedUp'
<1>1. /\ history' = entries /\ clock' = now /\ current' = v
      /\ visible' = [o \in Outputs |-> Lagged(entries, now, v, o)]
  BY DEF Refresh
<1>2. \A o \in Outputs : Lagged(entries, now, v, o) = Lagged(history, clock, current, o)'
  BY <1>1 DEF Lagged, AsOf, SeenBy
<1>3. visible' = [o \in Outputs |-> Lagged(history, clock, current, o)']
  BY <1>1, <1>2
<1> QED
  BY <1>1, <1>3 DEF VisibleIsLookedUp

LEMMA ObserveKeepsInv ==
  ASSUME LagInv, NEW now \in Times, NEW v \in Values \cup {NaN}, ObserveValue(v, now)
  PROVE  LagInv'
<1>1. clock <= now /\ Observe(v, now)
  BY DEF ObserveValue, Observe
<1>2. CASE v = NaN
  <2>1. Refresh(Trimmed(now), now, v) /\ seen' = seen
    BY <1>1, <1>2 DEF ObserveValue, Observe
  <2>2. /\ history' = Trimmed(now) /\ clock' = now /\ current' \in Values \cup {NaN}
        /\ VisibleIsLookedUp'
    BY <2>1, RefreshLooksUp
  <2> QED
    BY <1>1, <2>1, <2>2, KeepsWithoutNew
<1>3. CASE v # NaN
  <2>1. /\ Refresh(Remembering(Trimmed(now), now, v), now, v)
        /\ seen' = {e \in seen : BucketOf(e.at) # BucketOf(now)} \cup {Entry(now, v)}
    BY <1>1, <1>3 DEF ObserveValue, Observe
  <2>2. /\ history' = Remembering(Trimmed(now), now, v)
        /\ clock' = now /\ current' \in Values \cup {NaN}
        /\ VisibleIsLookedUp'
    BY <2>1, RefreshLooksUp
  <2>3. v \in Values
    BY <1>3
  <2> QED
    BY <1>1, <2>1, <2>2, <2>3, KeepsWithNew
<1> QED
  BY <1>2, <1>3

LEMMA AdvanceKeepsInv ==
  ASSUME LagInv, NEW now \in Times, AdvanceTime(now)
  PROVE  LagInv'
<1>1. clock < now /\ Refresh(Trimmed(now), now, current) /\ seen' = seen
  BY DEF AdvanceTime, Advance
<1>2. /\ history' = Trimmed(now) /\ clock' = now /\ current' = current /\ VisibleIsLookedUp'
  BY <1>1, RefreshLooksUp
<1>3. clock <= now
  BY <1>1, LagFacts, LagParameters DEF LagInv
<1>4. current' \in Values \cup {NaN}
  BY <1>2 DEF LagInv, LagTypes
<1> QED
  BY <1>1, <1>2, <1>3, <1>4, KeepsWithoutNew

(* A repeated call, like none at all, leaves all but a flag as it was. *)
LEMMA UnchangedKeepsInv ==
  ASSUME LagInv, UNCHANGED <<history, clock, current, visible, seen>>
  PROVE  LagInv'
<1>1. LagTypes' /\ HistoryIsSpaced' /\ OneOfEachBucket' /\ ForgottenAreSuperseded'
  BY DEF LagInv, LagTypes, HistoryIsSpaced, OneOfEachBucket, ForgottenAreSuperseded, Kept
<1>2. VisibleIsLookedUp'
  BY DEF LagInv, VisibleIsLookedUp, Lagged, AsOf, SeenBy
<1> QED
  BY <1>1, <1>2 DEF LagInv

LEMMA InitialLag ==
  ASSUME AsOfInit
  PROVE  LagInv
<1>1. /\ history = <<>> /\ clock = Never /\ current = NaN /\ seen = {}
      /\ visible = [o \in Outputs |-> Missing]
  BY DEF AsOfInit, LagInit
<1>2. history \in Seq(Entries) /\ Len(history) = 0
  BY <1>1, EmptySeq
<1>3. VisibleIsLookedUp
  BY <1>1 DEF VisibleIsLookedUp, Lagged
<1> QED
  BY <1>1, <1>2, <1>3
     DEF LagInv, LagTypes, HistoryIsSpaced, OneOfEachBucket, ForgottenAreSuperseded, Kept

LEMMA LagInvariant == AsOfSpec => []LagInv
<1>1. AsOfInit => LagInv
  BY InitialLag
<1>2. LagInv /\ [AsOfNext]_asOfVars => LagInv'
  <2>1. SUFFICES ASSUME LagInv, [AsOfNext]_asOfVars
                 PROVE  LagInv'
    OBVIOUS
  <2>2. ASSUME NEW now \in Times, AdvanceTime(now)
        PROVE  LagInv'
    BY <2>1, <2>2, AdvanceKeepsInv
  <2>3. ASSUME NEW now \in Times, NEW v \in Values \cup {NaN}, ObserveValue(v, now)
        PROVE  LagInv'
    BY <2>1, <2>3, ObserveKeepsInv
  <2>4. CASE RepeatOutputs
    BY <2>1, <2>4, UnchangedKeepsInv DEF RepeatOutputs, Repeat
  <2>5. CASE UNCHANGED asOfVars
    BY <2>1, <2>5, UnchangedKeepsInv DEF asOfVars, lagVars
  <2> QED
    BY <2>1, <2>2, <2>3, <2>4, <2>5 DEF AsOfNext
<1> QED
  BY <1>1, <1>2, PTL DEF AsOfSpec

(* An observation is forgotten only when a newer one is kept that is as old *)
(* as the longest lag, whatever the lags, the times and the silences.       *)
THEOREM ForgottenStaySuperseded == AsOfSpec => []ForgottenAreSuperseded
<1>1. LagInv => ForgottenAreSuperseded
  BY DEF LagInv
<1> QED
  BY <1>1, LagInvariant, PTL

-----------------------------------------------------------------------------
(* Lookups. *)

(* The newest entry of the history no newer than a cutoff that is at least  *)
(* as long ago as a lag is the newest of all that were ever observed.       *)
LEMMA LookupIsAsOf ==
  ASSUME LagInv, NEW o \in Outputs
  PROVE  LET old == {e \in seen : e.at <= clock - Lags[o]}
         IN  Lagged(history, clock, current, o)
               = IF current = NaN \/ old = {} THEN Missing
                 ELSE <<current, (CHOOSE e \in old : \A f \in old : f.at <= e.at).value>>
<1> DEFINE n == Len(history)
           cutoff == clock - Lags[o]
           old == {e \in seen : e.at <= cutoff}
           by == SeenBy(history, cutoff)
           Newest(e) == \A f \in old : f.at <= e.at
<1>1. /\ n \in Nat /\ clock \in Int /\ Lags[o] \in Nat /\ Lags[o] <= MaxLag /\ MaxLag \in Nat
      /\ MinTime \in Int /\ cutoff \in Int
      /\ \A i \in 1 .. n : history[i].at \in Int /\ history[i] \in seen /\ history[i] \in Entries
      /\ \A e \in seen : e.at \in Int /\ MinTime <= e.at
  BY LagFacts, MaxLagFacts, LagParameters DEF LagInv, ForgottenAreSuperseded, Kept
<1>2. by \in SUBSET (1 .. n) /\ \A i \in 1 .. n : i \in by <=> history[i] \in old
  BY <1>1 DEF SeenBy
<1>3. ASSUME NEW e \in old
      PROVE  \E i \in by : e.at <= history[i].at
  <2>1. CASE e \in Kept
    BY <1>1, <1>2, <2>1 DEF Kept
  <2>2. CASE e \notin Kept
    <3>1. PICK i \in 1 .. n : e.at < history[i].at /\ history[i].at <= clock - MaxLag
      BY <2>2 DEF LagInv, ForgottenAreSuperseded, Kept
    <3>2. history[i].at <= cutoff
      BY <1>1, <3>1
    <3> QED
      BY <1>1, <1>2, <3>1, <3>2
  <2> QED
    BY <2>1, <2>2
<1>4. CASE by = {}
  <2>1. old = {}
    BY <1>3, <1>4
  <2>2. AsOf(history, cutoff) = Missing
    BY <1>4 DEF AsOf
  <2> QED
    BY <2>1, <2>2 DEF Lagged
<1>5. CASE by # {}
  <2> DEFINE i == CHOOSE i \in by : \A j \in by : j <= i
  <2>1. i \in by /\ \A j \in by : j <= i
    <3>1. \E k \in by : \A j \in by : j <= k
      <4> HIDE DEF by
      <4> QED BY <1>1, <1>2, <1>5, GreatestIndex
    <3> QED
      BY <3>1
  <2>2. AsOf(history, cutoff) = history[i].value
    BY <1>5 DEF AsOf
  <2> HIDE DEF i
  <2>3. i \in 1 .. n /\ history[i] \in old /\ history[i].value \in Values
    BY <1>1, <1>2, <2>1 DEF Entries
  <2>4. Newest(history[i])
    <3>1. SUFFICES ASSUME NEW e \in old
                   PROVE  e.at <= history[i].at
      OBVIOUS
    <3>2. PICK j \in by : e.at <= history[j].at
      BY <1>3
    <3>3. j \in 1 .. n /\ j <= i
      BY <1>2, <2>1
    <3>4. j < i => history[j].at < history[i].at
      BY <2>3, <3>3, LaterIsNewer
    <3> HIDE DEF old
    <3>5. e.at \in Int
      BY <1>1 DEF old
    <3> QED
      BY <1>1, <2>3, <3>2, <3>3, <3>4, <3>5
  <2>5. ASSUME NEW e \in old, Newest(e)
        PROVE  e = history[i]
    <3>1. e.at = history[i].at
      BY <1>1, <2>3, <2>4, <2>5
    <3>2. e \in seen /\ history[i] \in seen
      BY <1>1, <2>3
    <3> QED
      BY <3>1, <3>2 DEF LagInv, OneOfEachBucket
  <2>6. (CHOOSE e \in old : Newest(e)) = history[i]
    <3>1. (CHOOSE e \in old : Newest(e)) \in old /\ Newest(CHOOSE e \in old : Newest(e))
      BY <2>3, <2>4
    <3> QED
      BY <2>5, <3>1
  <2>7. ~ (cutoff < MinTime)
    BY <1>1, <2>3
  <2>8. history[i].value # Missing /\ old # {}
    BY <2>3, LagParameters
  <2> QED
    BY <2>2, <2>6, <2>7, <2>8 DEF Lagged
<1> QED
  BY <1>4, <1>5

(* Every output compares the current value with the newest of all there    *)
(* ever were, its own lag ago, to the millisecond, although the history is *)
(* bounded, shared by several lags and kept by bucket.                      *)
THEOREM VisibleStaysAsOf == AsOfSpec => []VisibleIsAsOf
<1>1. LagInv => VisibleIsAsOf
  <2>1. SUFFICES ASSUME LagInv, NEW o \in Outputs
                 PROVE  LET old == {e \in seen : e.at <= clock - Lags[o]}
                        IN  visible[o] = IF current = NaN \/ old = {} THEN Missing
                              ELSE <<current, (CHOOSE e \in old : \A f \in old : f.at <= e.at).value>>
    BY DEF VisibleIsAsOf
  <2>2. visible[o] = Lagged(history, clock, current, o)
    BY <2>1 DEF LagInv, VisibleIsLookedUp
  <2> QED
    BY <2>1, <2>2, LookupIsAsOf
<1> QED
  BY <1>1, LagInvariant, PTL

=============================================================================
