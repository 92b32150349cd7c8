----------------------------- MODULE TimedHistory -----------------------------
(***************************************************************************)
(* TimedTransformer of features/transformers/timed.rs: what an input was a *)
(* fixed time ago, for several lags over one bounded history.              *)
(*                                                                         *)
(* The history keeps the last finite observation of each bucket of         *)
(* Aggregation milliseconds that is still within the longest lag, and one  *)
(* older observation for as-of lookups to fall back on.  Lookups are by    *)
(* the time observed, not by bucket.  apply is called once per accepted    *)
(* event and once per context update; each way it can go is an action.     *)
(* An output is the pair of the current value and the earlier one, from    *)
(* which the code computes a difference or a return, or just the latter.   *)
(***************************************************************************)
EXTENDS Integers, Sequences, FiniteSets

CONSTANTS
  Aggregation,  \* aggregation, in milliseconds
  Lags,         \* output -> its lag in milliseconds
  Times,        \* timestamps
  MinTime,      \* i64::MIN: a time before it cannot be computed
  Values,       \* finite observations
  NaN,          \* an observation that is not finite
  Missing       \* an output that is not ready

Outputs == DOMAIN Lags

(* validate_window: a lag is a positive multiple of the aggregation. *)
ASSUME LagParameters ==
  /\ Aggregation \in Nat \ {0}
  /\ Outputs # {} /\ IsFiniteSet(Outputs)
  /\ \A o \in Outputs : Lags[o] \in Nat \ {0} /\ Lags[o] % Aggregation = 0
  /\ MinTime \in Int
  /\ Times \subseteq Int
  /\ \A t \in Times : MinTime <= t
  /\ NaN \notin Values
  /\ Missing \notin Values /\ Missing \notin Values \X Values

VARIABLES
  history,    \* history: [at, value], oldest first
  clock,      \* clock
  current,    \* current: the last observation, finite or not
  visible,    \* visible
  refreshed   \* output_observed: did the last call compute the outputs anew?

lagVars == <<history, clock, current, visible, refreshed>>

Entry(now, v) == [at |-> now, value |-> v]

(* Option::None of a timestamp: before every other. *)
Never == MinTime - 1

-----------------------------------------------------------------------------
MaxLag == CHOOSE lag \in {Lags[o] : o \in Outputs} : \A o \in Outputs : Lags[o] <= lag

(* Faulty variant: no room for the older observation. *)
CapacityWithinLag == (MaxLag \div Aggregation) + 1

(* The boundary bucket, the current partial one and an older predecessor. *)
Capacity == (MaxLag \div Aggregation) + 2

BucketOf(t) == t \div Aggregation

(* Faulty variant: the history is cut at the longest lag. *)
FrontWithinLag(now) ==
  CHOOSE i \in 1 .. Len(history) + 1 :
    /\ \A j \in 1 .. i - 1 : history[j].at <= now - MaxLag
    /\ i <= Len(history) => history[i].at > now - MaxLag

(* The loop that pops the front as long as the entry after it will do. *)
FrontAfter(now) ==
  CHOOSE i \in 1 .. (IF history = <<>> THEN 1 ELSE Len(history)) :
    /\ \A j \in 2 .. i : history[j].at <= now - MaxLag
    /\ i < Len(history) => history[i + 1].at > now - MaxLag

(* checked_sub: nothing is that old at the beginning of time. *)
Trimmed(now) ==
  IF now - MaxLag < MinTime THEN history
                            ELSE SubSeq(history, FrontAfter(now), Len(history))

SameBucket(kept, now) ==
  kept # <<>> /\ BucketOf(kept[Len(kept)].at) = BucketOf(now)

(* push_back evicts the oldest of a full ring. *)
Remembering(kept, now, v) ==
  IF SameBucket(kept, now) THEN [kept EXCEPT ![Len(kept)] = Entry(now, v)]
  ELSE IF Len(kept) = Capacity THEN Append(Tail(kept), Entry(now, v))
  ELSE Append(kept, Entry(now, v))

SeenBy(entries, cutoff) == {i \in 1 .. Len(entries) : entries[i].at <= cutoff}

(* as_of: the newest entry no newer than the cutoff, by binary search. *)
AsOf(entries, cutoff) ==
  LET seen == SeenBy(entries, cutoff)
  IN  IF seen = {} THEN Missing
      ELSE entries[CHOOSE i \in seen : \A j \in seen : j <= i].value

Lagged(entries, now, v, o) ==
  LET previous == AsOf(entries, now - Lags[o])
  IN  IF v = NaN \/ now - Lags[o] < MinTime \/ previous = Missing
        THEN Missing
        ELSE <<v, previous>>

Refresh(entries, now, v) ==
  /\ history' = entries
  /\ clock' = now
  /\ current' = v
  /\ visible' = [o \in Outputs |-> Lagged(entries, now, v, o)]
  /\ refreshed' = TRUE

-----------------------------------------------------------------------------
(* apply, when the event wrote the input. *)
Observe(v, now) ==
  /\ clock <= now
  /\ Refresh(IF v = NaN THEN Trimmed(now) ELSE Remembering(Trimmed(now), now, v), now, v)

(* apply, when the event did not but moved the input's clock. *)
Advance(now) ==
  /\ clock < now
  /\ Refresh(Trimmed(now), now, current)

(* apply in a context update, before the input has a clock or when neither *)
(* its clock nor its value is new: the outputs are written again.          *)
Repeat ==
  /\ refreshed' = FALSE
  /\ UNCHANGED <<history, clock, current, visible>>

LagInit ==
  /\ history = <<>>
  /\ clock = Never
  /\ current = NaN
  /\ visible = [o \in Outputs |-> Missing]
  /\ refreshed = FALSE

LagNext ==
  \/ \E now \in Times : Advance(now) \/ \E v \in Values \cup {NaN} : Observe(v, now)
  \/ Repeat

LagSpec == LagInit /\ [][LagNext]_lagVars

=============================================================================
