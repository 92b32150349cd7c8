----------------------------- MODULE TimedWindow -----------------------------
(***************************************************************************)
(* What the readers of a RollingTimedSum are promised.  Nothing is ever    *)
(* forgotten here: `received' holds, for every bucket there is, all that   *)
(* was ever added in it, and what a window shows is defined by it and by   *)
(* the time alone.                                                         *)
(***************************************************************************)
EXTENDS TimedSum

CONSTANT MaxReceived  \* bound of the model: the most a bucket is made to hold

VARIABLE received

windowVars == <<sumVars, received>>

Buckets == {BucketOf(t) : t \in Times}

WindowInit == SumInit /\ received = [b \in Buckets |-> 0]

ObserveTime(now) == Observe(now) /\ UNCHANGED received

Receive(v, now) ==
  /\ received[BucketOf(now)] + v <= MaxReceived
  /\ Update(v, now)
  /\ received' = [received EXCEPT ![BucketOf(now)] = @ + v]

WindowNext ==
  \E now \in Times : ObserveTime(now) \/ \E v \in Values : Receive(v, now)

WindowSpec == WindowInit /\ [][WindowNext]_windowVars

-----------------------------------------------------------------------------
InWindow(w) == {b \in Buckets : ~ Expired(b, w, lastObserved)}

(* The running sum of each window is the sum of all that was received in   *)
(* the buckets it reaches back to: nothing is lost with an eviction, none  *)
(* is counted twice, and it makes no difference how often time was         *)
(* observed in between.  A window is ready by the time passed since its    *)
(* first value, whichever call came first and however calls share a time.  *)
SumsAreOfReceived ==
  \A w \in Windows :
    /\ sums[w] = SumFunctionOnSet(received, InWindow(w))
    /\ ready[w] <=> /\ firstTimestamp # Never
                    /\ \/ WarmupPolicy = "FirstValue"
                       \/ lastObserved - firstTimestamp >= Duration(w)

=============================================================================
