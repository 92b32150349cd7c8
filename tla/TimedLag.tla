------------------------------- MODULE TimedLag -------------------------------
(***************************************************************************)
(* What the readers of a TimedTransformer are promised: lookups in the     *)
(* last finite observation of every bucket there ever was.                 *)
(***************************************************************************)
EXTENDS TimedHistory

VARIABLE seen  \* the last finite observation of each bucket, none forgotten

asOfVars == <<lagVars, seen>>

AsOfInit == LagInit /\ seen = {}

ObserveValue(v, now) ==
  /\ Observe(v, now)
  /\ seen' = IF v = NaN THEN seen
             ELSE {e \in seen : BucketOf(e.at) # BucketOf(now)} \cup {Entry(now, v)}

AdvanceTime(now) == Advance(now) /\ UNCHANGED seen

RepeatOutputs == Repeat /\ UNCHANGED seen

AsOfNext ==
  \/ \E now \in Times : AdvanceTime(now) \/ \E v \in Values \cup {NaN} : ObserveValue(v, now)
  \/ RepeatOutputs

AsOfSpec == AsOfInit /\ [][AsOfNext]_asOfVars

-----------------------------------------------------------------------------
Kept == {history[i] : i \in 1 .. Len(history)}

(* The bounded history forgets an observation only when a newer one is     *)
(* already as old as the longest lag: neither the ring's capacity nor a    *)
(* long silence ever costs one that some lag may still ask for.            *)
ForgottenAreSuperseded ==
  /\ Kept \subseteq seen
  /\ \A e \in seen \ Kept :
       \E later \in Kept : e.at < later.at /\ later.at <= clock - MaxLag

(* Every output compares the current value with the one that was newest,   *)
(* of all buckets there ever were, exactly its lag ago.                    *)
VisibleIsAsOf ==
  \A o \in Outputs :
    LET old == {e \in seen : e.at <= clock - Lags[o]}
    IN  visible[o] = IF current = NaN \/ old = {} THEN Missing
                     ELSE <<current, (CHOOSE e \in old : \A f \in old : f.at <= e.at).value>>

=============================================================================
