---------------------------- MODULE MCTimedWindow ----------------------------
(***************************************************************************)
(* Two windows over one ring, of two buckets and of one, with times before *)
(* and after the epoch.                                                    *)
(***************************************************************************)
EXTENDS TimedWindow

MCPeriods == <<2, 1>>

MCTimes == -3 .. 6

MCNever == -100

=============================================================================
