------------------------------ MODULE MCTimedLag ------------------------------
(***************************************************************************)
(* Lags of one and of two buckets, from the first timestamp there is.      *)
(***************************************************************************)
EXTENDS TimedLag

MCLags == <<2, 4>>

MCMinTime == -3

MCTimes == -3 .. 6

=============================================================================
