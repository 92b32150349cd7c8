-------------------------- MODULE MCDerivations --------------------------
(***************************************************************************)
(* Windows of two buckets and of one over rings of three, and a window of  *)
(* one bucket over a ring of two, with times before and after the epoch    *)
(* and prices that rise, fall, stay and vanish.                            *)
(***************************************************************************)
EXTENDS Derivations

MCPeriodLists == {<<2, 1>>, <<1>>}

MCTimes == -2 .. 5

MCNever == -100

MCTrades == {[price |-> 0, volume |-> 1, side |-> "AggressorSell"],
             [price |-> 1, volume |-> 2, side |-> "AggressorBuy"],
             [price |-> 2, volume |-> 0, side |-> "None"]}

=============================================================================
