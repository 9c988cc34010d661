------------------------------ MODULE MCKLines ------------------------------
(* The instance of KLines that is checked.                                 *)
EXTENDS KLines

CONSTANTS MCTimes

MCIntervals == <<"1m", "5m">>
MCDuration == [i \in {"1m", "5m"} |-> IF i = "1m" THEN 2 ELSE 4]

(* Prices that rise and fall, quantities that tell trades apart.           *)
MCTrades == {[price |-> p, quantity |-> IF p = 2 THEN 1 ELSE 2, time |-> t] :
               p \in 1 .. 3, t \in MCTimes}
=============================================================================
