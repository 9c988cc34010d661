---------------------------- MODULE MCRiskControl ----------------------------
(* The instance of RiskControl that is checked.                            *)
EXTENDS RiskControl

CONSTANTS Ann, Ben

(* Ann on both sides, one of her orders large; Ben; a trade between the    *)
(* two and one of Ann with herself.                                        *)
MCOrderMessages ==
  {[user_id |-> Ann, side |-> "buy", value |-> 1],
   [user_id |-> Ann, side |-> "sell", value |-> 2],
   [user_id |-> Ben, side |-> "buy", value |-> 1]}

MCTradeMessages ==
  {[buy_user_id |-> Ann, sell_user_id |-> Ben, quantity |-> 2],
   [buy_user_id |-> Ann, sell_user_id |-> Ann, quantity |-> 3]}

(* Partitions have no names: what is first written may as well be in 1.    *)
FirstInOne == Len(partition) > 0 => partition[1] = 1
=============================================================================
