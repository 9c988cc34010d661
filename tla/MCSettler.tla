----------------------------- MODULE MCSettler ------------------------------
(* Model-checking instance of Settler.                                     *)
EXTENDS Settler

CONSTANTS MCPrices, MCQuantities, Carol

(* Trades in base/quote: bob with alice, both ways; with a user who has    *)
(* nothing as the buyer and as the seller; bob with himself; and a message *)
(* whose symbol has no second part.                                        *)
MCPairs == {<<Bob, Alice>>, <<Alice, Bob>>, <<Carol, Alice>>, <<Bob, Carol>>,
            <<Bob, Bob>>}

MCTradeMessages ==
  {[symbol |-> <<Base, Quote>>, buyUser |-> pair[1], sellUser |-> pair[2],
    price |-> p, quantity |-> q] :
     pair \in MCPairs, p \in MCPrices, q \in MCQuantities}
  \cup
  [symbol : {<<Base>>}, buyUser : {Bob}, sellUser : {Alice},
   price : {1}, quantity : {1}]

=============================================================================
