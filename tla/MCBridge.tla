------------------------------ MODULE MCBridge ------------------------------
(* The bridge on small instances.                                          *)
EXTENDS Bridge

CONSTANTS alice, bob

Limit(side, price, quantity) ==
  [side |-> side, type |-> "Limit", price |-> price, quantity |-> quantity,
   createdAt |-> 1]

(* A seller whose order is filled in two parts, buyers at, below and       *)
(* without a limit, and a seller whom the lower buyer cannot afford.       *)
MCSubmissions ==
  {[user |-> alice, req |-> Limit("Sell", 1, 2)],
   [user |-> alice, req |-> Limit("Sell", 2, 1)],
   [user |-> bob,   req |-> Limit("Buy", 1, 1)],
   [user |-> bob,   req |-> [side |-> "Buy", type |-> "Market", price |-> 0,
                             quantity |-> 2, createdAt |-> 0]]}
=============================================================================
