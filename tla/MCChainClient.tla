--------------------------- MODULE MCChainClient ----------------------------
(* The instance of ChainClient that is checked.                            *)
EXTENDS ChainClient

CONSTANTS a, b,         (* the addresses of alice and bob                  *)
          op1, op2      (* two operators                                   *)

MCMinted == [u \in {a, b} |-> [t \in {"usdt", "btc"} |->
               IF (u = a) = (t = "btc") THEN 2 ELSE 0]]
MCUserAddressMap == [alice |-> a, bob |-> b]

MCTrade(buyer, seller, p, q) ==
  [buyUser |-> buyer, sellUser |-> seller, price |-> p, quantity |-> q]

(* A trade, the same user on both sides and a product beyond int64 (which  *)
(* leaves 1), a user without an address.                                   *)
MCTradeMessages ==
  {MCTrade("bob", "alice", 1, 1), MCTrade("bob", "bob", 17, 1),
   MCTrade("bob", "carol", 1, 1)}
=============================================================================
