--------------------------- MODULE MatchingEngine ---------------------------
(***************************************************************************)
(* The price-time matching engine of one symbol                            *)
(* (MatchingEngine/engine/engine.go).                                      *)
(*                                                                         *)
(* The engine is single threaded: its caller finishes one PlaceOrder or    *)
(* CancelOrder call before it makes the next.  A PlaceOrder call is        *)
(* modelled as the step that enters it, one step per iteration of the      *)
(* matching loop (drop a cancelled resting order, or fill against the best *)
(* one) and the step that leaves it, so that what holds between two fills  *)
(* of one call can be stated.                                              *)
(*                                                                         *)
(* A heap is modelled by the set of orders it holds.  container/heap       *)
(* promises of its root only that no element is Less than it, so any such  *)
(* element may be the root: orders with the same price and the same        *)
(* CreatedAt are tried in an order the model leaves open.                  *)
(*                                                                         *)
(* Operators whose names end in a word after an underscore (such as        *)
(* Accepts_Strict) are deliberate errors; no specification uses them.  The *)
(* project replaces a definition by one of them to see that the property   *)
(* it guards is able to fail.                                              *)
(***************************************************************************)
EXTENDS Integers, Sequences, Functions

CONSTANTS
  OrderId,     (* ids of the orders that may be placed, each at most once  *)
  Prices,      (* limit prices; OrderService admits positive ones only     *)
  Quantities,  (* order quantities; OrderService admits positive ones only *)
  Times,       (* CreatedAt stamps, set upstream, so an order may arrive   *)
               (* after another one that was created later                 *)
  NoOrder      (* "no PlaceOrder call is running"                          *)

ASSUME EngineAssumption ==
  /\ NoOrder \notin OrderId
  /\ Prices \subseteq Nat \ {0}
  /\ Quantities \subseteq Nat \ {0}
  /\ Times \subseteq Nat

Side        == {"Buy", "Sell"}
OrderType   == {"Limit", "Market"}
OrderStatus == {"Open", "PartiallyFilled", "Filled", "Cancelled"}

Order == [side : Side, type : OrderType, price : Nat, quantity : Nat,
          remaining : Nat, status : OrderStatus, createdAt : Nat]

(* The zero value of the Go struct: an id nobody has used yet maps to it.  *)
ZeroOrder == [side |-> "Buy", type |-> "Limit", price |-> 0, quantity |-> 0,
              remaining |-> 0, status |-> "Open", createdAt |-> 0]

(* A trade's ID is buyOrderID-sellOrderID, here the pair <<buy, sell>>.    *)
Trade == [buy : OrderId, sell : OrderId, price : Nat, quantity : Nat]

(* What a caller may submit.  The price and the CreatedAt of a market      *)
(* order are never read: it has no price test and never enters a heap.     *)
Request ==
  [side : Side, type : {"Limit"}, price : Prices,
   quantity : Quantities, createdAt : Times]
  \cup
  [side : Side, type : {"Market"}, price : {0},
   quantity : Quantities, createdAt : {0}]

VARIABLES
  order,   (* order[o]: the Order struct with id o                         *)
  heaps,   (* heaps["Buy"] is e.buyOrders, heaps["Sell"] is e.sellOrders   *)
  taker,   (* the order whose PlaceOrder call is running, or NoOrder       *)
  trades   (* trades[o]: the slice PlaceOrder(o) returns or has built      *)

vars == <<order, heaps, taker, trades>>

----------------------------------------------------------------------------
(* Helpers.                                                                *)

Opposite(s) == IF s = "Buy" THEN "Sell" ELSE "Buy"

Placed(o) == order[o].quantity # 0

Cancelled(o) == order[o].status = "Cancelled"

Less_LatestFirst(o, p) ==
  \/ /\ order[o].side = "Buy"
     /\ order[o].price > order[p].price
  \/ /\ order[o].side = "Sell"
     /\ order[o].price < order[p].price
  \/ /\ order[o].price = order[p].price
     /\ order[p].createdAt < order[o].createdAt

(* Less of the heap both orders are in: price, then time.                  *)
Less(o, p) ==
  \/ /\ order[o].side = "Buy"
     /\ order[o].price > order[p].price
  \/ /\ order[o].side = "Sell"
     /\ order[o].price < order[p].price
  \/ /\ order[o].price = order[p].price
     /\ order[o].createdAt < order[p].createdAt

(* The elements container/heap may hold at index 0.                        *)
Roots(s) == {r \in heaps[s] : \A p \in heaps[s] : ~Less(p, r)}

Accepts_Strict(o, best) ==
  \/ order[o].type = "Market"
  \/ order[o].side = "Buy" /\ order[best].price < order[o].price
  \/ order[o].side = "Sell" /\ order[best].price > order[o].price

(* The price test of the matching loop; a market order has none.           *)
Accepts(o, best) ==
  \/ order[o].type = "Market"
  \/ order[o].side = "Buy" /\ order[best].price <= order[o].price
  \/ order[o].side = "Sell" /\ order[best].price >= order[o].price

MatchQty_OneLot(o, best) == 1

(* min(buyOrder.Remaining, sellOrder.Remaining)                            *)
MatchQty(o, best) ==
  IF order[o].remaining < order[best].remaining
  THEN order[o].remaining
  ELSE order[best].remaining

(* One side of fill: what it does to an order struct.                      *)
Reduced(rec, qty) ==
  [rec EXCEPT !.remaining = rec.remaining - qty,
              !.status = IF rec.remaining = qty THEN "Filled"
                                                ELSE "PartiallyFilled"]

TradeOf_MakerQty(o, best) ==
  [buy      |-> IF order[o].side = "Buy" THEN o ELSE best,
   sell     |-> IF order[o].side = "Buy" THEN best ELSE o,
   price    |-> order[best].price,
   quantity |-> order[best].remaining]

(* The report fill returns: always at the price of the resting order.      *)
TradeOf(o, best) ==
  [buy      |-> IF order[o].side = "Buy" THEN o ELSE best,
   sell     |-> IF order[o].side = "Buy" THEN best ELSE o,
   price    |-> order[best].price,
   quantity |-> MatchQty(o, best)]

----------------------------------------------------------------------------
Init ==
  /\ order  = [o \in OrderId |-> ZeroOrder]
  /\ heaps  = [s \in Side |-> {}]
  /\ taker  = NoOrder
  /\ trades = [o \in OrderId |-> <<>>]

(* PlaceOrder is entered: Remaining = Quantity, Status = Open.             *)
PlaceOrder(o, req) ==
  /\ taker = NoOrder
  /\ ~Placed(o)
  /\ order' = [order EXCEPT ![o] =
                 [side |-> req.side, type |-> req.type, price |-> req.price,
                  quantity |-> req.quantity, remaining |-> req.quantity,
                  status |-> "Open", createdAt |-> req.createdAt]]
  /\ taker' = o
  /\ UNCHANGED <<heaps, trades>>

(* The loop goes on while the taker has quantity left and the other heap   *)
(* has an element; best is its root.                                       *)
Considers(o, best) ==
  /\ taker = o
  /\ order[o].remaining > 0
  /\ best \in Roots(Opposite(order[o].side))

(* heap.Pop of the root of the heap of side s.                             *)
Pop(s, best) == heaps' = [heaps EXCEPT ![s] = @ \ {best}]

(* best.Status == Cancelled: pop it and look at the next root.             *)
DropCancelled(o, best) ==
  /\ Considers(o, best)
  /\ Cancelled(best)
  /\ Pop(Opposite(order[o].side), best)
  /\ UNCHANGED <<order, taker, trades>>

Fillable_Unchecked(o, best) == Considers(o, best) /\ Accepts(o, best)

(* The loop body reaches fill: best is live and within the limit.          *)
Fillable(o, best) ==
  /\ Considers(o, best)
  /\ ~Cancelled(best)
  /\ Accepts(o, best)

Exhausts_Taker(o, best) == order[o].remaining <= order[best].remaining

(* best.Remaining == 0 after the fill.                                     *)
Exhausts(o, best) == MatchQty(o, best) = order[best].remaining

(* fill(o, best) at best's price; best leaves its heap when exhausted.     *)
Fill(o, best) ==
  LET qty == MatchQty(o, best) IN
  /\ Fillable(o, best)
  /\ order' = [order EXCEPT ![o] = Reduced(@, qty), ![best] = Reduced(@, qty)]
  /\ trades' = [trades EXCEPT ![o] = Append(@, TradeOf(o, best))]
  /\ IF Exhausts(o, best) THEN Pop(Opposite(order[o].side), best)
                          ELSE UNCHANGED heaps
  /\ UNCHANGED taker

(* The loop has ended with quantity left: the other heap is empty, or its  *)
(* root is live and priced beyond the limit.                               *)
NoMatchLeft(o) ==
  /\ taker = o
  /\ order[o].remaining > 0
  /\ \/ heaps[Opposite(order[o].side)] = {}
     \/ \E best \in Roots(Opposite(order[o].side)) :
          ~Cancelled(best) /\ ~Accepts(o, best)

Rest_FreshOnly(o) ==
  /\ NoMatchLeft(o)
  /\ order[o].type = "Limit"
  /\ heaps' = IF order[o].status = "Open"
              THEN [heaps EXCEPT ![order[o].side] = @ \cup {o}]
              ELSE heaps
  /\ taker' = NoOrder
  /\ UNCHANGED <<order, trades>>

(* A limit order that is not used up is pushed on the heap of its side.    *)
Rest(o) ==
  /\ NoMatchLeft(o)
  /\ order[o].type = "Limit"
  /\ heaps' = [heaps EXCEPT ![order[o].side] = @ \cup {o}]
  /\ taker' = NoOrder
  /\ UNCHANGED <<order, trades>>

(* What is left of a market order is cancelled; it never rests.            *)
CancelLeftover(o) ==
  /\ NoMatchLeft(o)
  /\ order[o].type = "Market"
  /\ order' = [order EXCEPT ![o].status = "Cancelled"]
  /\ taker' = NoOrder
  /\ UNCHANGED <<heaps, trades>>

(* The taker is used up: PlaceOrder returns.                               *)
ReturnFilled(o) ==
  /\ taker = o
  /\ order[o].remaining = 0
  /\ taker' = NoOrder
  /\ UNCHANGED <<order, heaps, trades>>

(* CancelOrder marks a resting order and leaves it in its heap.  An id     *)
(* that is in neither heap changes nothing.                                *)
CancelOrder(o) ==
  /\ taker = NoOrder
  /\ o \in heaps["Buy"] \cup heaps["Sell"]
  /\ order' = [order EXCEPT ![o].status = "Cancelled"]
  /\ UNCHANGED <<heaps, taker, trades>>

(* The steps of the PlaceOrder call that is running.                       *)
MatchStep ==
  \E o \in OrderId :
    \/ \E best \in OrderId : DropCancelled(o, best)
    \/ \E best \in OrderId : Fill(o, best)
    \/ Rest(o)
    \/ CancelLeftover(o)
    \/ ReturnFilled(o)

Next ==
  \/ \E o \in OrderId, req \in Request : PlaceOrder(o, req)
  \/ MatchStep
  \/ \E o \in OrderId : CancelOrder(o)

Spec == Init /\ [][Next]_vars

(* A Go function that has been entered keeps running.                      *)
FairSpec == Spec /\ WF_vars(MatchStep)

----------------------------------------------------------------------------
(* Properties.                                                             *)

(* Types: every order is a well-formed Order struct, in particular its     *)
(* remaining quantity stays a natural number; heaps hold orders.           *)
TypeOK ==
  /\ order  \in [OrderId -> Order]
  /\ heaps  \in [Side -> SUBSET OrderId]
  /\ taker  \in OrderId \cup {NoOrder}
  /\ trades \in [OrderId -> Seq(Trade)]

(* The book is never crossed: every resting buy is priced below every      *)
(* resting sell, also while a call is running, and also for orders that    *)
(* are cancelled but still in a heap (so that dropping them later cannot   *)
(* expose a match that should have happened).                              *)
NoCross ==
  \A b \in heaps["Buy"], s \in heaps["Sell"] : order[b].price < order[s].price

(* Every order in a heap is a limit order of that heap's side with         *)
(* something left to trade: an order that fill used up has been popped, a  *)
(* market order never rests, and the taker is not in a heap yet.           *)
HeapsHoldRestingOrders ==
  \A s \in Side : \A o \in heaps[s] :
    /\ order[o].side = s
    /\ order[o].type = "Limit"
    /\ order[o].remaining \in 1 .. order[o].quantity
    /\ order[o].status # "Filled"
    /\ o # taker

(* The reports of all calls, each by its place in trades.                  *)
Reports == UNION {{p} \X DOMAIN trades[p] : p \in OrderId}

ReportsOf(o) == {x \in Reports :
                   o \in {trades[x[1]][x[2]].buy, trades[x[1]][x[2]].sell}}

(* Nothing is traded that was not ordered, and nothing is lost: what the   *)
(* reports say an order traded, over all calls, is what fill took from it. *)
QuantityConserved ==
  \A o \in OrderId :
    order[o].quantity = order[o].remaining +
      SumFunction([x \in ReportsOf(o) |-> trades[x[1]][x[2]].quantity])

Maker(o, t) == IF t.buy = o THEN t.sell ELSE t.buy

(* A trade of the call for o is between o and a limit order of the other   *)
(* side, at that order's price, and within o's limit if it has one.        *)
TradesWithinLimits ==
  \A o \in OrderId : \A i \in DOMAIN trades[o] :
    LET t == trades[o][i]
        m == order[Maker(o, t)]
    IN  /\ o = IF order[o].side = "Buy" THEN t.buy ELSE t.sell
        /\ m.side = Opposite(order[o].side)
        /\ t.price = m.price
        /\ order[o].type = "Limit" =>
             IF order[o].side = "Buy" THEN t.price <= order[o].price
                                      ELSE t.price >= order[o].price

(* One call serves the resting orders in price-time order: no trade of it  *)
(* is with an order that should have been served before an earlier one,    *)
(* whatever was cancelled or used up in between.                           *)
ServedInPriority ==
  \A o \in OrderId : \A i, j \in DOMAIN trades[o] :
    LET m == order[Maker(o, trades[o][i])]
        n == order[Maker(o, trades[o][j])]
    IN  i < j =>
          IF m.price = n.price THEN m.createdAt <= n.createdAt
          ELSE IF order[o].side = "Buy" THEN m.price < n.price
                                        ELSE m.price > n.price

(* The trade ID buyID-sellID, which consumers key trades by, is unique:    *)
(* two orders trade with each other at most once, in one call.             *)
TradeIdsUnique ==
  \A o, p \in OrderId : \A i \in DOMAIN trades[o], j \in DOMAIN trades[p] :
    /\ trades[o][i].buy = trades[p][j].buy
    /\ trades[o][i].sell = trades[p][j].sell
    => o = p /\ i = j

(* Filled and Cancelled are final, although a cancelled order stays in its *)
(* heap and fill overwrites the status of what it touches: neither the     *)
(* status nor the remaining quantity of such an order changes again.       *)
FinalStatusStays ==
  [][\A o \in OrderId :
       Placed(o) /\ order[o].status \in {"Filled", "Cancelled"} =>
         order'[o] = order[o]]_vars

(* The engine implements the order book that cancels at once.              *)
TermsOf(o) == [side |-> order[o].side, type |-> order[o].type,
               price |-> order[o].price, quantity |-> order[o].quantity,
               createdAt |-> order[o].createdAt]

Book == INSTANCE OrderBook WITH
  Terms <- Request,
  terms <- [o \in OrderId |-> TermsOf(o)],
  left  <- [o \in OrderId |-> order[o].remaining],
  live  <- [s \in Side |-> {o \in heaps[s] : ~Cancelled(o)}]

(* Lazy cancellation is not observable: each step of the engine is a step  *)
(* of OrderBook or leaves it unchanged.                                    *)
ImplementsOrderBook == Book!BookSpec

=============================================================================
