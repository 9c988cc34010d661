----------------------- MODULE MatchingEngine_proofs ------------------------
(***************************************************************************)
(* Theorems about the matching engine, for any set of orders, prices,      *)
(* quantities and time stamps: its types and its heaps, what its trades    *)
(* say, that a final order stays final, that calls come to an end, and     *)
(* that the engine implements the order book of OrderBook.                 *)
(***************************************************************************)
EXTENDS MatchingEngine, Sums, TLAPS

(* The assumption on the constants, element by element.                    *)
LEMMA ConstantTypes ==
  /\ NoOrder \notin OrderId
  /\ \A p \in Prices : p \in Nat
  /\ \A q \in Quantities : q \in Nat \ {0}
  /\ \A t \in Times : t \in Nat
BY EngineAssumption

(* A request becomes an order struct.                                      *)
LEMMA RequestType ==
  ASSUME NEW req \in Request
  PROVE  /\ req.side \in Side /\ req.type \in OrderType
         /\ req.price \in Nat /\ req.quantity \in Nat \ {0}
         /\ req.createdAt \in Nat
<1> DEFINE Limits  == [side : Side, type : {"Limit"}, price : Prices,
                       quantity : Quantities, createdAt : Times]
           Markets == [side : Side, type : {"Market"}, price : {0},
                       quantity : Quantities, createdAt : {0}]
<1>1. CASE req \in Limits
  <2>1. /\ req.side \in Side /\ req.type = "Limit" /\ req.price \in Prices
        /\ req.quantity \in Quantities /\ req.createdAt \in Times
    BY <1>1
  <2> QED BY <2>1, ConstantTypes DEF OrderType
<1>2. CASE req \in Markets
  <2>1. /\ req.side \in Side /\ req.type = "Market" /\ req.price = 0
        /\ req.quantity \in Quantities /\ req.createdAt = 0
    BY <1>2
  <2> QED BY <2>1, ConstantTypes DEF OrderType
<1> QED BY <1>1, <1>2 DEF Request

(* What fill does to a struct keeps it a struct.                           *)
LEMMA ReducedType ==
  ASSUME NEW rec \in Order, NEW qty \in 0 .. rec.remaining
  PROVE  /\ Reduced(rec, qty) \in Order
         /\ Reduced(rec, qty).remaining = rec.remaining - qty
         /\ Reduced(rec, qty).status = IF rec.remaining = qty
                                       THEN "Filled" ELSE "PartiallyFilled"
         /\ Reduced(rec, qty).side = rec.side
         /\ Reduced(rec, qty).type = rec.type
         /\ Reduced(rec, qty).price = rec.price
         /\ Reduced(rec, qty).quantity = rec.quantity
         /\ Reduced(rec, qty).createdAt = rec.createdAt
<1>1. rec.remaining - qty \in Nat
  BY DEF Order
<1>2. ASSUME NEW st \in OrderStatus,
             Reduced(rec, qty) = [rec EXCEPT !.remaining = rec.remaining - qty,
                                             !.status = st]
      PROVE  /\ Reduced(rec, qty) \in Order
             /\ Reduced(rec, qty).remaining = rec.remaining - qty
             /\ Reduced(rec, qty).status = st
             /\ Reduced(rec, qty).side = rec.side
             /\ Reduced(rec, qty).type = rec.type
             /\ Reduced(rec, qty).price = rec.price
             /\ Reduced(rec, qty).quantity = rec.quantity
             /\ Reduced(rec, qty).createdAt = rec.createdAt
  BY <1>1, <1>2 DEF Order
<1>3. CASE rec.remaining = qty
  <2>1. Reduced(rec, qty) = [rec EXCEPT !.remaining = rec.remaining - qty,
                                        !.status = "Filled"]
    BY <1>3, Zenon DEF Reduced
  <2> QED BY <1>2, <1>3, <2>1 DEF OrderStatus
<1>4. CASE rec.remaining # qty
  <2>1. Reduced(rec, qty) = [rec EXCEPT !.remaining = rec.remaining - qty,
                                        !.status = "PartiallyFilled"]
    BY <1>4, Zenon DEF Reduced
  <2> QED BY <1>2, <1>4, <2>1 DEF OrderStatus
<1> QED BY <1>3, <1>4

(* The quantity of a fill is the smaller of the two remainders.            *)
LEMMA MatchQtyBounds ==
  ASSUME TypeOK, NEW o \in OrderId, NEW best \in OrderId
  PROVE  /\ MatchQty(o, best) \in 0 .. order[o].remaining
         /\ MatchQty(o, best) \in 0 .. order[best].remaining
         /\ \/ MatchQty(o, best) = order[o].remaining
            \/ MatchQty(o, best) = order[best].remaining
BY DEF TypeOK, Order, MatchQty

LEMMA TypeInductive ==
  /\ Init => TypeOK
  /\ TypeOK /\ [Next]_vars => TypeOK'
<1>1. Init => TypeOK
  BY DEF Init, TypeOK, ZeroOrder, Order, Side, OrderType, OrderStatus
<1>2. TypeOK /\ [Next]_vars => TypeOK'
  <2> SUFFICES ASSUME TypeOK, [Next]_vars PROVE TypeOK'
    OBVIOUS
  <2>1. ASSUME NEW o \in OrderId, NEW req \in Request, PlaceOrder(o, req)
        PROVE  TypeOK'
    <3>1. [side |-> req.side, type |-> req.type, price |-> req.price,
           quantity |-> req.quantity, remaining |-> req.quantity,
           status |-> "Open", createdAt |-> req.createdAt] \in Order
      BY RequestType DEF Order, OrderStatus
    <3> QED BY <2>1, <3>1 DEF PlaceOrder, TypeOK
  <2>2. ASSUME NEW o \in OrderId, NEW best \in OrderId, DropCancelled(o, best)
        PROVE  TypeOK'
    BY <2>2 DEF DropCancelled, Pop, TypeOK
  <2>3. ASSUME NEW o \in OrderId, NEW best \in OrderId, Fill(o, best)
        PROVE  TypeOK'
    <3> DEFINE qty == MatchQty(o, best)
    <3>1. /\ Reduced(order[o], qty) \in Order
          /\ Reduced(order[best], qty) \in Order
      BY MatchQtyBounds, ReducedType DEF TypeOK
    <3>2. order' \in [OrderId -> Order]
      BY <2>3, <3>1 DEF Fill, TypeOK
    <3>3. TradeOf(o, best) \in Trade
      BY MatchQtyBounds DEF TradeOf, Trade, TypeOK, Order
    <3>4. trades' \in [OrderId -> Seq(Trade)]
      BY <2>3, <3>3 DEF Fill, TypeOK
    <3>5. heaps' \in [Side -> SUBSET OrderId] /\ taker' = taker
      BY <2>3 DEF Fill, Pop, TypeOK
    <3> QED BY <3>2, <3>4, <3>5 DEF TypeOK
  <2>4. ASSUME NEW o \in OrderId, Rest(o) PROVE TypeOK'
    BY <2>4 DEF Rest, TypeOK
  <2>5. ASSUME NEW o \in OrderId, CancelLeftover(o) PROVE TypeOK'
    BY <2>5 DEF CancelLeftover, TypeOK, Order, OrderStatus
  <2>6. ASSUME NEW o \in OrderId, ReturnFilled(o) PROVE TypeOK'
    BY <2>6 DEF ReturnFilled, TypeOK
  <2>7. ASSUME NEW o \in OrderId, CancelOrder(o) PROVE TypeOK'
    BY <2>7 DEF CancelOrder, TypeOK, Order, OrderStatus
  <2>8. CASE UNCHANGED vars
    BY <2>8 DEF vars, TypeOK
  <2> QED BY <2>1, <2>2, <2>3, <2>4, <2>5, <2>6, <2>7, <2>8 DEF Next, MatchStep
<1> QED BY <1>1, <1>2

(* Every order stays a well-formed struct: PlaceOrder, fill and            *)
(* CancelOrder keep quantities, sides and types in range.                  *)
THEOREM TypeCorrect == Spec => []TypeOK
BY TypeInductive, PTL DEF Spec

----------------------------------------------------------------------------
(* The invariant behind the safety properties.  Between two steps of a     *)
(* call the taker is a placed order in no heap; only then does pushing it  *)
(* keep the heaps sound.                                                   *)

TakerIsActive ==
  taker # NoOrder =>
    /\ Placed(taker)
    /\ order[taker].remaining <= order[taker].quantity
    /\ order[taker].status # "Cancelled"
    /\ order[taker].status = "Filled" => order[taker].remaining = 0

EngineInv == TypeOK /\ TakerIsActive /\ HeapsHoldRestingOrders /\ NoCross

(* A root has the best price of its heap.                                  *)
LEMMA RootHasBestPrice ==
  ASSUME TypeOK, HeapsHoldRestingOrders,
         NEW s \in Side, NEW r \in Roots(s), NEW p \in heaps[s]
  PROVE  /\ s = "Buy" => order[p].price <= order[r].price
         /\ s = "Sell" => order[r].price <= order[p].price
<1>1. r \in heaps[s] /\ ~Less(p, r)
  BY DEF Roots
<1>2. r \in OrderId /\ p \in OrderId
  BY <1>1 DEF TypeOK
<1>3. order[p].side = s /\ order[p].price \in Nat /\ order[r].price \in Nat
  BY <1>1, <1>2 DEF TypeOK, HeapsHoldRestingOrders, Order
<1> QED BY <1>1, <1>3 DEF Less

(* No step puts a used-up order, a market order or the taker in a heap.    *)
LEMMA HeapStep ==
  ASSUME TypeOK, TakerIsActive, HeapsHoldRestingOrders, TypeOK', Next
  PROVE  TakerIsActive' /\ HeapsHoldRestingOrders'
<1>1. ASSUME NEW o \in OrderId, NEW req \in Request, PlaceOrder(o, req)
      PROVE  TakerIsActive' /\ HeapsHoldRestingOrders'
  <2>1. \A s \in Side : o \notin heaps[s]
    BY <1>1 DEF PlaceOrder, Placed, HeapsHoldRestingOrders, TypeOK, Order
  <2>2. order'[o] = [side |-> req.side, type |-> req.type,
                     price |-> req.price, quantity |-> req.quantity,
                     remaining |-> req.quantity, status |-> "Open",
                     createdAt |-> req.createdAt]
    BY <1>1 DEF PlaceOrder, TypeOK
  <2>3. TakerIsActive'
    BY <1>1, <2>2, RequestType DEF PlaceOrder, TakerIsActive, Placed
  <2>4. HeapsHoldRestingOrders'
    BY <1>1, <2>1 DEF PlaceOrder, HeapsHoldRestingOrders, TypeOK
  <2> QED BY <2>3, <2>4
<1>2. ASSUME NEW o \in OrderId, NEW best \in OrderId, DropCancelled(o, best)
      PROVE  TakerIsActive' /\ HeapsHoldRestingOrders'
  BY <1>2 DEF DropCancelled, Pop, TakerIsActive, Placed,
              HeapsHoldRestingOrders, TypeOK
<1>3. ASSUME NEW o \in OrderId, NEW best \in OrderId, Fill(o, best)
      PROVE  TakerIsActive' /\ HeapsHoldRestingOrders'
  <2> DEFINE qty == MatchQty(o, best)
             s   == Opposite(order[o].side)
  <2>1. /\ taker = o /\ taker' = o /\ o # NoOrder
        /\ best \in heaps[s] /\ s \in Side
    BY <1>3, EngineAssumption
    DEF Fill, Fillable, Considers, Roots, Opposite, Side
  <2>2. o # best
    BY <2>1 DEF HeapsHoldRestingOrders
  <2>3. /\ order'[o] = Reduced(order[o], qty)
        /\ order'[best] = Reduced(order[best], qty)
        /\ \A p \in OrderId \ {o, best} : order'[p] = order[p]
    BY <1>3, <2>2 DEF Fill, TypeOK
  <2>4. /\ order[o] \in Order /\ order[best] \in Order
        /\ qty \in 0 .. order[o].remaining
        /\ qty \in 0 .. order[best].remaining
    BY MatchQtyBounds DEF TypeOK
  <2>5. TakerIsActive'
    <3>1. /\ order'[o].quantity = order[o].quantity
          /\ order'[o].remaining = order[o].remaining - qty
          /\ order'[o].status = IF order[o].remaining = qty
                                THEN "Filled" ELSE "PartiallyFilled"
      BY <2>3, <2>4, ReducedType
    <3> QED BY <2>1, <2>4, <3>1 DEF TakerIsActive, Placed, Order
  <2>6. ASSUME NEW z \in Side, NEW p \in heaps'[z]
        PROVE  /\ order'[p].side = z
               /\ order'[p].type = "Limit"
               /\ order'[p].remaining \in 1 .. order'[p].quantity
               /\ order'[p].status # "Filled"
               /\ p # taker'
    <3>1. p \in heaps[z] /\ p \in OrderId
      <4>1. \/ heaps' = heaps
            \/ heaps' = [heaps EXCEPT ![s] = heaps[s] \ {best}]
        BY <1>3 DEF Fill, Pop
      <4> QED BY <2>6, <4>1 DEF TypeOK
    <3>2. p # o
      BY <2>1, <3>1 DEF HeapsHoldRestingOrders
    <3>3. CASE p # best
      BY <2>1, <2>3, <3>1, <3>2, <3>3 DEF HeapsHoldRestingOrders
    <3>4. CASE p = best
      <4>1. z = s
        BY <2>1, <3>1, <3>4 DEF HeapsHoldRestingOrders
      <4>2. qty # order[best].remaining
        BY <1>3, <2>6, <3>4, <4>1, <2>1 DEF Fill, Pop, Exhausts, TypeOK
      <4>3. /\ order'[p].side = order[p].side
            /\ order'[p].type = order[p].type
            /\ order'[p].quantity = order[p].quantity
            /\ order'[p].remaining = order[p].remaining - qty
            /\ order'[p].status = "PartiallyFilled"
        BY <2>3, <2>4, <3>4, <4>2, ReducedType
      <4>4. /\ order[p].side = z /\ order[p].type = "Limit"
            /\ order[p].remaining \in 1 .. order[p].quantity
        BY <3>1 DEF HeapsHoldRestingOrders
      <4> QED BY <2>1, <2>4, <3>2, <3>4, <4>2, <4>3, <4>4 DEF Order
    <3> QED BY <3>3, <3>4
  <2> QED BY <2>5, <2>6 DEF HeapsHoldRestingOrders
<1>4. ASSUME NEW o \in OrderId, Rest(o)
      PROVE  TakerIsActive' /\ HeapsHoldRestingOrders'
  <2>1. /\ taker = o /\ taker' = NoOrder /\ o # NoOrder /\ order' = order
        /\ order[o].type = "Limit" /\ order[o].remaining > 0
    BY <1>4, EngineAssumption DEF Rest, NoMatchLeft
  <2>2. /\ order[o].status # "Filled"
        /\ order[o].remaining \in 1 .. order[o].quantity
    BY <2>1 DEF TakerIsActive, TypeOK, Order
  <2>3. ASSUME NEW z \in Side, NEW p \in heaps'[z]
        PROVE  /\ p \in OrderId
               /\ p \in heaps[z] \/ (p = o /\ z = order[o].side)
    BY <1>4, <2>3 DEF Rest, TypeOK, Order
  <2> QED BY <2>1, <2>2, <2>3, EngineAssumption
          DEF TakerIsActive, HeapsHoldRestingOrders
<1>5. ASSUME NEW o \in OrderId, CancelLeftover(o)
      PROVE  TakerIsActive' /\ HeapsHoldRestingOrders'
  <2>1. /\ taker = o /\ taker' = NoOrder /\ heaps' = heaps
        /\ \A p \in OrderId \ {o} : order'[p] = order[p]
    BY <1>5 DEF CancelLeftover, NoMatchLeft, TypeOK
  <2>2. \A s \in Side : \A p \in heaps[s] : p \in OrderId \ {o}
    BY <2>1 DEF HeapsHoldRestingOrders, TypeOK
  <2> QED BY <2>1, <2>2, EngineAssumption
          DEF TakerIsActive, HeapsHoldRestingOrders
<1>6. ASSUME NEW o \in OrderId, ReturnFilled(o)
      PROVE  TakerIsActive' /\ HeapsHoldRestingOrders'
  BY <1>6, EngineAssumption
  DEF ReturnFilled, TakerIsActive, HeapsHoldRestingOrders, TypeOK
<1>7. ASSUME NEW o \in OrderId, CancelOrder(o)
      PROVE  TakerIsActive' /\ HeapsHoldRestingOrders'
  <2>1. \A p \in OrderId :
          /\ order'[p].side = order[p].side
          /\ order'[p].type = order[p].type
          /\ order'[p].remaining = order[p].remaining
          /\ order'[p].quantity = order[p].quantity
          /\ order'[p].status \in {order[p].status, "Cancelled"}
    BY <1>7 DEF CancelOrder, TypeOK, Order
  <2>2. heaps' = heaps /\ taker' = taker /\ taker = NoOrder
    BY <1>7 DEF CancelOrder
  <2>3. TakerIsActive'
    BY <2>2 DEF TakerIsActive
  <2>4. HeapsHoldRestingOrders'
    BY ZenonT(30), <2>1, <2>2 DEF HeapsHoldRestingOrders, TypeOK
  <2> QED BY <2>3, <2>4
<1> QED BY <1>1, <1>2, <1>3, <1>4, <1>5, <1>6, <1>7 DEF Next, MatchStep

(* No step crosses the book.  Only Rest adds to a heap, and it does so     *)
(* when the other heap is empty or its root, which has the best price of   *)
(* all, is beyond the limit.                                               *)
LEMMA NoCrossStep ==
  ASSUME TypeOK, TakerIsActive, HeapsHoldRestingOrders, NoCross, TypeOK', Next
  PROVE  NoCross'
<1>1. ASSUME NEW o \in OrderId, NEW req \in Request, PlaceOrder(o, req)
      PROVE  NoCross'
  <2>1. \A s \in Side : o \notin heaps[s]
    BY <1>1 DEF PlaceOrder, Placed, HeapsHoldRestingOrders, TypeOK, Order
  <2> QED BY <1>1, <2>1 DEF PlaceOrder, NoCross, TypeOK, Side
<1>2. ASSUME \A s \in Side : heaps'[s] \subseteq heaps[s],
             \A p \in OrderId : order'[p].price = order[p].price
      PROVE  NoCross'
  BY <1>2 DEF NoCross, TypeOK, Side
<1>3. ASSUME NEW o \in OrderId, NEW best \in OrderId, DropCancelled(o, best)
      PROVE  NoCross'
  BY <1>2, <1>3 DEF DropCancelled, Pop, TypeOK
<1>4. ASSUME NEW o \in OrderId, NEW best \in OrderId, Fill(o, best)
      PROVE  NoCross'
  <2> DEFINE qty == MatchQty(o, best)
  <2>1. /\ order[o] \in Order /\ order[best] \in Order
        /\ qty \in 0 .. order[o].remaining
        /\ qty \in 0 .. order[best].remaining
    BY MatchQtyBounds DEF TypeOK
  <2>2. /\ Reduced(order[o], qty).price = order[o].price
        /\ Reduced(order[best], qty).price = order[best].price
    BY <2>1, ReducedType
  <2>3. \A p \in OrderId : order'[p].price = order[p].price
    <3>1. order' = [order EXCEPT ![o] = Reduced(order[o], qty),
                                 ![best] = Reduced(@, qty)]
      BY <1>4 DEF Fill
    <3>2. CASE o = best
      BY <2>1, <2>2, <3>1, <3>2, <1>4 DEF Fill, Fillable, Considers, Roots,
         HeapsHoldRestingOrders, Opposite, Side
    <3>3. CASE o # best
      BY <2>2, <3>1, <3>3 DEF TypeOK
    <3> QED BY <3>2, <3>3
  <2>4. \A s \in Side : heaps'[s] \subseteq heaps[s]
    <3>1. \/ heaps' = heaps
          \/ heaps' = [heaps EXCEPT ![Opposite(order[o].side)] = @ \ {best}]
      BY <1>4 DEF Fill, Pop
    <3> QED BY <3>1 DEF TypeOK
  <2> QED BY <1>2, <2>3, <2>4
<1>5. ASSUME NEW o \in OrderId, Rest(o) PROVE NoCross'
  <2> DEFINE s == Opposite(order[o].side)
  <2>1. /\ order[o] \in Order /\ s \in Side /\ order' = order
        /\ order[o].type = "Limit"
        /\ heaps' = [heaps EXCEPT ![order[o].side] = @ \cup {o}]
    BY <1>5 DEF Rest, TypeOK, Opposite, Side
  <2>2. \A p \in heaps[s] : IF s = "Sell" THEN order[o].price < order[p].price
                                         ELSE order[p].price < order[o].price
    <3>1. CASE heaps[s] = {}
      BY <3>1
    <3>2. CASE \E best \in Roots(s) : ~Accepts(o, best)
      <4>1. PICK best \in Roots(s) : ~Accepts(o, best)
        BY <3>2
      <4>2. best \in OrderId
        BY <2>1, <4>1 DEF Roots, TypeOK
      <4>3. IF s = "Sell" THEN order[o].price < order[best].price
                          ELSE order[best].price < order[o].price
        BY <2>1, <4>1, <4>2 DEF Accepts, Opposite, Side, TypeOK, Order
      <4>4. ASSUME NEW p \in heaps[s]
            PROVE  /\ s = "Buy" => order[p].price <= order[best].price
                   /\ s = "Sell" => order[best].price <= order[p].price
        BY <2>1, <4>1, RootHasBestPrice
      <4>5. \A p \in heaps[s] : order[p].price \in Nat
        BY <2>1 DEF TypeOK, Order
      <4> QED BY SMTT(30), <2>1, <4>2, <4>3, <4>4, <4>5 DEF TypeOK, Order, Side
    <3> QED BY <1>5, <3>1, <3>2 DEF Rest, NoMatchLeft
  <2>3. CASE order[o].side = "Buy"
    BY <2>1, <2>2, <2>3 DEF NoCross, TypeOK, Opposite, Side
  <2>4. CASE order[o].side = "Sell"
    BY <2>1, <2>2, <2>4 DEF NoCross, TypeOK, Opposite, Side
  <2> QED BY <2>1, <2>3, <2>4 DEF Order, Side
<1>6. ASSUME NEW o \in OrderId, CancelLeftover(o) PROVE NoCross'
  BY <1>2, <1>6 DEF CancelLeftover, TypeOK, Order
<1>7. ASSUME NEW o \in OrderId, ReturnFilled(o) PROVE NoCross'
  BY <1>2, <1>7 DEF ReturnFilled
<1>8. ASSUME NEW o \in OrderId, CancelOrder(o) PROVE NoCross'
  BY <1>2, <1>8 DEF CancelOrder, TypeOK, Order
<1> QED BY <1>1, <1>3, <1>4, <1>5, <1>6, <1>7, <1>8 DEF Next, MatchStep

LEMMA EngineInductive ==
  /\ Init => EngineInv
  /\ EngineInv /\ [Next]_vars => EngineInv'
<1>1. Init => TakerIsActive /\ HeapsHoldRestingOrders /\ NoCross
  BY DEF Init, TakerIsActive, HeapsHoldRestingOrders, NoCross, Side
<1>2. TypeOK /\ TypeOK' /\ TakerIsActive /\ HeapsHoldRestingOrders /\ NoCross
      /\ [Next]_vars
      => (TakerIsActive /\ HeapsHoldRestingOrders /\ NoCross)'
  <2> SUFFICES ASSUME TypeOK, TypeOK', TakerIsActive, HeapsHoldRestingOrders,
                      NoCross, [Next]_vars
               PROVE  (TakerIsActive /\ HeapsHoldRestingOrders /\ NoCross)'
    OBVIOUS
  <2>1. CASE Next
    BY <2>1, HeapStep, NoCrossStep
  <2>2. CASE UNCHANGED vars
    BY <2>2 DEF vars, TakerIsActive, Placed, HeapsHoldRestingOrders, NoCross
  <2> QED BY <2>1, <2>2
<1> QED BY <1>1, <1>2, TypeInductive DEF EngineInv

(* The invariant holds in every state.                                     *)
THEOREM EngineInvariant == Spec => []EngineInv
BY EngineInductive, PTL DEF Spec

(* The book is never crossed.                                              *)
THEOREM BookNeverCrossed == Spec => []NoCross
BY EngineInvariant, PTL DEF EngineInv

(* Heaps hold nothing but unfilled limit orders of their side.             *)
THEOREM HeapsSound == Spec => []HeapsHoldRestingOrders
BY EngineInvariant, PTL DEF EngineInv

----------------------------------------------------------------------------
(* What the engine's trades say, and final orders.                         *)

(* A fill, seen on the order structs: who is filled, and how it changes.   *)
LEMMA FillFacts ==
  ASSUME EngineInv, NEW o \in OrderId, NEW best \in OrderId, Fill(o, best)
  PROVE  /\ taker = o /\ o # best
         /\ best \in heaps[Opposite(order[o].side)]
         /\ Opposite(order[o].side) \in Side
         /\ order[best].side = Opposite(order[o].side)
         /\ order[o].side # order[best].side
         /\ order[o].remaining > 0 /\ order[best].remaining > 0
         /\ order'[o] = Reduced(order[o], MatchQty(o, best))
         /\ order'[best] = Reduced(order[best], MatchQty(o, best))
         /\ \A p \in OrderId \ {o, best} : order'[p] = order[p]
         /\ order'[o].remaining = 0 \/ order'[best].remaining = 0
         /\ MatchQty(o, best) \in 0 .. order[o].remaining
         /\ MatchQty(o, best) \in 0 .. order[best].remaining
<1> DEFINE s == Opposite(order[o].side)
<1>1. /\ TypeOK /\ HeapsHoldRestingOrders
      /\ order[o] \in Order /\ order[best] \in Order
  BY DEF EngineInv, TypeOK
<1>2. /\ taker = o /\ best \in heaps[s] /\ s \in Side
      /\ s # order[o].side /\ order[o].remaining > 0
  BY <1>1 DEF Fill, Fillable, Considers, Roots, Opposite, Side, Order
<1>3. o # best /\ order[best].side = s /\ order[best].remaining > 0
  BY <1>1, <1>2 DEF HeapsHoldRestingOrders, Order
<1>4. /\ order'[o] = Reduced(order[o], MatchQty(o, best))
      /\ order'[best] = Reduced(order[best], MatchQty(o, best))
      /\ \A p \in OrderId \ {o, best} : order'[p] = order[p]
  BY <1>1, <1>3 DEF Fill, TypeOK
<1>5. /\ MatchQty(o, best) \in 0 .. order[o].remaining
      /\ MatchQty(o, best) \in 0 .. order[best].remaining
      /\ \/ MatchQty(o, best) = order[o].remaining
         \/ MatchQty(o, best) = order[best].remaining
  BY <1>1, MatchQtyBounds
<1>6. /\ order'[o].remaining = order[o].remaining - MatchQty(o, best)
      /\ order'[best].remaining = order[best].remaining - MatchQty(o, best)
  BY <1>1, <1>4, <1>5, ReducedType
<1>7. order'[o].remaining = 0 \/ order'[best].remaining = 0
  BY <1>1, <1>5, <1>6 DEF Order
<1> QED BY <1>2, <1>3, <1>4, <1>5, <1>7

(* The terms of an order that has been placed never change, and an order   *)
(* that is used up stays used up.                                          *)
LEMMA TermsStay ==
  ASSUME EngineInv, Next, NEW p \in OrderId, Placed(p)
  PROVE  /\ order'[p].side = order[p].side
         /\ order'[p].type = order[p].type
         /\ order'[p].price = order[p].price
         /\ order'[p].quantity = order[p].quantity
         /\ order'[p].createdAt = order[p].createdAt
         /\ order[p].remaining = 0 => order'[p].remaining = 0
<1> DEFINE Kept == /\ order'[p].side = order[p].side
                   /\ order'[p].type = order[p].type
                   /\ order'[p].price = order[p].price
                   /\ order'[p].quantity = order[p].quantity
                   /\ order'[p].createdAt = order[p].createdAt
                   /\ order[p].remaining = 0 => order'[p].remaining = 0
<1>1. TypeOK /\ order[p] \in Order
  BY DEF EngineInv, TypeOK
<1>2. CASE order'[p] = order[p]
  BY <1>2
<1>3. ASSUME NEW o \in OrderId, NEW req \in Request, PlaceOrder(o, req)
      PROVE  order'[p] = order[p]
  BY <1>1, <1>3 DEF PlaceOrder, TypeOK
<1>4. ASSUME NEW o \in OrderId, NEW best \in OrderId, Fill(o, best)
      PROVE  Kept
  <2>1. CASE p \notin {o, best}
    BY <1>4, <2>1, FillFacts
  <2>2. CASE p \in {o, best}
    <3>1. /\ order'[p] = Reduced(order[p], MatchQty(o, best))
          /\ MatchQty(o, best) \in 0 .. order[p].remaining
          /\ order[p].remaining > 0
      BY <1>4, <2>2, FillFacts
    <3> QED BY <1>1, <3>1, ReducedType
  <2> QED BY <2>1, <2>2
<1>5. ASSUME NEW o \in OrderId, CancelLeftover(o) \/ CancelOrder(o)
      PROVE  Kept
  <2>1. order' = [order EXCEPT ![o] = [order[o] EXCEPT !.status = "Cancelled"]]
    BY <1>5 DEF CancelLeftover, CancelOrder
  <2>2. CASE p # o
    BY <1>1, <2>1, <2>2 DEF TypeOK
  <2>3. CASE p = o
    <3>1. order'[p] = [order[p] EXCEPT !.status = "Cancelled"]
      BY <1>1, <2>1, <2>3 DEF TypeOK
    <3> QED BY <1>1, <3>1 DEF Order
  <2> QED BY <2>2, <2>3
<1>6. ASSUME NEW o \in OrderId, NEW best \in OrderId,
             DropCancelled(o, best) \/ Rest(o) \/ ReturnFilled(o)
      PROVE  order'[p] = order[p]
  BY <1>6 DEF DropCancelled, Rest, ReturnFilled
<1> QED BY <1>2, <1>3, <1>4, <1>5, <1>6 DEF Next, MatchStep

----------------------------------------------------------------------------
(* A step leaves an order alone whose status is final.                     *)
LEMMA FinalStep ==
  ASSUME EngineInv, Next, NEW p \in OrderId, Placed(p),
         order[p].status \in {"Filled", "Cancelled"}
  PROVE  order'[p] = order[p]
<1>1. TypeOK /\ TakerIsActive /\ HeapsHoldRestingOrders /\ order[p] \in Order
  BY DEF EngineInv, TypeOK
<1>2. taker = p => order[p].remaining = 0
  BY <1>1, EngineAssumption DEF TakerIsActive
<1>3. ASSUME NEW o \in OrderId, NEW req \in Request, PlaceOrder(o, req)
      PROVE  order'[p] = order[p]
  BY <1>1, <1>3 DEF PlaceOrder, TypeOK
<1>4. ASSUME NEW o \in OrderId, NEW best \in OrderId, Fill(o, best)
      PROVE  order'[p] = order[p]
  <2>1. p # o
    BY <1>1, <1>2, <1>4, FillFacts DEF Order
  <2>2. p # best
    <3>1. order[best].status # "Filled"
      BY <1>1, <1>4, FillFacts DEF HeapsHoldRestingOrders
    <3>2. order[best].status # "Cancelled"
      BY <1>4 DEF Fill, Fillable, Cancelled
    <3> QED BY <3>1, <3>2
  <2> QED BY <1>4, <2>1, <2>2, FillFacts
<1>5. ASSUME NEW o \in OrderId, CancelLeftover(o)
      PROVE  order'[p] = order[p]
  <2>1. p # o
    BY <1>1, <1>2, <1>5 DEF CancelLeftover, NoMatchLeft, Order
  <2> QED BY <1>1, <1>5, <2>1 DEF CancelLeftover, TypeOK
<1>6. ASSUME NEW o \in OrderId, CancelOrder(o)
      PROVE  order'[p] = order[p]
  <2>1. CASE p # o
    BY <1>1, <1>6, <2>1 DEF CancelOrder, TypeOK
  <2>2. CASE p = o
    <3>1. order[p].status = "Cancelled"
      BY <1>1, <1>6, <2>2 DEF CancelOrder, HeapsHoldRestingOrders, Side
    <3>2. order'[p] = [order[p] EXCEPT !.status = "Cancelled"]
      BY <1>1, <1>6, <2>2 DEF CancelOrder, TypeOK
    <3> QED BY <1>1, <3>1, <3>2 DEF Order
  <2> QED BY <2>1, <2>2
<1>7. ASSUME NEW o \in OrderId, NEW best \in OrderId,
             DropCancelled(o, best) \/ Rest(o) \/ ReturnFilled(o)
      PROVE  order'[p] = order[p]
  BY <1>7 DEF DropCancelled, Rest, ReturnFilled
<1> QED BY <1>3, <1>4, <1>5, <1>6, <1>7 DEF Next, MatchStep

(* Filled and Cancelled are final, for every engine.                       *)
THEOREM FinalIsFinal == Spec => FinalStatusStays
<1>1. EngineInv /\ [Next]_vars =>
        [\A o \in OrderId :
           Placed(o) /\ order[o].status \in {"Filled", "Cancelled"} =>
             order'[o] = order[o]]_vars
  BY FinalStep
<1> QED BY <1>1, EngineInvariant, PTL DEF Spec, FinalStatusStays

----------------------------------------------------------------------------
(* What a step adds to the trades: nothing, or one trade of the taker with *)
(* the order it is filled against.                                         *)
LEMMA TradesGrow ==
  ASSUME EngineInv, Next
  PROVE  \/ trades' = trades
         \/ \E o, best \in OrderId :
              /\ Fill(o, best)
              /\ trades' = [trades EXCEPT ![o] = Append(@, TradeOf(o, best))]
              /\ trades'[o] = Append(trades[o], TradeOf(o, best))
              /\ \A p \in OrderId \ {o} : trades'[p] = trades[p]
<1>1. ASSUME NEW o \in OrderId, NEW best \in OrderId, Fill(o, best)
      PROVE  /\ trades' = [trades EXCEPT ![o] = Append(@, TradeOf(o, best))]
             /\ trades'[o] = Append(trades[o], TradeOf(o, best))
             /\ \A p \in OrderId \ {o} : trades'[p] = trades[p]
  BY <1>1 DEF Fill, EngineInv, TypeOK
<1>2. ASSUME NEW o \in OrderId, NEW req \in Request, PlaceOrder(o, req)
      PROVE  trades' = trades
  BY <1>2 DEF PlaceOrder
<1>3. ASSUME NEW o \in OrderId, NEW best \in OrderId, DropCancelled(o, best)
      PROVE  trades' = trades
  BY <1>3 DEF DropCancelled
<1>4. ASSUME NEW o \in OrderId,
             Rest(o) \/ CancelLeftover(o) \/ ReturnFilled(o) \/ CancelOrder(o)
      PROVE  trades' = trades
  BY <1>4 DEF Rest, CancelLeftover, ReturnFilled, CancelOrder
<1>5. CASE \E o, best \in OrderId : Fill(o, best)
  <2>1. PICK o \in OrderId, best \in OrderId : Fill(o, best)
    BY <1>5
  <2> QED BY <1>1, <2>1
<1>6. CASE ~ \E o, best \in OrderId : Fill(o, best)
  BY <1>2, <1>3, <1>4, <1>6 DEF Next, MatchStep
<1> QED BY <1>5, <1>6

(* Each element of a slice that grew by one is an old one or the new one.  *)
LEMMA AppendElements ==
  ASSUME NEW S, NEW seq \in Seq(S), NEW x \in S,
         NEW i \in DOMAIN Append(seq, x)
  PROVE  \/ i \in DOMAIN seq /\ i < Len(seq) + 1 /\ Append(seq, x)[i] = seq[i]
         \/ i = Len(seq) + 1 /\ Append(seq, x)[i] = x
OBVIOUS

(* Both parties of a trade have been placed, one of them is the taker of   *)
(* the call the trade belongs to, and one of the two is used up: min took  *)
(* all that one of them had left.                                          *)
Between(t, o, m) == IF order[o].side = "Buy" THEN t.buy = o /\ t.sell = m
                                             ELSE t.buy = m /\ t.sell = o

TradeFacts(o, t) ==
  \E m \in OrderId :
    /\ Between(t, o, m)
    /\ Placed(o) /\ Placed(m)
    /\ order[m].side = Opposite(order[o].side)
    /\ t.price = order[m].price
    /\ order[o].type = "Limit" =>
         IF order[o].side = "Buy" THEN t.price <= order[o].price
                                  ELSE t.price >= order[o].price
    /\ order[o].remaining = 0 \/ order[m].remaining = 0

TradesInv == \A o \in OrderId : \A i \in DOMAIN trades[o] :
               TradeFacts(o, trades[o][i])

(* The facts about a trade outlive every later step.                       *)
LEMMA TradeFactsStay ==
  ASSUME EngineInv, Next, NEW o \in OrderId, NEW t, TradeFacts(o, t)
  PROVE  TradeFacts(o, t)'
<1>1. PICK m \in OrderId :
        /\ Between(t, o, m)
        /\ Placed(o) /\ Placed(m)
        /\ order[m].side = Opposite(order[o].side)
        /\ t.price = order[m].price
        /\ order[o].type = "Limit" =>
             IF order[o].side = "Buy" THEN t.price <= order[o].price
                                      ELSE t.price >= order[o].price
        /\ order[o].remaining = 0 \/ order[m].remaining = 0
  BY DEF TradeFacts
<1>2. /\ order'[o].side = order[o].side /\ order'[m].side = order[m].side
      /\ order'[o].type = order[o].type
      /\ order'[o].price = order[o].price /\ order'[m].price = order[m].price
      /\ order'[o].quantity = order[o].quantity
      /\ order'[m].quantity = order[m].quantity
      /\ order'[o].remaining = 0 \/ order'[m].remaining = 0
  BY <1>1, TermsStay
<1> QED BY <1>1, <1>2 DEF TradeFacts, Between, Placed

(* The trade of a fill has them.                                           *)
LEMMA TradeFactsOfFill ==
  ASSUME EngineInv, Next, NEW o \in OrderId, NEW best \in OrderId,
         Fill(o, best), NEW t, t = TradeOf(o, best)
  PROVE  TradeFacts(o, t)'
<1>1. TypeOK /\ TakerIsActive /\ HeapsHoldRestingOrders
  BY DEF EngineInv
<1>2. /\ taker = o /\ order[best].side = Opposite(order[o].side)
      /\ order'[o].remaining = 0 \/ order'[best].remaining = 0
      /\ order[best].remaining > 0
      /\ best \in heaps[Opposite(order[o].side)]
      /\ Opposite(order[o].side) \in Side
  BY FillFacts
<1>3. Placed(o) /\ Placed(best)
  BY <1>1, <1>2, EngineAssumption
  DEF TakerIsActive, HeapsHoldRestingOrders, Placed, TypeOK, Order
<1>4. Between(t, o, best) /\ t.price = order[best].price
  BY DEF Between, TradeOf
<1>5. order[o].type = "Limit" =>
        IF order[o].side = "Buy" THEN order[best].price <= order[o].price
                                 ELSE order[best].price >= order[o].price
  BY <1>1 DEF Fill, Fillable, Accepts, TypeOK, Order, Side
<1>6. /\ order'[o].side = order[o].side /\ order'[best].side = order[best].side
      /\ order'[o].type = order[o].type
      /\ order'[o].price = order[o].price
      /\ order'[best].price = order[best].price
      /\ order'[o].quantity = order[o].quantity
      /\ order'[best].quantity = order[best].quantity
  BY <1>3, TermsStay
<1> QED BY <1>2, <1>3, <1>4, <1>5, <1>6 DEF TradeFacts, Between, Placed

(* TradesInv holds in every state.                                         *)
LEMMA TradesInductive ==
  /\ Init => TradesInv
  /\ EngineInv /\ EngineInv' /\ TradesInv /\ [Next]_vars => TradesInv'
<1>1. Init => TradesInv
  BY DEF Init, TradesInv
<1>2. EngineInv /\ EngineInv' /\ TradesInv /\ [Next]_vars => TradesInv'
  <2> SUFFICES ASSUME EngineInv, EngineInv', TradesInv, [Next]_vars,
                      NEW o \in OrderId, NEW i \in DOMAIN trades'[o],
                      NEW t, t = trades'[o][i]
               PROVE  TradeFacts(o, t)'
    BY DEF TradesInv
  <2>1. CASE UNCHANGED vars
    BY <2>1 DEF vars, TradesInv, TradeFacts, Between, Placed
  <2>2. CASE Next
    <3>1. ASSUME i \in DOMAIN trades[o], t = trades[o][i]
          PROVE  TradeFacts(o, t)'
      BY <2>2, <3>1, TradeFactsStay DEF TradesInv
    <3>2. CASE trades' = trades
      BY <3>1, <3>2
    <3>3. ASSUME NEW x \in OrderId, NEW best \in OrderId, Fill(x, best),
                 trades'[x] = Append(trades[x], TradeOf(x, best)),
                 \A p \in OrderId \ {x} : trades'[p] = trades[p]
          PROVE  TradeFacts(o, t)'
      <4>1. CASE o # x
        BY <3>1, <3>3, <4>1
      <4>2. CASE o = x
        <5>1. trades[o] \in Seq(Trade) /\ TradeOf(x, best) \in Trade
          BY <3>3, MatchQtyBounds
          DEF EngineInv, TypeOK, TradeOf, Trade, Order
        <5>2. \/ i \in DOMAIN trades[o] /\ t = trades[o][i]
              \/ t = TradeOf(x, best)
          BY <3>3, <4>2, <5>1, AppendElements
        <5> QED BY <2>2, <3>1, <3>3, <4>2, <5>2, TradeFactsOfFill
      <4> QED BY <4>1, <4>2
    <3> QED BY <2>2, <3>2, <3>3, TradesGrow
  <2> QED BY <2>1, <2>2
<1> QED BY <1>1, <1>2

LEMMA TradesInvariant == Spec => []TradesInv
BY TradesInductive, EngineInvariant, PTL DEF Spec

(* Every trade is within the taker's limit, at the price of an order of    *)
(* the other side.                                                         *)
THEOREM TradesFair == Spec => []TradesWithinLimits
<1>1. EngineInv /\ TradesInv => TradesWithinLimits
  <2> SUFFICES ASSUME EngineInv, TradesInv, NEW o \in OrderId,
                      NEW i \in DOMAIN trades[o], NEW t, t = trades[o][i]
               PROVE  LET m == order[Maker(o, t)]
                      IN  /\ o = IF order[o].side = "Buy" THEN t.buy ELSE t.sell
                          /\ m.side = Opposite(order[o].side)
                          /\ t.price = m.price
                          /\ order[o].type = "Limit" =>
                               IF order[o].side = "Buy"
                               THEN t.price <= order[o].price
                               ELSE t.price >= order[o].price
    BY DEF TradesWithinLimits
  <2>1. PICK m \in OrderId :
          /\ Between(t, o, m)
          /\ order[m].side = Opposite(order[o].side)
          /\ t.price = order[m].price
          /\ order[o].type = "Limit" =>
               IF order[o].side = "Buy" THEN t.price <= order[o].price
                                        ELSE t.price >= order[o].price
    BY DEF TradesInv, TradeFacts
  <2>2. order[o].side \in Side
    BY DEF EngineInv, TypeOK, Order
  <2>3. Maker(o, t) = m
    BY <2>1, <2>2 DEF Maker, Between, Opposite, Side
  <2> QED BY <2>1, <2>3 DEF Between
<1> QED BY <1>1, EngineInvariant, TradesInvariant, PTL
----------------------------------------------------------------------------
(* An element of a slice after a fill is an old one, or the new trade.     *)
LEMMA OldOrNew ==
  ASSUME EngineInv, NEW x \in OrderId, NEW best \in OrderId, Fill(x, best),
         NEW o \in OrderId, NEW i \in DOMAIN trades'[o]
  PROVE  \/ i \in DOMAIN trades[o] /\ trades'[o][i] = trades[o][i]
         \/ /\ o = x /\ i = Len(trades[x]) + 1
            /\ trades'[o][i] = TradeOf(x, best)
<1>1. /\ trades'[x] = Append(trades[x], TradeOf(x, best))
      /\ \A p \in OrderId \ {x} : trades'[p] = trades[p]
  BY DEF Fill, EngineInv, TypeOK
<1>2. trades[x] \in Seq(Trade) /\ TradeOf(x, best) \in Trade
  BY MatchQtyBounds DEF EngineInv, TypeOK, TradeOf, Trade, Order
<1>3. CASE o # x
  BY <1>1, <1>3
<1>4. CASE o = x
  BY <1>1, <1>2, <1>4, AppendElements
<1> QED BY <1>3, <1>4

(* A fill is between two orders that have not traded with each other: of   *)
(* two that have, one is used up.                                          *)
LEMMA FillIsFirst ==
  ASSUME EngineInv, TradesInv,
         NEW x \in OrderId, NEW best \in OrderId, Fill(x, best),
         NEW o \in OrderId, NEW i \in DOMAIN trades[o],
         NEW t, t = trades[o][i], NEW u, u = TradeOf(x, best)
  PROVE  ~(t.buy = u.buy /\ t.sell = u.sell)
<1>1. PICK m \in OrderId :
        /\ Between(t, o, m)
        /\ order[o].remaining = 0 \/ order[m].remaining = 0
  BY DEF TradesInv, TradeFacts
<1>2. order[x].remaining > 0 /\ order[best].remaining > 0
  BY FillFacts
<1>3. {u.buy, u.sell} = {x, best} /\ {t.buy, t.sell} = {o, m}
  BY <1>1 DEF TradeOf, Between
<1>4. SUFFICES ASSUME t.buy = u.buy, t.sell = u.sell PROVE FALSE
  OBVIOUS
<1>5. o \in {x, best} /\ m \in {x, best}
  BY <1>3, <1>4
<1>6. order[o].remaining > 0 /\ order[m].remaining > 0
  BY <1>2, <1>5
<1> QED BY <1>1, <1>6

(* Trade IDs are unique.                                                   *)
THEOREM IdsNeverRepeat == Spec => []TradeIdsUnique
<1>1. Init => TradeIdsUnique
  BY DEF Init, TradeIdsUnique
<1>2. EngineInv /\ TradesInv /\ TradeIdsUnique /\ [Next]_vars
      => TradeIdsUnique'
  <2> SUFFICES ASSUME EngineInv, TradesInv, TradeIdsUnique, [Next]_vars
               PROVE  TradeIdsUnique'
    OBVIOUS
  <2>1. CASE trades' = trades
    BY <2>1 DEF TradeIdsUnique
  <2>2. ASSUME NEW x \in OrderId, NEW best \in OrderId, Fill(x, best),
               NEW o \in OrderId, NEW p \in OrderId,
               NEW i \in DOMAIN trades'[o], NEW j \in DOMAIN trades'[p],
               trades'[o][i].buy = trades'[p][j].buy,
               trades'[o][i].sell = trades'[p][j].sell
        PROVE  o = p /\ i = j
    <3> DEFINE Old(q, k) == /\ k \in DOMAIN trades[q]
                            /\ trades'[q][k] = trades[q][k]
               Fresh(q, k) == /\ q = x /\ k = Len(trades[x]) + 1
                              /\ trades'[q][k] = TradeOf(x, best)
    <3>1. (Old(o, i) \/ Fresh(o, i)) /\ (Old(p, j) \/ Fresh(p, j))
      BY <2>2, OldOrNew
    <3>2. CASE Old(o, i) /\ Old(p, j)
      BY <2>2, <3>2 DEF TradeIdsUnique
    <3>3. CASE Fresh(o, i) /\ Fresh(p, j)
      BY <3>3
    <3>4. CASE Old(o, i) /\ Fresh(p, j)
      BY <2>2, <3>4, FillIsFirst
    <3>5. CASE Fresh(o, i) /\ Old(p, j)
      BY <2>2, <3>5, FillIsFirst
    <3> QED BY <3>1, <3>2, <3>3, <3>4, <3>5
  <2>3. CASE \E x, best \in OrderId : Fill(x, best)
    BY <2>2, <2>3 DEF TradeIdsUnique
  <2>4. CASE UNCHANGED vars
    BY <2>1, <2>4 DEF vars
  <2> QED BY <2>1, <2>3, <2>4, TradesGrow
<1> QED BY <1>1, <1>2, EngineInvariant, TradesInvariant, PTL DEF Spec

----------------------------------------------------------------------------
(* While a call runs, no order left in the heap it takes from should have  *)
(* been served before one it has already been filled against.              *)
PriorityInv ==
  taker # NoOrder =>
    \A i \in DOMAIN trades[taker] :
      \A p \in heaps[Opposite(order[taker].side)] :
        ~Less(p, Maker(taker, trades[taker][i]))

(* The makers of an order's trades: placed orders of the other side.       *)
LEMMA MakerFacts ==
  ASSUME EngineInv, TradesInv, NEW o \in OrderId, NEW i \in DOMAIN trades[o],
         NEW m, m = Maker(o, trades[o][i])
  PROVE  /\ m \in OrderId /\ Placed(m) /\ Placed(o)
         /\ order[m].side = Opposite(order[o].side)
<1>1. PICK n \in OrderId :
        /\ Between(trades[o][i], o, n)
        /\ Placed(o) /\ Placed(n)
        /\ order[n].side = Opposite(order[o].side)
  BY DEF TradesInv, TradeFacts
<1>2. order[o].side \in Side
  BY DEF EngineInv, TypeOK, Order
<1>3. m = n
  BY <1>1, <1>2 DEF Maker, Between, Opposite, Side
<1> QED BY <1>1, <1>3

(* Less compares terms, which stay.                                        *)
LEMMA LessStays ==
  ASSUME EngineInv, Next, NEW p \in OrderId, NEW m \in OrderId,
         Placed(p), Placed(m)
  PROVE  Less(p, m)' <=> Less(p, m)
BY TermsStay DEF Less

(* Orders in a heap have been placed.                                      *)
LEMMA HeapPlaced ==
  ASSUME EngineInv, NEW s \in Side, NEW p \in heaps[s]
  PROVE  p \in OrderId /\ Placed(p) /\ order[p].side = s
BY DEF EngineInv, TypeOK, HeapsHoldRestingOrders, Placed, Order

LEMMA PriorityStep ==
  ASSUME EngineInv, TradesInv, PriorityInv, Next
  PROVE  PriorityInv'
<1>1. TypeOK /\ TakerIsActive /\ HeapsHoldRestingOrders
  BY DEF EngineInv
<1>2. ASSUME NEW o \in OrderId, NEW req \in Request, PlaceOrder(o, req)
      PROVE  PriorityInv'
  <2>1. DOMAIN trades[o] = {}
    BY <1>2 DEF PlaceOrder, TradesInv, TradeFacts
  <2> QED BY <1>2, <2>1 DEF PlaceOrder, PriorityInv
<1>3. ASSUME NEW o \in OrderId, NEW best \in OrderId, DropCancelled(o, best)
      PROVE  PriorityInv'
  <2>1. /\ order' = order /\ taker' = taker /\ trades' = trades
        /\ \A s \in Side : heaps'[s] \subseteq heaps[s]
    BY <1>1, <1>3 DEF DropCancelled, Pop, TypeOK
  <2>2. Opposite(order[taker].side) \in Side
    BY DEF Opposite, Side
  <2> QED BY <2>1, <2>2 DEF PriorityInv, Less
<1>4. ASSUME NEW o \in OrderId, NEW best \in OrderId, Fill(o, best)
      PROVE  PriorityInv'
  <2> DEFINE s == Opposite(order[o].side)
  <2>1. /\ taker = o /\ taker' = o /\ o # NoOrder /\ s \in Side
        /\ o # best /\ best \in heaps[s] /\ best \in Roots(s)
    BY <1>4, FillFacts, EngineAssumption DEF Fill, Fillable, Considers
  <2>2. Placed(o) /\ Placed(best)
    BY <1>1, <2>1, HeapPlaced DEF TakerIsActive
  <2>3. order'[o].side = order[o].side
    BY <2>2, TermsStay
  <2>4. heaps'[s] \subseteq heaps[s]
    BY <1>1, <1>4, <2>1 DEF Fill, Pop, TypeOK
  <2>5. ASSUME NEW i \in DOMAIN trades'[o], NEW p \in heaps'[s],
               NEW m, m = Maker(o, trades'[o][i])
        PROVE  ~Less(p, m)'
    <3>1. p \in heaps[s] /\ p \in OrderId /\ Placed(p)
      BY <2>1, <2>4, HeapPlaced
    <3>2. CASE i \in DOMAIN trades[o] /\ trades'[o][i] = trades[o][i]
      <4>1. m = Maker(o, trades[o][i])
        BY <2>5, <3>2
      <4>2. m \in OrderId /\ Placed(m)
        BY <3>2, <4>1, MakerFacts
      <4>3. ~Less(p, m)
        BY <2>1, <3>1, <3>2, <4>1 DEF PriorityInv
      <4> QED BY <3>1, <4>2, <4>3, LessStays
    <3>3. CASE trades'[o][i] = TradeOf(o, best)
      <4>1. m = best
        BY <2>1, <2>5, <3>3 DEF Maker, TradeOf
      <4>2. ~Less(p, best)
        BY <2>1, <3>1 DEF Roots
      <4> QED BY <2>2, <3>1, <4>1, <4>2, LessStays
    <3> QED BY <1>4, <3>2, <3>3, OldOrNew
  <2> QED BY <2>1, <2>3, <2>5 DEF PriorityInv
<1>5. ASSUME NEW o \in OrderId,
             Rest(o) \/ CancelLeftover(o) \/ ReturnFilled(o) \/ CancelOrder(o)
      PROVE  PriorityInv'
  BY <1>5 DEF Rest, CancelLeftover, ReturnFilled, CancelOrder, PriorityInv
<1> QED BY <1>2, <1>3, <1>4, <1>5 DEF Next, MatchStep
(* What ServedInPriority says of two makers m and n, served in this order  *)
(* by a call for o.                                                        *)
InPriority(o, m, n) ==
  IF order[m].price = order[n].price
  THEN order[m].createdAt <= order[n].createdAt
  ELSE IF order[o].side = "Buy" THEN order[m].price < order[n].price
                                ELSE order[m].price > order[n].price

(* An order that is not before m, in the same heap, may be served after m. *)
LEMMA NotLessIsInPriority ==
  ASSUME EngineInv, NEW o \in OrderId, NEW m \in OrderId, NEW n \in OrderId,
         order[m].side = Opposite(order[o].side),
         order[n].side = Opposite(order[o].side), ~Less(n, m)
  PROVE  InPriority(o, m, n)
<1>1. order[o] \in Order /\ order[m] \in Order /\ order[n] \in Order
  BY DEF EngineInv, TypeOK
<1> QED BY <1>1 DEF InPriority, Less, Opposite, Order, Side

(* One call serves the resting orders in price-time order.                 *)
THEOREM ServedByPriority == Spec => []ServedInPriority
<1>1. Init => ServedInPriority /\ PriorityInv
  BY DEF Init, ServedInPriority, PriorityInv
<1>2. EngineInv /\ TradesInv /\ PriorityInv /\ ServedInPriority /\ [Next]_vars
      => ServedInPriority' /\ PriorityInv'
  <2> SUFFICES ASSUME EngineInv, TradesInv, PriorityInv, ServedInPriority,
                      [Next]_vars
               PROVE  ServedInPriority' /\ PriorityInv'
    OBVIOUS
  <2>1. CASE UNCHANGED vars
    BY SMTT(30), <2>1 DEF vars, ServedInPriority, Maker, PriorityInv, Less
  <2>2. ASSUME Next,
               NEW o \in OrderId, NEW i \in DOMAIN trades'[o],
               NEW j \in DOMAIN trades'[o], i < j,
               NEW m, m = Maker(o, trades'[o][i]),
               NEW n, n = Maker(o, trades'[o][j])
        PROVE  InPriority(o, m, n)'
    <3> DEFINE Old(k) == k \in DOMAIN trades[o] /\ trades'[o][k] = trades[o][k]
    <3>1. ASSUME m \in OrderId, n \in OrderId,
                 Placed(o), Placed(m), Placed(n), InPriority(o, m, n)
          PROVE  InPriority(o, m, n)'
      BY <2>2, <3>1, TermsStay DEF InPriority
    <3>2. CASE Old(i) /\ Old(j)
      <4>1. m = Maker(o, trades[o][i]) /\ n = Maker(o, trades[o][j])
        BY <2>2, <3>2
      <4>2. /\ m \in OrderId /\ n \in OrderId
            /\ Placed(o) /\ Placed(m) /\ Placed(n)
        BY <3>2, <4>1, MakerFacts
      <4>3. InPriority(o, m, n)
        BY <2>2, <3>2, <4>1 DEF ServedInPriority, InPriority
      <4> QED BY <3>1, <4>2, <4>3
    <3>3. CASE trades' = trades
      BY <2>2, <3>2, <3>3
    <3>4. ASSUME NEW x \in OrderId, NEW best \in OrderId, Fill(x, best)
          PROVE  InPriority(o, m, n)'
      <4> DEFINE Fresh(k) == /\ o = x /\ k = Len(trades[x]) + 1
                             /\ trades'[o][k] = TradeOf(x, best)
      <4>1. (Old(i) \/ Fresh(i)) /\ (Old(j) \/ Fresh(j))
        BY <2>2, <3>4, OldOrNew
      <4>2. trades[o] \in Seq(Trade)
        BY DEF EngineInv, TypeOK
      <4>3. ~Fresh(i)
        BY <2>2, <4>1, <4>2
      <4>4. CASE Old(i) /\ Fresh(j)
        <5>1. /\ taker = o /\ o # NoOrder /\ best \in heaps[Opposite(order[o].side)]
              /\ Opposite(order[o].side) \in Side /\ o # best
          BY <3>4, <4>4, FillFacts, EngineAssumption
        <5>2. n = best
          BY <2>2, <4>4, <5>1 DEF Maker, TradeOf
        <5>3. m = Maker(o, trades[o][i])
          BY <2>2, <4>4
        <5>4. /\ m \in OrderId /\ Placed(m) /\ Placed(o)
              /\ order[m].side = Opposite(order[o].side)
          BY <4>4, <5>3, MakerFacts
        <5>5. /\ n \in OrderId /\ Placed(n)
              /\ order[n].side = Opposite(order[o].side)
          BY <5>1, <5>2, HeapPlaced
        <5>6. ~Less(n, m)
          BY <4>4, <5>1, <5>2, <5>3 DEF PriorityInv
        <5>7. InPriority(o, m, n)
          BY <5>4, <5>5, <5>6, NotLessIsInPriority
        <5> QED BY <3>1, <5>4, <5>5, <5>7
      <4> QED BY <3>2, <4>1, <4>3, <4>4
    <3> QED BY <2>2, <3>3, <3>4, TradesGrow
  <2>3. CASE Next
    <3>1. ServedInPriority'
      BY <2>2, <2>3 DEF ServedInPriority, InPriority
    <3> QED BY <2>3, <3>1, PriorityStep
  <2> QED BY <2>1, <2>3
<1> QED BY <1>1, <1>2, EngineInvariant, TradesInvariant, PTL DEF Spec

----------------------------------------------------------------------------
(* What the reports add up to.  Amounts(S, ts) is the sum that             *)
(* QuantityConserved is about, of the trades in ts at the places in S.     *)
Amounts(S, ts) == SumFunction([x \in S |-> ts[x[1]][x[2]].quantity])

LEMMA AmountsType ==
  \A S, ts : IsFiniteSet(S) /\ (\A x \in S : ts[x[1]][x[2]].quantity \in Nat) =>
    Amounts(S, ts) \in Nat
<1> SUFFICES ASSUME NEW S, NEW ts, IsFiniteSet(S),
                    \A x \in S : ts[x[1]][x[2]].quantity \in Nat
             PROVE  Amounts(S, ts) \in Nat
  OBVIOUS
<1> DEFINE f == [x \in S |-> ts[x[1]][x[2]].quantity]
<1>1. DOMAIN f = S /\ \A x \in S : f[x] \in Nat
  OBVIOUS
<1> HIDE DEF f
<1>2. SumFunctionOnSet(f, S) \in Nat
  BY <1>1, SumNat
<1> QED BY <1>1, <1>2 DEF Amounts, SumFunction, f

LEMMA SameAmounts ==
  \A S, ts, us :
    IsFiniteSet(S) /\ (\A x \in S : ts[x[1]][x[2]] = us[x[1]][x[2]]) =>
      Amounts(S, ts) = Amounts(S, us)
<1> SUFFICES ASSUME NEW S, NEW ts, NEW us, IsFiniteSet(S),
                    \A x \in S : ts[x[1]][x[2]] = us[x[1]][x[2]]
             PROVE  Amounts(S, ts) = Amounts(S, us)
  OBVIOUS
<1>1. [x \in S |-> ts[x[1]][x[2]].quantity] = [x \in S |-> us[x[1]][x[2]].quantity]
  OBVIOUS
<1> QED BY <1>1, Zenon DEF Amounts

LEMMA OneMoreAmount ==
  \A S, n, ts :
    /\ IsFiniteSet(S) /\ n \notin S
    /\ \A x \in S \cup {n} : ts[x[1]][x[2]].quantity \in Nat
    => Amounts(S \cup {n}, ts) = ts[n[1]][n[2]].quantity + Amounts(S, ts)
<1> SUFFICES ASSUME NEW S, NEW n, NEW ts, IsFiniteSet(S), n \notin S,
                    \A x \in S \cup {n} : ts[x[1]][x[2]].quantity \in Nat
             PROVE  Amounts(S \cup {n}, ts) =
                      ts[n[1]][n[2]].quantity + Amounts(S, ts)
  OBVIOUS
<1> DEFINE T == S \cup {n}
           f == [x \in T |-> ts[x[1]][x[2]].quantity]
           g == [x \in S |-> ts[x[1]][x[2]].quantity]
<1>1. /\ DOMAIN f = T /\ DOMAIN g = S /\ f[n] = ts[n[1]][n[2]].quantity
      /\ \A x \in T : f[x] \in Int
      /\ \A x \in S : f[x] = g[x]
  OBVIOUS
<1> HIDE DEF f, g
<1>2. SumFunctionOnSet(f, T) = f[n] + SumFunctionOnSet(f, S)
  BY <1>1, SumAdd
<1>3. SumFunctionOnSet(f, S) = SumFunctionOnSet(g, S)
  BY <1>1, SumCong
<1>4. SumFunction(f) = f[n] + SumFunction(g)
  BY <1>1, <1>2, <1>3 DEF SumFunction
<1> QED BY <1>1, <1>4 DEF Amounts, f, g

(* There is one report more for each fill, and its place is new.           *)
LEMMA FillAddsAReport ==
  ASSUME EngineInv, NEW o \in OrderId, NEW best \in OrderId, Fill(o, best),
         NEW n, n = <<o, Len(trades[o]) + 1>>
  PROVE  /\ n \notin Reports /\ Reports' = Reports \cup {n}
         /\ trades'[n[1]][n[2]] = TradeOf(o, best)
         /\ \A x \in Reports : trades'[x[1]][x[2]] = trades[x[1]][x[2]]
         /\ \A c \in OrderId :
              ReportsOf(c)' = IF c \in {o, best} THEN ReportsOf(c) \cup {n}
                                                 ELSE ReportsOf(c)
<1>1. /\ trades \in [OrderId -> Seq(Trade)] /\ TradeOf(o, best) \in Trade
      /\ trades'[o] = Append(trades[o], TradeOf(o, best))
      /\ \A p \in OrderId \ {o} : trades'[p] = trades[p]
  BY MatchQtyBounds DEF Fill, EngineInv, TypeOK, TradeOf, Trade, Order
<1>2. trades[o] \in Seq(Trade) /\ Len(trades[o]) \in Nat
      /\ DOMAIN trades[o] = 1 .. Len(trades[o])
  BY <1>1
<1>3. /\ DOMAIN trades'[o] = DOMAIN trades[o] \cup {Len(trades[o]) + 1}
      /\ trades'[o][Len(trades[o]) + 1] = TradeOf(o, best)
      /\ \A i \in DOMAIN trades[o] : trades'[o][i] = trades[o][i]
  BY <1>1, <1>2
<1>4. \A p, i : <<p, i>> \in Reports <=> p \in OrderId /\ i \in DOMAIN trades[p]
  BY DEF Reports
<1>5. \A p, i : <<p, i>> \in Reports' <=> p \in OrderId /\ i \in DOMAIN trades'[p]
  BY DEF Reports
<1>6. \A x \in Reports \cup Reports' : x = <<x[1], x[2]>>
  BY DEF Reports
<1>7. n \notin Reports
  BY <1>2, <1>4
<1>8. Reports' = Reports \cup {n}
  <2>1. ASSUME NEW p, NEW i
        PROVE  <<p, i>> \in Reports' <=> <<p, i>> \in Reports \/ <<p, i>> = n
    BY <1>1, <1>3, <1>4, <1>5
  <2> QED BY <1>6, <2>1
<1>9. trades'[n[1]][n[2]] = TradeOf(o, best)
  BY <1>3
<1>10. ASSUME NEW x \in Reports
       PROVE  trades'[x[1]][x[2]] = trades[x[1]][x[2]]
  <2>1. <<x[1], x[2]>> \in Reports
    BY <1>6
  <2>2. x[1] \in OrderId /\ x[2] \in DOMAIN trades[x[1]]
    BY <1>4, <2>1
  <2>3. x[1] # o => trades'[x[1]] = trades[x[1]]
    BY <1>1, <2>2
  <2> QED BY <1>3, <2>2, <2>3
<1>11. {TradeOf(o, best).buy, TradeOf(o, best).sell} = {o, best}
  BY DEF TradeOf
<1>12. ASSUME NEW c \in OrderId
       PROVE  ReportsOf(c)' = IF c \in {o, best} THEN ReportsOf(c) \cup {n}
                                                 ELSE ReportsOf(c)
  <2>1. ReportsOf(c)' = {x \in Reports \cup {n} :
           c \in {trades'[x[1]][x[2]].buy, trades'[x[1]][x[2]].sell}}
    BY <1>8 DEF ReportsOf
  <2>2. ASSUME NEW x
        PROVE  x \in ReportsOf(c)' <=> x \in ReportsOf(c) \/ (x = n /\ c \in {o, best})
    BY <1>7, <1>9, <1>10, <1>11, <2>1 DEF ReportsOf
  <2> QED BY <2>2
<1> QED BY <1>7, <1>8, <1>9, <1>10, <1>12

ConservedInv == IsFiniteSet(Reports) /\ QuantityConserved

LEMMA ReportTypes ==
  ASSUME EngineInv, IsFiniteSet(Reports), NEW c \in OrderId
  PROVE  /\ IsFiniteSet(ReportsOf(c)) /\ ReportsOf(c) \subseteq Reports
         /\ \A x \in Reports : trades[x[1]][x[2]] \in Trade
<1>1. ReportsOf(c) \subseteq Reports
  BY DEF ReportsOf
<1>2. ASSUME NEW x \in Reports
      PROVE  trades[x[1]][x[2]] \in Trade
  <2>1. PICK p \in OrderId : x \in {p} \X DOMAIN trades[p]
    BY DEF Reports
  <2>2. trades[p] \in Seq(Trade) /\ x[1] = p /\ x[2] \in DOMAIN trades[p]
    BY <2>1 DEF EngineInv, TypeOK
  <2> QED BY <2>2
<1> QED BY <1>1, <1>2, FS_Subset

LEMMA ConservedByFill ==
  ASSUME EngineInv, EngineInv', ConservedInv,
         NEW o \in OrderId, NEW best \in OrderId, Fill(o, best)
  PROVE  ConservedInv'
<1> DEFINE n == <<o, Len(trades[o]) + 1>>
           qty == MatchQty(o, best)
<1>1. /\ n \notin Reports /\ Reports' = Reports \cup {n}
      /\ trades'[n[1]][n[2]] = TradeOf(o, best)
      /\ \A x \in Reports : trades'[x[1]][x[2]] = trades[x[1]][x[2]]
      /\ \A c \in OrderId :
           ReportsOf(c)' = IF c \in {o, best} THEN ReportsOf(c) \cup {n}
                                              ELSE ReportsOf(c)
  BY FillAddsAReport
<1> HIDE DEF n
<1>2. IsFiniteSet(Reports) /\ IsFiniteSet(Reports')
  BY <1>1, FS_AddElement DEF ConservedInv
<1>3. /\ o # best /\ \A c \in OrderId : order[c] \in Order
      /\ order'[o] = Reduced(order[o], qty)
      /\ order'[best] = Reduced(order[best], qty)
      /\ \A p \in OrderId \ {o, best} : order'[p] = order[p]
      /\ qty \in 0 .. order[o].remaining /\ qty \in 0 .. order[best].remaining
  BY FillFacts DEF EngineInv, TypeOK
<1>4. TradeOf(o, best).quantity = qty
  BY DEF TradeOf
<1> HIDE DEF qty
<1>5. ASSUME NEW c \in OrderId
      PROVE  order'[c].quantity = order'[c].remaining + Amounts(ReportsOf(c)', trades')
  <2>1. /\ IsFiniteSet(ReportsOf(c)) /\ ReportsOf(c) \subseteq Reports
        /\ \A x \in Reports : trades[x[1]][x[2]].quantity \in Nat
    BY <1>2, ReportTypes DEF Trade
  <2>2. order[c].quantity = order[c].remaining + Amounts(ReportsOf(c), trades)
    BY DEF ConservedInv, QuantityConserved, Amounts
  <2>3. Amounts(ReportsOf(c), trades') = Amounts(ReportsOf(c), trades)
    BY <1>1, <2>1, SameAmounts
  <2>4. Amounts(ReportsOf(c), trades) \in Nat
    BY <2>1, AmountsType
  <2>5. CASE c \in {o, best}
    <3>1. /\ order'[c].quantity = order[c].quantity
          /\ order'[c].remaining = order[c].remaining - qty
          /\ order[c].remaining \in Nat /\ order[c].quantity \in Nat /\ qty \in Nat
      <4>1. order'[c] = Reduced(order[c], qty) /\ qty \in 0 .. order[c].remaining
            /\ order[c] \in Order
        BY <1>3, <2>5
      <4> QED BY <4>1 DEF Reduced, Order
    <3>2. Amounts(ReportsOf(c) \cup {n}, trades') = qty + Amounts(ReportsOf(c), trades')
      <4>1. n \notin ReportsOf(c) /\ trades'[n[1]][n[2]].quantity = qty
        BY <1>1, <1>4, <2>1
      <4>2. \A x \in ReportsOf(c) \cup {n} : trades'[x[1]][x[2]].quantity \in Nat
        BY <1>1, <2>1, <3>1, <4>1
      <4> QED BY <2>1, <4>1, <4>2, OneMoreAmount
    <3>3. Amounts(ReportsOf(c)', trades') = qty + Amounts(ReportsOf(c), trades)
      BY <1>1, <2>3, <2>5, <3>2
    <3> QED BY <2>2, <2>4, <3>1, <3>3
  <2>6. CASE c \notin {o, best}
    BY <1>1, <1>3, <2>2, <2>3, <2>6
  <2> QED BY <2>5, <2>6
<1> QED BY <1>2, <1>5 DEF ConservedInv, QuantityConserved, Amounts

(* The other steps report nothing; the quantities move when an order is    *)
(* placed, and then nothing has been reported of it.                       *)
LEMMA ConservedOtherwise ==
  ASSUME EngineInv, ConservedInv,
         \/ UNCHANGED vars
         \/ \E o \in OrderId, req \in Request : PlaceOrder(o, req)
         \/ \E o, best \in OrderId : DropCancelled(o, best)
         \/ \E o \in OrderId :
              Rest(o) \/ CancelLeftover(o) \/ ReturnFilled(o) \/ CancelOrder(o)
  PROVE  ConservedInv'
<1>1. order \in [OrderId -> Order] /\ \A c \in OrderId : order[c] \in Order
  BY DEF EngineInv, TypeOK
<1>2. trades' = trades /\ \A c \in OrderId :
        \/ /\ order'[c].quantity = order[c].quantity
           /\ order'[c].remaining = order[c].remaining
        \/ order[c].quantity = 0 /\ order'[c].remaining = order'[c].quantity
           /\ order'[c].quantity \in Nat
  <2>1. ASSUME NEW o \in OrderId, NEW req \in Request, PlaceOrder(o, req),
               NEW c \in OrderId
        PROVE  \/ order'[c] = order[c]
               \/ order[c].quantity = 0 /\ order'[c].remaining = order'[c].quantity
                  /\ order'[c].quantity \in Nat
    BY <1>1, <2>1, RequestType DEF PlaceOrder, Placed
  <2>2. ASSUME NEW o \in OrderId, CancelLeftover(o) \/ CancelOrder(o),
               NEW c \in OrderId
        PROVE  /\ order'[c].quantity = order[c].quantity
               /\ order'[c].remaining = order[c].remaining
    <3>1. order' = [order EXCEPT ![o] = [order[o] EXCEPT !.status = "Cancelled"]]
      BY <2>2 DEF CancelLeftover, CancelOrder
    <3>2. order'[c] = order[c] \/ order'[c] = [order[c] EXCEPT !.status = "Cancelled"]
      BY <1>1, <3>1
    <3> QED BY <1>1, <3>2 DEF Order
  <2>3. CASE \E o \in OrderId, req \in Request : PlaceOrder(o, req)
    <3>1. trades' = trades
      BY <2>3 DEF PlaceOrder
    <3> QED BY <2>1, <2>3, <3>1
  <2>4. CASE \E o \in OrderId : CancelLeftover(o) \/ CancelOrder(o)
    <3>1. trades' = trades
      BY <2>4 DEF CancelLeftover, CancelOrder
    <3> QED BY <2>2, <2>4, <3>1
  <2>5. CASE \/ UNCHANGED vars
             \/ \E o, best \in OrderId : DropCancelled(o, best)
             \/ \E o \in OrderId : Rest(o) \/ ReturnFilled(o)
    BY <2>5 DEF vars, DropCancelled, Rest, ReturnFilled
  <2> QED BY <2>3, <2>4, <2>5
<1>3. Reports' = Reports /\ \A c \in OrderId : ReportsOf(c)' = ReportsOf(c)
  BY <1>2 DEF Reports, ReportsOf
<1>4. ASSUME NEW c \in OrderId
      PROVE  order'[c].quantity = order'[c].remaining + Amounts(ReportsOf(c)', trades')
  <2>1. order[c].quantity = order[c].remaining + Amounts(ReportsOf(c), trades)
    BY DEF ConservedInv, QuantityConserved, Amounts
  <2>2. Amounts(ReportsOf(c), trades) \in Nat
    <3>1. /\ IsFiniteSet(ReportsOf(c)) /\ ReportsOf(c) \subseteq Reports
          /\ \A x \in Reports : trades[x[1]][x[2]].quantity \in Nat
      BY ReportTypes DEF ConservedInv, Trade
    <3> QED BY <3>1, AmountsType
  <2>3. order[c].quantity \in Nat /\ order[c].remaining \in Nat
    BY <1>1 DEF Order
  <2>4. order[c].quantity = 0 => Amounts(ReportsOf(c), trades) = 0
    BY <2>1, <2>2, <2>3
  <2>5. Amounts(ReportsOf(c)', trades') = Amounts(ReportsOf(c), trades)
    BY <1>2, <1>3
  <2> QED BY <1>2, <2>1, <2>3, <2>4, <2>5
<1> QED BY <1>3, <1>4 DEF ConservedInv, QuantityConserved, Amounts

LEMMA ConservedInductive ==
  /\ Init => ConservedInv
  /\ EngineInv /\ EngineInv' /\ ConservedInv /\ [Next]_vars => ConservedInv'
<1>1. ASSUME Init PROVE ConservedInv
  <2>1. Reports = {} /\ \A c \in OrderId : ReportsOf(c) = {}
    BY <1>1 DEF Init, Reports, ReportsOf
  <2>2. \A f : DOMAIN f = {} => SumFunction(f) = 0
    BY SumEmpty DEF SumFunction
  <2>3. \A c \in OrderId : order[c].quantity = 0 /\ order[c].remaining = 0
    BY <1>1 DEF Init, ZeroOrder
  <2>4. \A c \in OrderId : SumFunction([x \in ReportsOf(c) |->
                                          trades[x[1]][x[2]].quantity]) = 0
    BY <2>1, <2>2
  <2> QED BY <2>1, <2>3, <2>4, FS_EmptySet DEF ConservedInv, QuantityConserved
<1>2. ASSUME EngineInv, EngineInv', ConservedInv, [Next]_vars
      PROVE  ConservedInv'
  <2>1. CASE \E o, best \in OrderId : Fill(o, best)
    BY <1>2, <2>1, ConservedByFill
  <2>2. CASE ~ \E o, best \in OrderId : Fill(o, best)
    BY <1>2, <2>2, ConservedOtherwise DEF Next, MatchStep
  <2> QED BY <2>1, <2>2
<1> QED BY <1>1, <1>2

(* No quantity is lost or made up: for every set of orders, what was       *)
(* ordered is what is left and what the reports of all calls say.          *)
THEOREM QuantityIsConserved == Spec => []QuantityConserved
<1>1. Spec => []ConservedInv
  BY ConservedInductive, EngineInvariant, PTL DEF Spec
<1>2. ConservedInv => QuantityConserved
  BY DEF ConservedInv
<1> QED BY <1>1, <1>2, PTL

----------------------------------------------------------------------------
(* A call comes to its end.  While the loop runs its guard decides (no     *)
(* root is missing, none is passed over), and each turn of it leaves less  *)
(* to do; so a goroutine that keeps running returns from PlaceOrder.       *)

HeapsFinite == \A s \in Side : IsFiniteSet(heaps[s])

LEMMA HeapsFiniteInductive ==
  /\ Init => HeapsFinite
  /\ TypeOK /\ HeapsFinite /\ [Next]_vars => HeapsFinite'
<1>1. Init => HeapsFinite
  BY FS_EmptySet DEF Init, HeapsFinite
<1>2. ASSUME TypeOK, HeapsFinite, [Next]_vars
      PROVE  HeapsFinite'
  <2>1. \/ heaps' = heaps
        \/ \E s \in Side, o \in OrderId :
             \/ heaps' = [heaps EXCEPT ![s] = heaps[s] \ {o}]
             \/ heaps' = [heaps EXCEPT ![s] = heaps[s] \cup {o}]
    <3>1. \A o \in OrderId : order[o].side \in Side /\ Opposite(order[o].side) \in Side
      BY <1>2 DEF TypeOK, Order, Opposite, Side
    <3>2. CASE \E o, best \in OrderId : DropCancelled(o, best) \/ Fill(o, best)
      BY <3>1, <3>2 DEF DropCancelled, Fill, Pop
    <3>3. CASE \E o \in OrderId : Rest(o)
      BY <3>1, <3>3 DEF Rest
    <3>4. CASE \/ \E o \in OrderId, req \in Request : PlaceOrder(o, req)
               \/ \E o \in OrderId :
                    CancelLeftover(o) \/ ReturnFilled(o) \/ CancelOrder(o)
               \/ UNCHANGED vars
      BY <3>4 DEF PlaceOrder, CancelLeftover, ReturnFilled, CancelOrder, vars
    <3> QED BY <1>2, <3>2, <3>3, <3>4 DEF Next, MatchStep
  <2>2. ASSUME NEW s \in Side, NEW o \in OrderId
        PROVE  IsFiniteSet(heaps[s] \ {o}) /\ IsFiniteSet(heaps[s] \cup {o})
    BY <1>2, FS_AddElement, FS_RemoveElement DEF HeapsFinite
  <2> QED BY <1>2, <2>1, <2>2 DEF HeapsFinite, TypeOK
<1> QED BY <1>1, <1>2

LEMMA LessIsOrder ==
  ASSUME TypeOK, HeapsHoldRestingOrders, NEW s \in Side,
         NEW p \in heaps[s], NEW q \in heaps[s], NEW r \in heaps[s]
  PROVE  ~ Less(p, p) /\ (Less(p, q) /\ Less(q, r) => Less(p, r))
<1>1. \A o \in {p, q, r} : /\ order[o].side = s /\ s \in {"Buy", "Sell"}
                           /\ order[o].price \in Nat /\ order[o].createdAt \in Nat
  BY DEF TypeOK, HeapsHoldRestingOrders, Order, Side
<1> QED BY <1>1 DEF Less

(* A heap with an element has a root: the one that fewest are Less than.   *)
LEMMA RootExists ==
  ASSUME TypeOK, HeapsHoldRestingOrders, HeapsFinite, NEW s \in Side, heaps[s] # {}
  PROVE  Roots(s) # {}
<1> DEFINE Ahead(r) == {p \in heaps[s] : Less(p, r)}
           Numbers  == {Cardinality(Ahead(r)) : r \in heaps[s]}
<1>1. ASSUME NEW S \in SUBSET heaps[s]
      PROVE  IsFiniteSet(S) /\ Cardinality(S) \in Nat
  BY FS_Subset, FS_CardinalityType DEF HeapsFinite
<1>2. \A r \in heaps[s] : Ahead(r) \in SUBSET heaps[s]
  OBVIOUS
<1>3. Numbers \in SUBSET Nat /\ Numbers # {}
  BY <1>1, <1>2
<1>4. PICK n \in Numbers : \A m \in Numbers : n <= m
  <2> HIDE DEF Numbers
  <2> QED BY <1>3, LeastNumber
<1>5. PICK r \in heaps[s] : n = Cardinality(Ahead(r))
  BY <1>4
<1>6. ASSUME NEW p \in heaps[s], Less(p, r)
      PROVE  FALSE
  <2>1. Ahead(p) \subseteq Ahead(r) /\ p \in Ahead(r) /\ p \notin Ahead(p)
    BY <1>6, LessIsOrder
  <2>2. IsFiniteSet(Ahead(r)) /\ Cardinality(Ahead(r)) \in Nat
        /\ Cardinality(Ahead(p)) \in Nat
    BY <1>1, <1>2
  <2>3. Cardinality(Ahead(r)) <= Cardinality(Ahead(p))
    BY <1>4, <1>5
  <2> HIDE DEF Ahead
  <2>4. Cardinality(Ahead(p)) <= Cardinality(Ahead(r))
        /\ (Cardinality(Ahead(r)) = Cardinality(Ahead(p)) => Ahead(r) = Ahead(p))
    BY <2>1, <2>2, FS_Subset
  <2> QED BY <2>1, <2>2, <2>3, <2>4
<1> QED BY <1>6 DEF Roots

(* The loop of the call for o drops or fills, or an end of the call is     *)
(* reached: what is left rests or is cancelled, or nothing is left.        *)
GoesOn(o) ==
  \/ \E best \in OrderId : Considers(o, best) /\ Cancelled(best)
  \/ \E best \in OrderId : Fillable(o, best)
  \/ NoMatchLeft(o)
  \/ order[o].remaining = 0

(* A running call has a next step (the loop of PlaceOrder).                *)
CallsGoOn == taker # NoOrder => GoesOn(taker)

(* A running call always has a next step: no state of the heaps leaves its *)
(* loop between a root to take and a reason to stop.                       *)
THEOREM CallsAlwaysGoOn == Spec => []CallsGoOn
<1>1. EngineInv /\ HeapsFinite => CallsGoOn
  <2> SUFFICES ASSUME EngineInv, HeapsFinite, taker # NoOrder, order[taker].remaining # 0
               PROVE  GoesOn(taker)
    BY DEF CallsGoOn, GoesOn
  <2> DEFINE s == Opposite(order[taker].side)
  <2>1. /\ taker \in OrderId /\ order[taker].remaining > 0 /\ s \in Side
        /\ heaps[s] \subseteq OrderId
    BY DEF EngineInv, TypeOK, Order, Opposite, Side
  <2>2. CASE heaps[s] = {}
    BY <2>1, <2>2 DEF GoesOn, NoMatchLeft
  <2>3. CASE heaps[s] # {}
    <3>1. PICK best \in Roots(s) : TRUE
      BY <2>1, <2>3, RootExists DEF EngineInv
    <3>2. best \in OrderId /\ Considers(taker, best)
      BY <2>1, <3>1 DEF Considers, Roots
    <3> QED BY <2>1, <3>1, <3>2 DEF GoesOn, Fillable, NoMatchLeft
  <2> QED BY <2>2, <2>3
<1>2. Spec => []HeapsFinite
  BY HeapsFiniteInductive, TypeCorrect, PTL DEF Spec
<1> QED BY <1>1, <1>2, EngineInvariant, PTL

(* What is left to do for the running call.                                *)
Work == Cardinality(heaps[Opposite(order[taker].side)]) + order[taker].remaining

(* A step that does not end the running call leaves less to do for it.     *)
WorkFalls ==
  [][taker # NoOrder /\ taker' # NoOrder =>
       /\ taker' = taker
       /\ Work \in Nat /\ Work' \in Nat /\ Work' < Work]_vars

LEMMA WorkStep ==
  ASSUME EngineInv, HeapsFinite, EngineInv', HeapsFinite', Next,
         taker # NoOrder, taker' # NoOrder
  PROVE  taker' = taker /\ Work \in Nat /\ Work' \in Nat /\ Work' < Work
<1> DEFINE s == Opposite(order[taker].side)
           H == heaps[s]
<1>1. /\ taker \in OrderId /\ order[taker] \in Order /\ s \in Side
      /\ IsFiniteSet(H) /\ Cardinality(H) \in Nat
  BY FS_CardinalityType DEF EngineInv, TypeOK, Order, Opposite, Side, HeapsFinite
<1>2. PICK o \in OrderId, best \in OrderId : DropCancelled(o, best) \/ Fill(o, best)
  BY DEF Next, MatchStep, PlaceOrder, Rest, CancelLeftover, ReturnFilled, CancelOrder
<1>3. /\ o = taker /\ taker' = taker /\ best \in H
      /\ Cardinality(H \ {best}) = Cardinality(H) - 1
  <2>1. o = taker /\ taker' = taker /\ best \in H
    BY <1>2 DEF DropCancelled, Fill, Fillable, Considers, Roots
  <2> QED BY <1>1, <2>1, FS_RemoveElement
<1>4. CASE DropCancelled(o, best)
  <2>1. order' = order /\ heaps'[s] = H \ {best}
    BY <1>1, <1>3, <1>4 DEF DropCancelled, Pop, EngineInv, TypeOK
  <2>2. Work = Cardinality(H) + order[taker].remaining
        /\ Work' = Cardinality(H) - 1 + order[taker].remaining
    BY <1>3, <2>1 DEF Work
  <2>3. order[taker].remaining \in Nat /\ Cardinality(H \ {best}) \in Nat
    BY <1>1, FS_RemoveElement, FS_CardinalityType DEF Order
  <2> QED BY <1>1, <1>3, <2>2, <2>3
<1>5. CASE Fill(o, best)
  <2> DEFINE qty == MatchQty(o, best)
  <2>1. heaps'[s] \in {H, H \ {best}}
    BY <1>1, <1>3, <1>5 DEF Fill, Pop, EngineInv, TypeOK
  <2>2. /\ order'[taker].side = order[taker].side
        /\ order'[taker].remaining = order[taker].remaining - qty
    <3>1. order'[o] = Reduced(order[o], qty)
      BY <1>5, FillFacts DEF EngineInv
    <3> QED BY <1>1, <1>3, <3>1 DEF Reduced, Order
  <2>3. /\ qty \in 1 .. order[taker].remaining /\ order[taker].remaining \in Nat
    <3>1. order[best].remaining > 0 /\ order[best].remaining \in Nat
      BY <1>5, FillFacts DEF EngineInv, TypeOK, Order
    <3>2. order[taker].remaining > 0 /\ order[taker].remaining \in Nat
      BY <1>1, <1>3, <1>5 DEF Fill, Fillable, Considers, Order
    <3> QED BY <1>3, <3>1, <3>2 DEF MatchQty
  <2>4. /\ Work = Cardinality(H) + order[taker].remaining
        /\ Work' = Cardinality(heaps'[s]) + order[taker].remaining - qty
    BY <1>1, <1>3, <2>2 DEF Work
  <2>5. Cardinality(heaps'[s]) \in Nat /\ Cardinality(heaps'[s]) <= Cardinality(H)
    <3>1. Cardinality(H \ {best}) \in Nat
      BY <1>1, FS_RemoveElement, FS_CardinalityType
    <3> HIDE DEF H
    <3>2. CASE heaps'[s] = H
      BY <1>1, <3>2
    <3>3. CASE heaps'[s] = H \ {best}
      BY <1>1, <1>3, <3>1, <3>3
    <3> QED BY <2>1, <3>2, <3>3
  <2> HIDE DEF qty, H, s
  <2> QED BY <1>1, <1>3, <2>3, <2>4, <2>5
<1> QED BY <1>2, <1>4, <1>5

(* No turn of the loop is for nothing: each takes an order from the other  *)
(* heap or part of what the taker has left, so a call has at most as many  *)
(* turns as these amount to when it is made.                               *)
THEOREM CallsComeToAnEnd == Spec => WorkFalls
<1>1. EngineInv /\ HeapsFinite /\ (EngineInv /\ HeapsFinite)' /\ [Next]_vars
      => [taker # NoOrder /\ taker' # NoOrder =>
            /\ taker' = taker
            /\ Work \in Nat /\ Work' \in Nat /\ Work' < Work]_vars
  BY WorkStep
<1>2. Spec => []HeapsFinite
  BY HeapsFiniteInductive, TypeCorrect, PTL DEF Spec
<1> QED BY <1>1, <1>2, EngineInvariant, PTL DEF Spec, WorkFalls

----------------------------------------------------------------------------
(* The engine implements OrderBook: no one can tell its lazy cancellation  *)
(* from a book that drops a cancelled order at once.                       *)

(* The refinement mapping of Book, named.                                  *)
BookTerms == [o \in OrderId |-> TermsOf(o)]
BookLeft  == [o \in OrderId |-> order[o].remaining]
BookLive  == [s \in Side |-> {o \in heaps[s] : ~Cancelled(o)}]

(* A request is its terms.                                                 *)
LEMMA RequestIsTerms ==
  ASSUME NEW req \in Request
  PROVE  req = [side |-> req.side, type |-> req.type, price |-> req.price,
                quantity |-> req.quantity, createdAt |-> req.createdAt]
<1> DEFINE Limits  == [side : Side, type : {"Limit"}, price : Prices,
                       quantity : Quantities, createdAt : Times]
           Markets == [side : Side, type : {"Market"}, price : {0},
                       quantity : Quantities, createdAt : {0}]
<1>1. CASE req \in Limits
  BY <1>1
<1>2. CASE req \in Markets
  BY <1>2
<1> QED BY <1>1, <1>2 DEF Request

(* The terms of the abstract book move only when an order is placed.       *)
LEMMA TermsUnchanged ==
  ASSUME \A p \in OrderId :
           /\ order'[p].side = order[p].side
           /\ order'[p].type = order[p].type
           /\ order'[p].price = order[p].price
           /\ order'[p].quantity = order[p].quantity
           /\ order'[p].createdAt = order[p].createdAt
  PROVE  BookTerms' = BookTerms
BY DEF BookTerms, TermsOf

(* The abstract book sees an order's side, price and stamp as Less does.   *)
LEMMA PrecedesIsLess ==
  ASSUME EngineInv, NEW o \in OrderId, NEW p \in OrderId,
         order[o].side = order[p].side, ~Less(o, p)
  PROVE  ~Book!Precedes(o, p)
<1>1. order[o] \in Order /\ order[p] \in Order
  BY DEF EngineInv, TypeOK
<1>2. BookTerms[o] = TermsOf(o) /\ BookTerms[p] = TermsOf(p)
  BY DEF BookTerms
<1> QED BY <1>1, <1>2 DEF Book!Precedes, BookTerms, TermsOf, Less, Order, Side

LEMMA AcceptableIsAccepts ==
  ASSUME EngineInv, NEW o \in OrderId, NEW p \in OrderId
  PROVE  /\ Accepts(o, p) <=> Book!Acceptable(o, p)
         /\ Book!Other(o) = Opposite(order[o].side)
<1>1. order[o] \in Order /\ order[p] \in Order
  BY DEF EngineInv, TypeOK
<1> QED BY <1>1 DEF Book!Acceptable, Book!Other, TermsOf, Accepts, Opposite,
                    Order, Side
----------------------------------------------------------------------------
(* Entering PlaceOrder submits the order.                                  *)
LEMMA PlaceIsSubmit ==
  ASSUME EngineInv, NEW o \in OrderId, NEW req \in Request, PlaceOrder(o, req)
  PROVE  Book!Submit(o, req)
<1>1. TypeOK /\ HeapsHoldRestingOrders /\ taker = NoOrder /\ taker' = o
  BY DEF EngineInv, PlaceOrder
<1>2. /\ order'[o] = [side |-> req.side, type |-> req.type,
                      price |-> req.price, quantity |-> req.quantity,
                      remaining |-> req.quantity, status |-> "Open",
                      createdAt |-> req.createdAt]
      /\ \A p \in OrderId \ {o} : order'[p] = order[p]
      /\ heaps' = heaps
      /\ order[o].quantity = 0
  BY <1>1 DEF PlaceOrder, TypeOK, Placed
<1>3. TermsOf(o)' = req
  BY <1>2, RequestIsTerms DEF TermsOf
<1>4. BookTerms' = [BookTerms EXCEPT ![o] = req]
  BY <1>2, <1>3 DEF BookTerms, TermsOf
<1>5. BookLeft' = [BookLeft EXCEPT ![o] = req.quantity]
  <2>1. /\ order'[o].remaining = req.quantity
        /\ \A p \in OrderId \ {o} : order'[p].remaining = order[p].remaining
    BY <1>2
  <2> QED BY <2>1 DEF BookLeft
<1>6. BookLive' = BookLive
  <2>1. \A s \in Side : \A p \in heaps[s] : p \in OrderId \ {o}
    BY <1>1, <1>2 DEF HeapsHoldRestingOrders, TypeOK, Order
  <2> QED BY <1>2, <2>1 DEF BookLive, Cancelled
<1>7. BookTerms[o].quantity = 0
  BY <1>2 DEF BookTerms, TermsOf
<1> QED BY <1>1, <1>4, <1>5, <1>6, <1>7
        DEF Book!Submit, BookTerms, BookLeft, BookLive

(* Dropping a cancelled root cannot be seen.                               *)
LEMMA DropIsStutter ==
  ASSUME EngineInv, NEW o \in OrderId, NEW best \in OrderId,
         DropCancelled(o, best)
  PROVE  UNCHANGED Book!bookVars
<1>1. /\ order' = order /\ taker' = taker /\ Cancelled(best)
      /\ heaps' = [heaps EXCEPT ![Opposite(order[o].side)] = @ \ {best}]
  BY DEF DropCancelled, Pop
<1>2. BookLive' = BookLive
  BY <1>1 DEF BookLive, Cancelled, EngineInv, TypeOK
<1>3. BookTerms' = BookTerms /\ BookLeft' = BookLeft
  BY <1>1 DEF BookTerms, BookLeft, TermsOf
<1> QED BY <1>1, <1>2, <1>3 DEF Book!bookVars, BookTerms, BookLeft, BookLive

(* A fill is a match with the best live order.                             *)
LEMMA FillIsMatch ==
  ASSUME EngineInv, Next, NEW o \in OrderId, NEW best \in OrderId,
         Fill(o, best)
  PROVE  Book!Match(o, best)
<1> DEFINE s   == Opposite(order[o].side)
           qty == MatchQty(o, best)
<1>1. /\ TypeOK /\ TakerIsActive /\ HeapsHoldRestingOrders
      /\ order[o] \in Order /\ order[best] \in Order
  BY DEF EngineInv, TypeOK
<1>2. /\ taker = o /\ taker' = o /\ o # best /\ s \in Side
      /\ best \in heaps[s] /\ best \in Roots(s) /\ order[best].side = s
      /\ order[o].remaining > 0 /\ ~Cancelled(best) /\ Accepts(o, best)
  BY FillFacts DEF Fill, Fillable, Considers
<1>3. Placed(o) /\ Placed(best) /\ order[o].status # "Cancelled"
  BY <1>1, <1>2, HeapPlaced, EngineAssumption DEF TakerIsActive
<1>4. /\ order'[o] = Reduced(order[o], qty)
      /\ order'[best] = Reduced(order[best], qty)
      /\ \A p \in OrderId \ {o, best} : order'[p] = order[p]
      /\ qty \in 0 .. order[o].remaining /\ qty \in 0 .. order[best].remaining
  BY FillFacts
<1>5. /\ order'[o].remaining = order[o].remaining - qty
      /\ order'[best].remaining = order[best].remaining - qty
      /\ order'[o].status # "Cancelled" /\ order'[best].status # "Cancelled"
  BY <1>1, <1>4, ReducedType
<1>6. BookTerms' = BookTerms
  <2>1. /\ TermsOf(o)' = TermsOf(o)
        /\ TermsOf(best)' = TermsOf(best)
    BY <1>3, TermsStay DEF TermsOf
  <2>2. \A p \in OrderId : TermsOf(p)' = TermsOf(p)
    BY <1>4, <2>1 DEF TermsOf
  <2> QED BY <2>2 DEF BookTerms
<1>7. BookLeft' = [BookLeft EXCEPT ![o] = @ - qty, ![best] = @ - qty]
  BY <1>2, <1>4, <1>5 DEF BookLeft
<1>8. BookLive' =
        [BookLive EXCEPT ![s] = {q \in @ : q # best \/ order[best].remaining > qty}]
  <2>1. ASSUME NEW z \in Side, NEW p \in OrderId
        PROVE  p \in heaps'[z] <=>
                 p \in heaps[z] /\ ~(z = s /\ p = best
                                      /\ qty = order[best].remaining)
    BY <1>1, <1>2 DEF Fill, Exhausts, Pop, TypeOK
  <2>2. ASSUME NEW z \in Side, NEW p \in OrderId
        PROVE  Cancelled(p)' <=> Cancelled(p)
    BY <1>2, <1>3, <1>4, <1>5 DEF Cancelled
  <2>3. \A z \in Side : heaps[z] \subseteq OrderId /\ heaps'[z] \subseteq OrderId
    <3>1. heaps \in [Side -> SUBSET OrderId]
      BY <1>1 DEF TypeOK
    <3>2. heaps' = heaps \/ heaps' = [heaps EXCEPT ![s] = @ \ {best}]
      BY DEF Fill, Pop
    <3> QED BY <3>1, <3>2
  <2>4. order[best].remaining > qty <=> qty # order[best].remaining
    BY <1>1, <1>4 DEF Order
  <2>5. ASSUME NEW z \in Side
        PROVE  BookLive'[z] = [BookLive EXCEPT ![s] =
                 {q \in @ : q # best \/ order[best].remaining > qty}][z]
    <3>1. CASE z = s
      BY <2>1, <2>2, <2>3, <2>4, <3>1 DEF BookLive
    <3>2. CASE z # s
      BY <2>1, <2>2, <2>3, <3>2 DEF BookLive
    <3> QED BY <3>1, <3>2
  <2> QED BY <2>5 DEF BookLive
<1>9. best \in BookLive[s]
  BY <1>2 DEF BookLive
<1>10. \A q \in BookLive[s] : ~Book!Precedes(q, best)
  <2> SUFFICES ASSUME NEW q \in BookLive[s] PROVE ~Book!Precedes(q, best)
    OBVIOUS
  <2>1. q \in heaps[s] /\ q \in OrderId /\ order[q].side = s /\ ~Less(q, best)
    BY <1>2, HeapPlaced DEF BookLive, Roots
  <2> QED BY <1>2, <2>1, PrecedesIsLess
<1>11. Book!Acceptable(o, best) /\ Book!Other(o) = s
  BY <1>2, AcceptableIsAccepts
<1>12. BookLeft[o] = order[o].remaining /\ BookLeft[best] = order[best].remaining
  BY DEF BookLeft
<1> QED BY <1>2, <1>6, <1>7, <1>8, <1>9, <1>10, <1>11, <1>12
        DEF Book!Match, BookTerms, BookLeft, BookLive, MatchQty
(* When the loop has ended with quantity left, no live order is within the *)
(* limit: the root of the heap is live and beyond it, and it is the best.  *)
LEMMA NothingAcceptable ==
  ASSUME EngineInv, NEW o \in OrderId, NoMatchLeft(o),
         NEW p \in BookLive[Opposite(order[o].side)]
  PROVE  ~Accepts(o, p)
<1> DEFINE s == Opposite(order[o].side)
<1>1. /\ TypeOK /\ HeapsHoldRestingOrders /\ s \in Side
      /\ order[o].side \in Side
  BY DEF EngineInv, Opposite, Side, TypeOK, Order
<1>2. p \in heaps[s] /\ p \in OrderId
  BY <1>1, HeapPlaced DEF BookLive
<1>3. PICK best \in Roots(s) : ~Accepts(o, best)
  BY <1>2 DEF NoMatchLeft
<1>4. best \in OrderId
  BY <1>1, <1>3 DEF Roots, TypeOK
<1>5. /\ s = "Buy" => order[p].price <= order[best].price
      /\ s = "Sell" => order[best].price <= order[p].price
  BY <1>1, <1>2, <1>3, RootHasBestPrice
<1>6. /\ order[o].price \in Nat /\ order[p].price \in Nat
      /\ order[best].price \in Nat
  BY <1>1, <1>2, <1>4 DEF TypeOK, Order
<1> QED BY <1>1, <1>3, <1>5, <1>6 DEF Accepts, Opposite, Side

(* The three ways out of PlaceOrder are Leave.                             *)
LEMMA ReturnIsLeave ==
  ASSUME EngineInv, NEW o \in OrderId,
         Rest(o) \/ CancelLeftover(o) \/ ReturnFilled(o)
  PROVE  Book!Leave(o)
<1>1. /\ TypeOK /\ TakerIsActive /\ HeapsHoldRestingOrders
      /\ order[o] \in Order /\ order[o].side \in Side
      /\ taker = o /\ taker' = NoOrder
  BY DEF EngineInv, TypeOK, Order, Rest, CancelLeftover, ReturnFilled,
         NoMatchLeft
<1>2. order[o].status # "Cancelled" /\ \A z \in Side : o \notin heaps[z]
  BY <1>1, EngineAssumption DEF TakerIsActive, HeapsHoldRestingOrders
<1>3. /\ BookTerms[o].type = order[o].type /\ BookTerms[o].side = order[o].side
      /\ BookLeft[o] = order[o].remaining
  BY DEF BookTerms, BookLeft, TermsOf
<1>4. \/ BookLeft[o] = 0
      \/ \A p \in BookLive[Book!Other(o)] : ~Book!Acceptable(o, p)
  <2>1. CASE order[o].remaining = 0
    BY <1>3, <2>1
  <2>2. CASE NoMatchLeft(o)
    <3> SUFFICES ASSUME NEW p \in BookLive[Book!Other(o)]
                 PROVE  ~Book!Acceptable(o, p)
      OBVIOUS
    <3>1. p \in BookLive[Opposite(order[o].side)]
      BY <1>1, AcceptableIsAccepts
    <3>2. p \in OrderId
      BY <1>1, <3>1, HeapPlaced DEF BookLive, Opposite, Side
    <3> QED BY <2>2, <3>1, <3>2, NothingAcceptable, AcceptableIsAccepts
  <2> QED BY <2>1, <2>2 DEF Rest, CancelLeftover, ReturnFilled
<1>5. BookTerms' = BookTerms /\ BookLeft' = BookLeft
  <2>1. CASE order' = order
    BY <2>1 DEF BookTerms, BookLeft, TermsOf
  <2>2. CASE CancelLeftover(o)
    <3>1. order' = [order EXCEPT ![o] = [order[o] EXCEPT !.status = "Cancelled"]]
      BY <2>2 DEF CancelLeftover
    <3>2. order'[o] = [order[o] EXCEPT !.status = "Cancelled"]
      BY <1>1, <3>1 DEF TypeOK
    <3>3. \A p \in OrderId :
            /\ order'[p].side = order[p].side
            /\ order'[p].type = order[p].type
            /\ order'[p].price = order[p].price
            /\ order'[p].quantity = order[p].quantity
            /\ order'[p].createdAt = order[p].createdAt
            /\ order'[p].remaining = order[p].remaining
      BY <1>1, <3>1, <3>2 DEF TypeOK, Order
    <3> QED BY <3>3, TermsUnchanged DEF BookLeft
  <2> QED BY <2>1, <2>2 DEF Rest, CancelLeftover, ReturnFilled
<1>6. BookLive' = IF BookLeft[o] > 0 /\ BookTerms[o].type = "Limit"
                  THEN [BookLive EXCEPT ![BookTerms[o].side] = @ \cup {o}]
                  ELSE BookLive
  <2>1. CASE Rest(o)
    <3>1. /\ order' = order /\ order[o].type = "Limit"
          /\ order[o].remaining > 0
          /\ heaps' = [heaps EXCEPT ![order[o].side] = @ \cup {o}]
      BY <2>1 DEF Rest, NoMatchLeft
    <3>2. BookLive' = [BookLive EXCEPT ![order[o].side] = @ \cup {o}]
      BY <1>1, <1>2, <3>1 DEF BookLive, Cancelled, TypeOK
    <3> QED BY <1>3, <3>1, <3>2
  <2>2. CASE CancelLeftover(o)
    <3>1. /\ heaps' = heaps /\ order[o].type = "Market"
          /\ \A p \in OrderId \ {o} : order'[p] = order[p]
      BY <1>1, <2>2 DEF CancelLeftover, TypeOK
    <3>2. \A z \in Side : \A p \in heaps[z] : p \in OrderId \ {o}
      BY <1>1, <1>2 DEF TypeOK
    <3>3. BookLive' = BookLive
      BY <3>1, <3>2 DEF BookLive, Cancelled
    <3> QED BY <1>3, <3>1, <3>3
  <2>3. CASE ReturnFilled(o)
    <3>1. /\ heaps' = heaps /\ order' = order /\ order[o].remaining = 0
      BY <2>3 DEF ReturnFilled
    <3>2. BookLive' = BookLive
      BY <3>1 DEF BookLive, Cancelled
    <3> QED BY <1>3, <3>1, <3>2
  <2> QED BY <2>1, <2>2, <2>3
<1> QED BY <1>1, <1>4, <1>5, <1>6
        DEF Book!Leave, BookTerms, BookLeft, BookLive

(* Cancelling a live order withdraws it; cancelling it again cannot be     *)
(* seen.                                                                   *)
LEMMA CancelIsWithdraw ==
  ASSUME EngineInv, NEW o \in OrderId, CancelOrder(o)
  PROVE  Book!Withdraw(o) \/ UNCHANGED Book!bookVars
<1>1. /\ TypeOK /\ HeapsHoldRestingOrders /\ order[o] \in Order
      /\ taker = NoOrder /\ taker' = taker /\ heaps' = heaps
      /\ o \in heaps["Buy"] \cup heaps["Sell"]
      /\ order' = [order EXCEPT ![o] = [order[o] EXCEPT !.status = "Cancelled"]]
  BY DEF EngineInv, TypeOK, CancelOrder
<1>2. /\ order'[o] = [order[o] EXCEPT !.status = "Cancelled"]
      /\ \A p \in OrderId \ {o} : order'[p] = order[p]
  BY <1>1 DEF TypeOK
<1>3. \A p \in OrderId :
        /\ order'[p].side = order[p].side
        /\ order'[p].type = order[p].type
        /\ order'[p].price = order[p].price
        /\ order'[p].quantity = order[p].quantity
        /\ order'[p].createdAt = order[p].createdAt
        /\ order'[p].remaining = order[p].remaining
  BY <1>1, <1>2 DEF Order
<1>4. BookTerms' = BookTerms /\ BookLeft' = BookLeft
  BY <1>3, TermsUnchanged DEF BookLeft
<1>5. \A p \in OrderId : Cancelled(p)' <=> p = o \/ Cancelled(p)
  BY <1>1, <1>2 DEF Cancelled, Order
<1>6. BookLive' = [s \in Side |-> BookLive[s] \ {o}]
  BY <1>1, <1>5 DEF BookLive, TypeOK
<1>7. CASE Cancelled(o)
  <2>1. BookLive' = BookLive
    BY <1>6, <1>7 DEF BookLive
  <2> QED BY <1>1, <1>4, <2>1
          DEF Book!bookVars, BookTerms, BookLeft, BookLive
<1>8. CASE ~Cancelled(o)
  <2>1. o \in BookLive["Buy"] \cup BookLive["Sell"]
    BY <1>1, <1>8 DEF BookLive, Side
  <2> QED BY <1>1, <1>4, <1>6, <2>1
          DEF Book!Withdraw, BookTerms, BookLeft, BookLive, Side
<1> QED BY <1>7, <1>8

(* The engine implements the order book that cancels at once.              *)
THEOREM EngineImplementsOrderBook == Spec => ImplementsOrderBook
<1>1. Init => Book!BookInit
  <2> SUFFICES ASSUME Init PROVE Book!BookInit
    OBVIOUS
  <2>1. \A o \in OrderId : order[o] = ZeroOrder
    BY DEF Init
  <2>2. \A o \in OrderId :
          TermsOf(o) \in [side : {"Buy", "Sell"}, type : {"Limit", "Market"},
                          price : {0}, quantity : {0}, createdAt : {0}]
    BY <2>1 DEF TermsOf, ZeroOrder
  <2>3. BookTerms \in [OrderId ->
          [side : {"Buy", "Sell"}, type : {"Limit", "Market"},
           price : {0}, quantity : {0}, createdAt : {0}]]
    BY <2>2 DEF BookTerms
  <2>4. BookLeft = [o \in OrderId |-> 0]
    BY <2>1 DEF BookLeft, ZeroOrder
  <2>5. BookLive = [s \in {"Buy", "Sell"} |-> {}]
    BY DEF BookLive, Init, Side
  <2>6. taker = NoOrder
    BY DEF Init
  <2> QED BY <2>3, <2>4, <2>5, <2>6
          DEF Book!BookInit, BookTerms, BookLeft, BookLive
<1>2. EngineInv /\ [Next]_vars => [Book!BookNext]_(Book!bookVars)
  <2> SUFFICES ASSUME EngineInv, [Next]_vars
               PROVE  Book!BookNext \/ UNCHANGED Book!bookVars
    OBVIOUS
  <2>1. ASSUME NEW o \in OrderId, NEW req \in Request, PlaceOrder(o, req)
        PROVE  Book!BookNext
    BY <2>1, PlaceIsSubmit DEF Book!BookNext
  <2>2. ASSUME NEW o \in OrderId, NEW best \in OrderId, DropCancelled(o, best)
        PROVE  UNCHANGED Book!bookVars
    BY <2>2, DropIsStutter
  <2>3. ASSUME Next, NEW o \in OrderId, NEW best \in OrderId, Fill(o, best)
        PROVE  Book!BookNext
    BY <2>3, FillIsMatch DEF Book!BookNext
  <2>4. ASSUME NEW o \in OrderId,
               Rest(o) \/ CancelLeftover(o) \/ ReturnFilled(o)
        PROVE  Book!BookNext
    BY <2>4, ReturnIsLeave DEF Book!BookNext
  <2>5. ASSUME NEW o \in OrderId, CancelOrder(o)
        PROVE  Book!BookNext \/ UNCHANGED Book!bookVars
    BY <2>5, CancelIsWithdraw DEF Book!BookNext
  <2>6. CASE UNCHANGED vars
    BY <2>6 DEF vars, Book!bookVars, TermsOf, Cancelled
  <2> QED BY <2>1, <2>2, <2>3, <2>4, <2>5, <2>6 DEF Next, MatchStep
<1> QED BY <1>1, <1>2, EngineInvariant, PTL
        DEF Spec, ImplementsOrderBook, Book!BookSpec
=============================================================================
