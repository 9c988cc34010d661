----------------------------- MODULE OrderBook ------------------------------
(***************************************************************************)
(* What the matching engine promises, without heaps: the live resting      *)
(* orders of each side, and a taker that trades with the best live order   *)
(* of the other side until it is used up or no live order is acceptable.   *)
(* Cancelling takes an order out of the book at once.                      *)
(*                                                                         *)
(* MatchingEngine cancels lazily: it marks the order and drops it when it  *)
(* becomes the root of its heap.  That it implements this specification    *)
(* says that the mark is never overlooked, that a cancelled order left in  *)
(* a heap never hides a live one behind it, and that price-time priority   *)
(* among the live orders is kept.                                          *)
(***************************************************************************)
EXTENDS Integers, FiniteSets

CONSTANTS OrderId, Terms, NoOrder

VARIABLES
  terms,   (* terms[o]: side, type, price, quantity and createdAt of o     *)
  left,    (* left[o]: the quantity of o that has not been traded          *)
  live,    (* live[s]: the resting orders of side s that can still trade   *)
  taker    (* the order being matched, or NoOrder                          *)

bookVars == <<terms, left, live, taker>>

Other(o) == IF terms[o].side = "Buy" THEN "Sell" ELSE "Buy"

(* o is served before p: the better price, then the earlier order.         *)
Precedes(o, p) ==
  LET a == terms[o]
      b == terms[p]
  IN  IF a.price = b.price THEN a.createdAt < b.createdAt
      ELSE IF a.side = "Buy" THEN a.price > b.price ELSE a.price < b.price

Acceptable(o, p) ==
  \/ terms[o].type = "Market"
  \/ IF terms[o].side = "Buy" THEN terms[p].price <= terms[o].price
                              ELSE terms[p].price >= terms[o].price

BookInit ==
  /\ terms \in [OrderId -> [side : {"Buy", "Sell"}, type : {"Limit", "Market"},
                            price : {0}, quantity : {0}, createdAt : {0}]]
  /\ left  = [o \in OrderId |-> 0]
  /\ live  = [s \in {"Buy", "Sell"} |-> {}]
  /\ taker = NoOrder

Submit(o, t) ==
  /\ taker = NoOrder
  /\ terms[o].quantity = 0
  /\ taker' = o
  /\ left'  = [left EXCEPT ![o] = t.quantity]
  /\ terms' = [terms EXCEPT ![o] = t]
  /\ UNCHANGED live

Match(o, p) ==
  LET qty == IF left[o] < left[p] THEN left[o] ELSE left[p] IN
  /\ taker = o
  /\ left[o] > 0
  /\ p \in live[Other(o)]
  /\ \A q \in live[Other(o)] : ~Precedes(q, p)
  /\ Acceptable(o, p)
  /\ left' = [left EXCEPT ![o] = @ - qty, ![p] = @ - qty]
  /\ live' = [live EXCEPT ![Other(o)] = {q \in @ : q # p \/ left[p] > qty}]
  /\ UNCHANGED <<taker, terms>>

(* The taker stops only when it is used up or nothing acceptable is live.  *)
Leave(o) ==
  /\ taker = o
  /\ left[o] = 0 \/ \A p \in live[Other(o)] : ~Acceptable(o, p)
  /\ live' = IF left[o] > 0 /\ terms[o].type = "Limit"
             THEN [live EXCEPT ![terms[o].side] = @ \cup {o}]
             ELSE live
  /\ taker' = NoOrder
  /\ UNCHANGED <<terms, left>>

Withdraw(o) ==
  /\ taker = NoOrder
  /\ o \in live["Buy"] \cup live["Sell"]
  /\ live' = [s \in {"Buy", "Sell"} |-> live[s] \ {o}]
  /\ UNCHANGED <<terms, left, taker>>

BookNext ==
  \E o \in OrderId :
    \/ \E t \in Terms : Submit(o, t)
    \/ \E p \in OrderId : Match(o, p)
    \/ Leave(o)
    \/ Withdraw(o)

BookSpec == BookInit /\ [][BookNext]_bookVars

=============================================================================
