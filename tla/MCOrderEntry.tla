---------------------------- MODULE MCOrderEntry -----------------------------
(* The instance of OrderEntry that is checked.                             *)
EXTENDS OrderEntry

CONSTANTS Ann, Ben

(* Ann wants to place an order, and one OrderService will refuse; Ben one  *)
(* order, and one the Gateway will refuse.                                 *)
MCIntents ==
  {[person |-> Ann, nth |-> 1, form |-> "valid"],
   [person |-> Ann, nth |-> 2, form |-> "unpriced"],
   [person |-> Ben, nth |-> 1, form |-> "valid"],
   [person |-> Ben, nth |-> 2, form |-> "malformed"]}
=============================================================================
