-------------------------- MODULE ActivationOrders --------------------------
(* The life of an activation_orders row: the status values of the table and *)
(* the transitions db.py allows (VALID_ACT_TRANSITIONS), shared by every    *)
(* module that moves an order.                                              *)

(* Every value the status column takes. *)
OrderStatus == {"awaiting_payment", "paid", "awaiting_queue", "queued",
                "processing", "completed", "failed", "refunded", "cancelled"}

(* VALID_ACT_TRANSITIONS.get(from, set()): a status with no entry, and the  *)
(* terminal ones, have no successor.                                        *)
VALID_ACT_TRANSITIONS(from) ==
  CASE from = "awaiting_payment" -> {"paid", "cancelled"}
    [] from = "paid"             -> {"awaiting_queue", "queued", "processing",
                                     "completed", "failed", "refunded",
                                     "cancelled"}
    [] from = "awaiting_queue"   -> {"queued", "cancelled", "refunded"}
    [] from = "queued"           -> {"processing", "failed", "cancelled"}
    [] from = "processing"       -> {"completed", "failed"}
    [] from = "failed"           -> {"awaiting_queue", "paid", "completed",
                                     "refunded"}
    [] OTHER                     -> {}

(* Mutant: the check is forgotten. *)
AnyTransition(from, to) == TRUE

(* The test every checked writer makes: writing the status a row already    *)
(* has is accepted, any other value must be a listed successor.             *)
TransitionOk(from, to) == to = from \/ to \in VALID_ACT_TRANSITIONS(from)
=============================================================================
