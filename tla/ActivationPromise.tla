-------------------------- MODULE ActivationPromise --------------------------
(* What the shop promises about an order it has delivered by a provider,    *)
(* without saying how: the money is kept against a delivery or returned,    *)
(* what is known to be delivered is never written off, and what is settled  *)
(* stays settled.  ProviderOutbox implements it.                            *)

CONSTANT Orders

VARIABLES
  phase,    \* phase[o]: what the customer's order amounts to
  evidence  \* evidence[o]: the provider is known to have executed it

vars == <<phase, evidence>>

Init ==
  /\ phase = [o \in Orders |-> "unpaid"]
  /\ evidence = [o \in Orders |-> FALSE]

Becomes(o, p) == phase' = [phase EXCEPT ![o] = p]

(* The money is there. *)
Sell(o) ==
  /\ phase[o] = "unpaid"
  /\ Becomes(o, "open")
  /\ UNCHANGED evidence

(* A success is known and the order is completed, in one step. *)
Deliver(o) ==
  /\ phase[o] \in {"open", "failed"}
  /\ Becomes(o, "delivered")
  /\ evidence' = [evidence EXCEPT ![o] = TRUE]

Fail(o) ==
  /\ phase[o] = "open"
  /\ ~evidence[o]
  /\ Becomes(o, "failed")
  /\ UNCHANGED evidence

Reopen(o) ==
  /\ phase[o] = "failed"
  /\ Becomes(o, "open")
  /\ UNCHANGED evidence

(* The order is written off: only while no success is known. *)
Return(o) ==
  /\ phase[o] \in {"unpaid", "open", "failed"}
  /\ ~evidence[o]
  /\ Becomes(o, "returned")
  /\ UNCHANGED evidence

(* A success that comes to light after the return is put on record. *)
LateEvidence(o) ==
  /\ phase[o] = "returned"
  /\ evidence' = [evidence EXCEPT ![o] = TRUE]
  /\ UNCHANGED phase

Next ==
  \E o \in Orders :
    Sell(o) \/ Deliver(o) \/ Fail(o) \/ Reopen(o) \/ Return(o) \/ LateEvidence(o)

Spec == Init /\ [][Next]_vars
=============================================================================
