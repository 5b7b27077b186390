------------------------------- MODULE OrderSaga -------------------------------
(***************************************************************************)
(* What Ordering promises about an order, with no outbox, worker, claim,   *)
(* retry or clock in it: a submitted order is decided by an inventory      *)
(* adapter, and then settled once and for all, and in one step, with a     *)
(* result that adapter has on record.  A confirmed order has a fulfillment *)
(* and a rejected one has none.                                            *)
(***************************************************************************)
CONSTANTS
  Orders,
  Adapters,
  FinalResults,  \* a result with a status and the id of its event
  Pending,       \* no result yet
  Fake           \* the adapters forget their results when their process ends

VARIABLES
  order,         \* orders.status
  operation,     \* the result on record in inventory_operations
  fulfillment,   \* whether the order has a fulfillment
  receipt        \* the result each adapter has on record

vars == <<order, operation, fulfillment, receipt>>

Init ==
  /\ order = [o \in Orders |-> "NONE"]
  /\ operation = [o \in Orders |-> Pending]
  /\ fulfillment = [o \in Orders |-> FALSE]
  /\ receipt = [a \in Adapters |-> [o \in Orders |-> Pending]]

Submit(o) ==
  /\ order[o] = "NONE"
  /\ order' = [order EXCEPT ![o] = "SUBMITTED"]
  /\ UNCHANGED <<operation, fulfillment, receipt>>

Decide(a, o) ==
  /\ order[o] # "NONE"
  /\ receipt[a][o] = Pending
  /\ \E result \in FinalResults :
       receipt' = [receipt EXCEPT ![a] = [receipt[a] EXCEPT ![o] = result]]
  /\ UNCHANGED <<order, operation, fulfillment>>

Settle(a, o) ==
  /\ order[o] = "SUBMITTED"
  /\ operation[o] = Pending
  /\ receipt[a][o] # Pending
  /\ operation' = [operation EXCEPT ![o] = receipt[a][o]]
  /\ IF receipt[a][o].status = "COMMITTED"
     THEN /\ order' = [order EXCEPT ![o] = "CONFIRMED"]
          /\ fulfillment' = [fulfillment EXCEPT ![o] = TRUE]
     ELSE /\ order' = [order EXCEPT ![o] = "REJECTED"]
          /\ UNCHANGED fulfillment
  /\ UNCHANGED receipt

(* Only a fake adapter loses what it has decided. *)
Forget(a) ==
  /\ Fake
  /\ receipt' = [receipt EXCEPT ![a] = [o \in Orders |-> Pending]]
  /\ UNCHANGED <<order, operation, fulfillment>>

Next ==
  \/ \E o \in Orders : Submit(o)
  \/ \E a \in Adapters : Forget(a) \/ \E o \in Orders : Decide(a, o) \/ Settle(a, o)

Spec == Init /\ [][Next]_vars

=============================================================================
