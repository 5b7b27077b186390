------------------------------- MODULE Fulfillment -------------------------------
(***************************************************************************)
(* What becomes of an order once it has been decided: cashiers read it and *)
(* move it on, and the customer is told (ordering/domain/order.go,         *)
(* application/service.go, adapters/postgres/store.go).                    *)
(*                                                                         *)
(* A request reads the clock of its own process, runs one transaction,     *)
(* which locks a single row first and so is one step, and then, outside of *)
(* it, tells the customer.  Clocks of different processes may disagree.    *)
(* How an order is decided is modelled in InventoryOutbox.                 *)
(***************************************************************************)
EXTENDS Naturals, Sequences

CONSTANTS
  Orders,
  Cashiers,
  Requests,
  Asks,      \* what a request may ask for
  MaxTime,   \* of the clocks
  NoAsk, NoAnswer, NoFulfillment, Nobody, Never

Times == 0..MaxTime

Targets == {"DELIVERING", "DELIVERED"}

Stages == {"PREPARING"} \cup Targets

Fulfillments ==
  [status : Stages, version : 1..3, readBy : Cashiers \cup {Nobody},
   updatedBy : Cashiers \cup {Nobody},
   deliveringAt : Times \cup {Never}, deliveredAt : Times \cup {Never}]

(* audit_records: that an order was read, or moved on. *)
Audits == [action : {"READ"} \cup Targets, by : Cashiers, at : Times]

Answers == {"OK", "NOT_FOUND", "INVALID_TRANSITION", "ERROR"}

ASSUME FulfillmentAssumption ==
  /\ Asks \subseteq [kind : {"read"} \cup Targets, order : Orders, by : Cashiers]
  /\ MaxTime \in Nat
  /\ NoAsk \notin Asks
  /\ NoAnswer \notin Answers
  /\ NoFulfillment \notin Fulfillments
  /\ Nobody \notin Cashiers
  /\ Never \notin Times

VARIABLES
  order,        \* orders.status
  fulfillment,  \* the row of each order, if there is one
  trail,        \* what the audit records tell about each order
  told,         \* notifications that have been logged
  ask, pc, now, answer

orders == <<order, fulfillment, trail, told>>
requests == <<ask, pc, now, answer>>
fvars == <<orders, requests>>

FulfillmentInit ==
  /\ order = [o \in Orders |-> "NONE"]
  /\ fulfillment = [o \in Orders |-> NoFulfillment]
  /\ trail = [o \in Orders |-> <<>>]
  /\ told = {}
  /\ ask = [r \in Requests |-> NoAsk]
  /\ pc = [r \in Requests |-> "idle"]
  /\ now = [r \in Requests |-> 0]
  /\ answer = [r \in Requests |-> NoAnswer]

-----------------------------------------------------------------------------
(* Pure parts                                                              *)

(* CustomerState, of an order that there is. *)
CustomerState(o) ==
  CASE order[o] = "NONE" -> "NONE"
    [] order[o] = "SUBMITTED" -> "PREPARING"
    [] order[o] = "REJECTED" -> "REJECTED"
    [] OTHER -> CASE fulfillment[o].status = "PREPARING" -> "PREPARING"
                  [] fulfillment[o].status = "DELIVERING" -> "ON_THE_WAY"
                  [] OTHER -> "DELIVERED"

(* As the cashiers' list shows it. *)
CashierState(o) ==
  IF fulfillment[o] = NoFulfillment THEN "out"
  ELSE IF fulfillment[o].readBy = Nobody THEN "unread" ELSE "read"

(* Repeating what has been done is allowed. *)
ValidateFulfillmentTarget(current, target) ==
  \/ current = target /\ current \in Targets
  \/ current = "PREPARING" /\ target = "DELIVERING"
  \/ current = "DELIVERING" /\ target = "DELIVERED"

(* Mutant: no constraint relates the times. *)
Timeline_Dropped(f) == TRUE

(* The constraint fulfillments_timeline. *)
Timeline(f) ==
  /\ f.status = "PREPARING" => f.deliveringAt = Never /\ f.deliveredAt = Never
  /\ f.status = "DELIVERING" => f.deliveringAt # Never /\ f.deliveredAt = Never
  /\ f.status = "DELIVERED" =>
       f.deliveringAt # Never /\ f.deliveredAt # Never /\ f.deliveredAt >= f.deliveringAt
  /\ f.status # "PREPARING" => f.updatedBy # Nobody

NewFulfillment ==
  [status |-> "PREPARING", version |-> 1, readBy |-> Nobody, updatedBy |-> Nobody,
   deliveringAt |-> Never, deliveredAt |-> Never]

(* The row that an UPDATE makes of f. *)
Moved(f, target, by, at) ==
  IF target = "DELIVERING"
  THEN [f EXCEPT !.status = target, !.version = @ + 1, !.updatedBy = by, !.deliveringAt = at]
  ELSE [f EXCEPT !.status = target, !.version = @ + 1, !.updatedBy = by, !.deliveredAt = at]

-----------------------------------------------------------------------------
(* The outcome of the checkout and of the inventory's decision             *)

Submit(o) ==
  /\ order[o] = "NONE"
  /\ order' = [order EXCEPT ![o] = "SUBMITTED"]
  /\ UNCHANGED <<fulfillment, trail, told, requests>>

(* Mutant: the order is confirmed before its fulfillment is there. *)
Decide_StatusFirst(o) ==
  /\ order[o] = "SUBMITTED"
  /\ order' = [order EXCEPT ![o] = "CONFIRMED"]
  /\ UNCHANGED <<fulfillment, trail, told, requests>>

Decide(o) ==
  /\ order[o] = "SUBMITTED"
  /\ \/ /\ order' = [order EXCEPT ![o] = "CONFIRMED"]
        /\ fulfillment' = [fulfillment EXCEPT ![o] = NewFulfillment]
     \/ /\ order' = [order EXCEPT ![o] = "REJECTED"]
        /\ UNCHANGED fulfillment
  /\ UNCHANGED <<trail, told, requests>>

-----------------------------------------------------------------------------
(* Requests of cashiers                                                    *)

Order(r) == ask[r].order

Confirmed(r) == order[Order(r)] = "CONFIRMED"

Row(r) == fulfillment[Order(r)]

Goto(r, p) ==
  /\ pc' = [pc EXCEPT ![r] = p]
  /\ UNCHANGED <<ask, now, answer>>

Reply(r, a) ==
  /\ pc' = [pc EXCEPT ![r] = "done"]
  /\ answer' = [answer EXCEPT ![r] = a]
  /\ UNCHANGED <<ask, now>>

(* A transaction that is rolled back. *)
Refuse(r, a) == Reply(r, a) /\ UNCHANGED orders

Audited(r, action) ==
  trail' = [trail EXCEPT ![Order(r)] =
              Append(@, [action |-> action, by |-> ask[r].by, at |-> now[r]])]

Ask(r) ==
  /\ pc[r] = "idle"
  /\ \E m \in Asks, t \in Times :
       /\ ask' = [ask EXCEPT ![r] = m]
       /\ now' = [now EXCEPT ![r] = t]
  /\ pc' = [pc EXCEPT ![r] = "store"]
  /\ UNCHANGED <<orders, answer>>

(* Mutant: whoever reads an order last is the one who has read it. *)
MarkCashierRead_Overwrites(r) ==
  /\ pc[r] = "store" /\ ask[r].kind = "read"
  /\ \/ /\ Confirmed(r)
        /\ fulfillment' = [fulfillment EXCEPT ![Order(r)].readBy = ask[r].by]
        /\ Audited(r, "READ")
        /\ Reply(r, "OK") \/ Reply(r, "ERROR")
        /\ UNCHANGED <<order, told>>
     \/ ~ Confirmed(r) /\ Refuse(r, "NOT_FOUND")

(* The first one to read an order stays the one who has read it.  The      *)
(* answer to a COMMIT may get lost.                                        *)
MarkCashierRead(r) ==
  /\ pc[r] = "store" /\ ask[r].kind = "read"
  /\ \/ /\ Confirmed(r) /\ Row(r).readBy = Nobody
        /\ fulfillment' = [fulfillment EXCEPT ![Order(r)].readBy = ask[r].by]
        /\ Audited(r, "READ")
        /\ Reply(r, "OK") \/ Reply(r, "ERROR")
        /\ UNCHANGED <<order, told>>
     \/ Confirmed(r) /\ Row(r).readBy # Nobody /\ Refuse(r, "OK")
     \/ ~ Confirmed(r) /\ Refuse(r, "NOT_FOUND")

(* Mutant: the customer is told of what has been asked for. *)
AdvanceFulfillment_TellsAnyway(r) ==
  LET target == ask[r].kind
      moved == Moved(Row(r), target, ask[r].by, now[r]) IN
  /\ pc[r] = "store" /\ target \in Targets
  /\ IF /\ Confirmed(r) /\ Row(r).status # target
        /\ ValidateFulfillmentTarget(Row(r).status, target)
        /\ Timeline(moved)
     THEN /\ fulfillment' = [fulfillment EXCEPT ![Order(r)] = moved]
          /\ Audited(r, target)
          /\ UNCHANGED <<order, told>>
     ELSE UNCHANGED orders
  /\ Goto(r, "notify")

AdvanceFulfillment(r) ==
  LET target == ask[r].kind
      moved == Moved(Row(r), target, ask[r].by, now[r]) IN
  /\ pc[r] = "store" /\ target \in Targets
  /\ \/ ~ Confirmed(r) /\ Refuse(r, "NOT_FOUND")
     \/ /\ Confirmed(r)
        /\ ~ ValidateFulfillmentTarget(Row(r).status, target)
        /\ Refuse(r, "INVALID_TRANSITION")
     \/ /\ Confirmed(r) /\ Row(r).status = target
        /\ Goto(r, "notify")
        /\ UNCHANGED orders
     \/ /\ Confirmed(r) /\ Row(r).status # target
        /\ ValidateFulfillmentTarget(Row(r).status, target)
        /\ IF Timeline(moved)
           THEN /\ fulfillment' = [fulfillment EXCEPT ![Order(r)] = moved]
                /\ Audited(r, target)
                /\ Goto(r, "notify") \/ Reply(r, "ERROR")
                /\ UNCHANGED <<order, told>>
           ELSE Refuse(r, "ERROR")

Kind(target) ==
  IF target = "DELIVERED" THEN "ORDER_DELIVERED" ELSE "ORDER_ON_THE_WAY"

(* The error of a notification is ignored. *)
Notify(r) ==
  /\ pc[r] = "notify"
  /\ told' \in {told, told \cup {<<Order(r), Kind(ask[r].kind)>>}}
  /\ Reply(r, "OK")
  /\ UNCHANGED <<order, fulfillment, trail>>

(* The process ends, or the database is gone. *)
Fail(r) == pc[r] \in {"store", "notify"} /\ Refuse(r, "ERROR")

(* Another request. *)
Again(r) ==
  /\ pc[r] = "done"
  /\ pc' = [pc EXCEPT ![r] = "idle"]
  /\ ask' = [ask EXCEPT ![r] = NoAsk]
  /\ now' = [now EXCEPT ![r] = 0]
  /\ answer' = [answer EXCEPT ![r] = NoAnswer]
  /\ UNCHANGED orders

FulfillmentNext ==
  \/ \E o \in Orders : Submit(o) \/ Decide(o)
  \/ \E r \in Requests :
       \/ Ask(r) \/ MarkCashierRead(r) \/ AdvanceFulfillment(r)
       \/ Notify(r) \/ Fail(r) \/ Again(r)

FulfillmentSpec == FulfillmentInit /\ [][FulfillmentNext]_fvars

-----------------------------------------------------------------------------
(* What should hold                                                        *)

FulfillmentTypeOK ==
  /\ order \in [Orders -> {"NONE", "SUBMITTED", "CONFIRMED", "REJECTED"}]
  /\ fulfillment \in [Orders -> Fulfillments \cup {NoFulfillment}]
  /\ trail \in [Orders -> Seq(Audits)]
  /\ told \subseteq Orders \X {"ORDER_ON_THE_WAY", "ORDER_DELIVERED"}
  /\ ask \in [Requests -> Asks \cup {NoAsk}]
  /\ pc \in [Requests -> {"idle", "store", "notify", "done"}]
  /\ now \in [Requests -> Times]
  /\ answer \in [Requests -> Answers \cup {NoAnswer}]
  /\ \A r \in Requests : (pc[r] = "idle") <=> (ask[r] = NoAsk)
  /\ \A o \in Orders : (order[o] = "CONFIRMED") <=> (fulfillment[o] # NoFulfillment)

Moves(t) == {i \in 1..Len(t) : t[i].action \in Targets}

Reads(t) == {i \in 1..Len(t) : t[i].action = "READ"}

(* Does a trail tell how the row came about? *)
Tells(t, f) ==
  /\ f = NoFulfillment => t = <<>>
  /\ f # NoFulfillment =>
       /\ \A i, j \in Reads(t) : i = j
       /\ f.readBy = Nobody => Reads(t) = {}
       /\ f.readBy # Nobody => \E i \in Reads(t) : t[i].by = f.readBy
       /\ f.status = "PREPARING" => Moves(t) = {}
       /\ f.status # "PREPARING" =>
            \E i \in Moves(t) : t[i].action = f.status /\ t[i].by = f.updatedBy
       /\ f.status = "DELIVERING" => \A i \in Moves(t) : t[i].action = "DELIVERING"
       /\ f.status = "DELIVERED" => \E i \in Moves(t) : t[i].action = "DELIVERING"
       /\ \A i, j \in Moves(t) :
            /\ t[i].action = t[j].action => i = j
            /\ i < j => t[i].action = "DELIVERING" /\ t[i].at <= t[j].at

(* The audit records tell the whole story of an order, however many        *)
(* cashiers ask for the same at once and however often: each step is there *)
(* once, in order, by the one the row names, at times that do not run      *)
(* backwards; and it was read once, by the one the row names.              *)
(* (AdvanceFulfillment and MarkCashierRead, and the timeline constraint)   *)
TrailTrue == \A o \in Orders : Tells(trail[o], fulfillment[o])

Life == INSTANCE OrderLife WITH
  state <- [o \in Orders |-> CustomerState(o)],
  queue <- [o \in Orders |-> CashierState(o)]

(* An order goes from one state its customer is shown to the next, and     *)
(* never back; it is rejected only before the cashiers see it, is read     *)
(* once, and the customer is told only what is so, although the telling    *)
(* comes after the transaction and may be overtaken by others.             *)
(* (contracts/README.md:19-22; application/service.go, AdvanceFulfillment) *)
LifeSpec == Life!Spec

=============================================================================
