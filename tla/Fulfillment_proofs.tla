--------------------------- MODULE Fulfillment_proofs ---------------------------
(***************************************************************************)
(* Theorems about Fulfillment and OrderLists, for any number of orders,    *)
(* cashiers, requests and lists, and any clocks.                           *)
(***************************************************************************)
EXTENDS OrderLists, FiniteSetTheorems, TLAPS

(* The times on a row agree with its stage, and the audit records agree    *)
(* with the row: the time of the delivery is compared with the row's, not  *)
(* with the records'.                                                      *)
Versioned(f) ==
  /\ f.status = "PREPARING" => f.version = 1
  /\ f.status = "DELIVERING" => f.version = 2
  /\ f.status = "DELIVERED" => f.version = 3

Timed ==
  \A o \in Orders :
    fulfillment[o] # NoFulfillment =>
      /\ Timeline(fulfillment[o])
      /\ Versioned(fulfillment[o])
      /\ \A i \in 1..Len(trail[o]) :
           trail[o][i].action = "DELIVERING" => trail[o][i].at = fulfillment[o].deliveringAt

(* What is stored about orders. *)
OrdersInv ==
  /\ order \in [Orders -> {"NONE", "SUBMITTED", "CONFIRMED", "REJECTED"}]
  /\ fulfillment \in [Orders -> Fulfillments \cup {NoFulfillment}]
  /\ trail \in [Orders -> Seq(Audits)]
  /\ told \subseteq Orders \X {"ORDER_ON_THE_WAY", "ORDER_DELIVERED"}
  /\ \A o \in Orders : (order[o] = "CONFIRMED") <=> (fulfillment[o] # NoFulfillment)
  /\ Timed
  /\ TrailTrue

RequestTypes ==
  /\ ask \in [Requests -> Asks \cup {NoAsk}]
  /\ pc \in [Requests -> {"idle", "store", "notify", "done"}]
  /\ now \in [Requests -> Times]
  /\ answer \in [Requests -> Answers \cup {NoAnswer}]
  /\ \A r \in Requests : (pc[r] = "idle") <=> (ask[r] = NoAsk)

(* Whoever is about to tell the customer tells what is so. *)
Reached(r) ==
  /\ ask[r].kind \in Targets
  /\ order[Order(r)] = "CONFIRMED"
  /\ Row(r).status \in {ask[r].kind, "DELIVERED"}

Tellable == \A r \in Requests : pc[r] = "notify" => Reached(r)

FulfillmentInv == OrdersInv /\ RequestTypes /\ Tellable

(* Nothing is taken back. *)
Forward ==
  \A o \in Orders :
    /\ order[o] = "CONFIRMED" => order'[o] = "CONFIRMED"
    /\ order[o] = "CONFIRMED" /\ fulfillment[o].status = "DELIVERING" =>
         fulfillment'[o].status \in Targets
    /\ order[o] = "CONFIRMED" /\ fulfillment[o].status = "DELIVERED" =>
         fulfillment'[o].status = "DELIVERED"

-----------------------------------------------------------------------------
(* About single steps                                                      *)

LEMMA AskFacts ==
  ASSUME RequestTypes, NEW r \in Requests, pc[r] # "idle"
  PROVE  /\ ask[r] \in Asks
         /\ Order(r) \in Orders
         /\ ask[r].by \in Cashiers
         /\ ask[r].kind \in {"read"} \cup Targets
         /\ now[r] \in Times
BY FulfillmentAssumption DEF RequestTypes, Order

LEMMA RowFacts ==
  ASSUME OrdersInv, NEW o \in Orders, order[o] = "CONFIRMED"
  PROVE  /\ fulfillment[o] \in Fulfillments
         /\ fulfillment[o] # NoFulfillment
BY DEF OrdersInv

(* A row that an UPDATE makes is a row, and has the next version. *)
LEMMA MovedFacts ==
  ASSUME NEW f \in Fulfillments, NEW target \in Targets,
         NEW by \in Cashiers, NEW t \in Times,
         f.status # target, ValidateFulfillmentTarget(f.status, target), Timeline(f), Versioned(f),
         NEW g, g = Moved(f, target, by, t)
  PROVE  /\ g \in Fulfillments
         /\ g # NoFulfillment
         /\ g.status = target /\ g.updatedBy = by /\ g.readBy = f.readBy
         /\ Versioned(g)
         /\ target = "DELIVERING" => f.status = "PREPARING" /\ g.deliveringAt = t
         /\ target = "DELIVERED" =>
              /\ f.status = "DELIVERING"
              /\ g.deliveringAt = f.deliveringAt /\ g.deliveredAt = t
<1>1. CASE target = "DELIVERING"
  <2>1. f.status = "PREPARING" /\ f.version = 1
    BY <1>1 DEF ValidateFulfillmentTarget, Fulfillments, Stages, Targets, Versioned
  <2>2. g = [f EXCEPT !.status = target, !.version = 2, !.updatedBy = by, !.deliveringAt = t]
    BY <1>1, <2>1 DEF Moved
  <2>3. /\ g.status = target /\ g.updatedBy = by /\ g.readBy = f.readBy
        /\ g.version = 2 /\ g.deliveringAt = t /\ g.deliveredAt = f.deliveredAt
    BY <2>2 DEF Fulfillments
  <2>4. g \in Fulfillments
    <3>1. g = [status |-> target, version |-> 2, readBy |-> f.readBy, updatedBy |-> by,
               deliveringAt |-> t, deliveredAt |-> f.deliveredAt]
      BY <2>2 DEF Fulfillments
    <3>2. /\ f.readBy \in Cashiers \cup {Nobody}
          /\ f.deliveredAt \in Times \cup {Never}
      BY DEF Fulfillments
    <3>. QED  BY <3>1, <3>2 DEF Fulfillments, Stages
  <2>5. Versioned(g) /\ g # NoFulfillment
    <3>1. Versioned(g)
      BY <1>1, <2>3 DEF Versioned
    <3>2. g # NoFulfillment
      BY <2>4, FulfillmentAssumption
    <3>. QED  BY <3>1, <3>2
  <2>. QED  BY <1>1, <2>1, <2>3, <2>4, <2>5
<1>2. CASE target = "DELIVERED"
  <2>1. f.status = "DELIVERING" /\ f.version = 2
    BY <1>2 DEF ValidateFulfillmentTarget, Fulfillments, Stages, Targets, Versioned
  <2>2. g = [f EXCEPT !.status = target, !.version = 3, !.updatedBy = by, !.deliveredAt = t]
    BY <1>2, <2>1 DEF Moved
  <2>3. /\ g.status = target /\ g.updatedBy = by /\ g.readBy = f.readBy
        /\ g.version = 3 /\ g.deliveringAt = f.deliveringAt /\ g.deliveredAt = t
    BY <2>2 DEF Fulfillments
  <2>4. g \in Fulfillments
    <3>1. g = [status |-> target, version |-> 3, readBy |-> f.readBy, updatedBy |-> by,
               deliveringAt |-> f.deliveringAt, deliveredAt |-> t]
      BY <2>2 DEF Fulfillments
    <3>2. /\ f.readBy \in Cashiers \cup {Nobody}
          /\ f.deliveringAt \in Times \cup {Never}
      BY DEF Fulfillments
    <3>. QED  BY <3>1, <3>2 DEF Fulfillments, Stages
  <2>5. Versioned(g) /\ g # NoFulfillment
    <3>1. Versioned(g)
      BY <1>2, <2>3 DEF Versioned
    <3>2. g # NoFulfillment
      BY <2>4, FulfillmentAssumption
    <3>. QED  BY <3>1, <3>2
  <2>. QED  BY <1>2, <2>1, <2>3, <2>4, <2>5
<1>. QED  BY <1>1, <1>2 DEF Targets

(* What a record more does to a trail. *)
Extended(t, a, u) ==
  /\ Len(t) \in Nat /\ Len(u) = Len(t) + 1
  /\ \A i \in 1..Len(t) : u[i] = t[i]
  /\ u[Len(t) + 1] = a

LEMMA Appended ==
  ASSUME NEW t \in Seq(Audits), NEW a \in Audits
  PROVE  Append(t, a) \in Seq(Audits) /\ Extended(t, a, Append(t, a))
BY DEF Extended

LEMMA AppendedRead ==
  ASSUME NEW t \in Seq(Audits), NEW a \in Audits, a.action = "READ",
         NEW u, Extended(t, a, u)
  PROVE  Moves(u) = Moves(t) /\ Reads(u) = Reads(t) \cup {Len(t) + 1}
<1>1. "READ" \notin Targets
  BY DEF Targets
<1>. QED  BY <1>1 DEF Extended, Moves, Reads

LEMMA AppendedMove ==
  ASSUME NEW t \in Seq(Audits), NEW a \in Audits, a.action \in Targets,
         NEW u, Extended(t, a, u)
  PROVE  Reads(u) = Reads(t) /\ Moves(u) = Moves(t) \cup {Len(t) + 1}
<1>1. a.action # "READ"
  BY DEF Targets
<1>. QED  BY <1>1 DEF Extended, Moves, Reads

(* The first reading of an order is the only one that is recorded. *)
LEMMA TellsRead ==
  ASSUME NEW t \in Seq(Audits), NEW f \in Fulfillments, f # NoFulfillment,
         Tells(t, f), f.readBy = Nobody,
         NEW a \in Audits, a.action = "READ", a.by # Nobody,
         NEW u, Extended(t, a, u),
         NEW g \in Fulfillments, g # NoFulfillment,
         g.readBy = a.by, g.status = f.status, g.updatedBy = f.updatedBy
  PROVE  Tells(u, g)
<1>1. /\ Len(t) \in Nat
      /\ \A i \in 1..Len(t) : u[i] = t[i]
      /\ u[Len(t) + 1] = a
  BY DEF Extended
<1>2. Moves(u) = Moves(t) /\ Reads(u) = Reads(t) \cup {Len(t) + 1}
  BY AppendedRead
<1>3. Reads(t) = {}
  BY DEF Tells
<1>4. \A i \in Moves(t) : u[i] = t[i]
  BY <1>1 DEF Moves
<1>5. g.readBy # Nobody /\ \E i \in Reads(u) : u[i].by = g.readBy
  BY <1>1, <1>2
<1>6. \A i, j \in Reads(u) : i = j
  BY <1>2, <1>3
<1>7. /\ g.status = "PREPARING" => Moves(u) = {}
      /\ g.status # "PREPARING" =>
           \E i \in Moves(u) : u[i].action = g.status /\ u[i].by = g.updatedBy
      /\ g.status = "DELIVERING" => \A i \in Moves(u) : u[i].action = "DELIVERING"
      /\ g.status = "DELIVERED" => \E i \in Moves(u) : u[i].action = "DELIVERING"
  BY <1>2, <1>4 DEF Tells
<1>8. \A i, j \in Moves(t) :
        /\ t[i].action = t[j].action => i = j
        /\ i < j => t[i].action = "DELIVERING" /\ t[i].at <= t[j].at
  BY DEF Tells
<1>9. \A i, j \in Moves(u) :
        /\ u[i].action = u[j].action => i = j
        /\ i < j => u[i].action = "DELIVERING" /\ u[i].at <= u[j].at
  BY <1>2, <1>4, <1>8
<1>. QED  BY <1>5, <1>6, <1>7, <1>9 DEF Tells

(* A step forward is recorded behind those before it. *)
LEMMA TellsMove ==
  ASSUME NEW t \in Seq(Audits), NEW f \in Fulfillments, f # NoFulfillment,
         Tells(t, f),
         \A i \in 1..Len(t) : t[i].action = "DELIVERING" => t[i].at = f.deliveringAt,
         NEW a \in Audits, a.action \in Targets,
         NEW u, Extended(t, a, u),
         NEW g \in Fulfillments, g # NoFulfillment, Timeline(g),
         g.status = a.action, g.updatedBy = a.by, g.readBy = f.readBy,
         a.action = "DELIVERING" => f.status = "PREPARING" /\ g.deliveringAt = a.at,
         a.action = "DELIVERED" =>
           /\ f.status = "DELIVERING"
           /\ g.deliveringAt = f.deliveringAt /\ g.deliveredAt = a.at
  PROVE  /\ Tells(u, g)
         /\ \A i \in 1..Len(u) : u[i].action = "DELIVERING" => u[i].at = g.deliveringAt
<1>. DEFINE n == Len(t) + 1
<1>1. /\ Len(t) \in Nat /\ Len(u) = n
      /\ \A i \in 1..Len(t) : u[i] = t[i]
      /\ u[n] = a
  BY DEF Extended
<1>2. Reads(u) = Reads(t) /\ Moves(u) = Moves(t) \cup {n}
  BY AppendedMove
<1>3. /\ \A i \in Moves(t) : u[i] = t[i] /\ i < n /\ i \in Nat
      /\ \A i \in Reads(t) : u[i] = t[i]
  BY <1>1 DEF Moves, Reads
<1>4. /\ \A i, j \in Reads(u) : i = j
      /\ g.readBy = Nobody => Reads(u) = {}
      /\ g.readBy # Nobody => \E i \in Reads(u) : u[i].by = g.readBy
  BY <1>2, <1>3 DEF Tells
<1>. HIDE DEF n
<1>5. CASE a.action = "DELIVERING"
  <2>1. Moves(t) = {} /\ Moves(u) = {n}
    BY <1>2, <1>5 DEF Tells
  <2>2. \A i \in 1..Len(u) : u[i].action = "DELIVERING" => i = n
    BY <2>1 DEF Moves, Targets
  <2>3. Tells(u, g)
    <3>1. \A i, j \in Moves(u) :
            /\ u[i].action = u[j].action => i = j
            /\ i < j => u[i].action = "DELIVERING" /\ u[i].at <= u[j].at
      <4>1. n \in Nat
        BY <1>1 DEF n
      <4>. QED  BY <2>1, <4>1
    <3>2. \E i \in Moves(u) : u[i].action = g.status /\ u[i].by = g.updatedBy
      BY <1>1, <2>1
    <3>3. \A i \in Moves(u) : u[i].action = "DELIVERING"
      BY <1>1, <1>5, <2>1
    <3>. QED  BY <1>4, <1>5, <3>1, <3>2, <3>3 DEF Tells
  <2>. QED  BY <1>1, <1>5, <2>2, <2>3
<1>6. CASE a.action = "DELIVERED"
  <2>1. \A i \in Moves(t) : t[i].action = "DELIVERING" /\ t[i].at = f.deliveringAt
    <3>. SUFFICES ASSUME NEW i \in Moves(t)
                  PROVE  t[i].action = "DELIVERING" /\ t[i].at = f.deliveringAt
      OBVIOUS
    <3>1. t[i].action = "DELIVERING"
      BY <1>6 DEF Tells
    <3>2. i \in 1..Len(t)
      BY DEF Moves
    <3>. QED  BY <3>1, <3>2
  <2>2. g.deliveringAt <= a.at
    BY <1>6 DEF Timeline
  <2>3. PICK k \in Moves(t) : t[k].action = "DELIVERING"
    BY <1>6 DEF Tells
  <2>4. \A i, j \in Moves(u) :
          /\ u[i].action = u[j].action => i = j
          /\ i < j => u[i].action = "DELIVERING" /\ u[i].at <= u[j].at
    <3>. SUFFICES ASSUME NEW i \in Moves(u), NEW j \in Moves(u)
                  PROVE  /\ u[i].action = u[j].action => i = j
                         /\ i < j => u[i].action = "DELIVERING" /\ u[i].at <= u[j].at
      OBVIOUS
    <3>0. n \in Nat
      BY <1>1 DEF n
    <3>1. CASE i = n /\ j = n
      BY <3>0, <3>1
    <3>2. CASE i \in Moves(t) /\ j \in Moves(t)
      <4>1. u[i] = t[i] /\ u[j] = t[j]
        BY <1>3, <3>2
      <4>. QED  BY <3>2, <4>1 DEF Tells
    <3>3. CASE i \in Moves(t) /\ j = n
      <4>1. u[i] = t[i] /\ u[j] = a /\ i < j
        BY <1>1, <1>3, <3>3
      <4>2. u[i].action = "DELIVERING" /\ u[i].at = g.deliveringAt
        BY <1>6, <2>1, <3>3, <4>1
      <4>3. u[i].at <= u[j].at
        BY <2>2, <4>1, <4>2
      <4>. QED  BY <1>6, <4>1, <4>2, <4>3
    <3>4. CASE i = n /\ j \in Moves(t)
      <4>1. u[j] = t[j] /\ u[i] = a /\ ~ (i < j)
        BY <1>1, <1>3, <3>0, <3>4
      <4>. QED  BY <1>6, <2>1, <3>4, <4>1
    <3>. QED  BY <1>2, <3>1, <3>2, <3>3, <3>4
  <2>5. /\ \E i \in Moves(u) : u[i].action = g.status /\ u[i].by = g.updatedBy
        /\ \E i \in Moves(u) : u[i].action = "DELIVERING"
    BY <1>1, <1>2, <1>3, <2>3
  <2>6. Tells(u, g)
    BY <1>4, <1>6, <2>4, <2>5 DEF Tells
  <2>7. \A i \in 1..Len(u) : u[i].action = "DELIVERING" => u[i].at = g.deliveringAt
    <3>. SUFFICES ASSUME NEW i \in 1..Len(u), u[i].action = "DELIVERING"
                  PROVE  u[i].at = g.deliveringAt
      OBVIOUS
    <3>1. i \in 1..Len(t)
      BY <1>1, <1>6 DEF n
    <3>. QED  BY <1>1, <1>6, <3>1
  <2>. QED  BY <2>6, <2>7
<1>. QED  BY <1>5, <1>6 DEF Targets

-----------------------------------------------------------------------------
(* The steps                                                               *)

LEMMA OrdersStay ==
  ASSUME OrdersInv, UNCHANGED <<order, fulfillment, trail>>,
         told' \subseteq Orders \X {"ORDER_ON_THE_WAY", "ORDER_DELIVERED"}
  PROVE  OrdersInv' /\ Forward
BY DEF OrdersInv, Timed, TrailTrue, Forward, Targets

LEMMA RequestsStay ==
  ASSUME RequestTypes, Tellable, UNCHANGED requests, Forward
  PROVE  RequestTypes' /\ Tellable'
<1>1. RequestTypes'
  BY DEF RequestTypes, requests
<1>2. ASSUME NEW r \in Requests, pc'[r] = "notify"
      PROVE  Reached(r)'
  <2>1. Reached(r) /\ Order(r) \in Orders
    BY <1>2, AskFacts DEF Tellable, requests
  <2>. QED  BY <2>1 DEF requests, Reached, Order, Row, Forward, Targets
<1>. QED  BY <1>1, <1>2 DEF Tellable

(* One request takes a step. *)
LEMMA OneMoves ==
  ASSUME RequestTypes, Tellable, Forward, NEW r \in Requests,
         (Goto(r, "notify") /\ Reached(r)') \/ \E a \in Answers : Reply(r, a),
         pc[r] # "idle"
  PROVE  RequestTypes' /\ Tellable'
<1>1. UNCHANGED <<ask, now>>
  BY DEF Goto, Reply
<1>2. RequestTypes'
  BY DEF RequestTypes, Goto, Reply
<1>3. ASSUME NEW q \in Requests, pc'[q] = "notify"
      PROVE  Reached(q)'
  <2>1. CASE q = r
    BY <1>3, <2>1 DEF RequestTypes, Reply
  <2>2. CASE q # r
    <3>1. pc[q] = "notify"
      BY <1>3, <2>2 DEF RequestTypes, Goto, Reply
    <3>2. Reached(q) /\ Order(q) \in Orders
      BY <3>1, AskFacts DEF Tellable
    <3>. QED  BY <1>1, <3>2 DEF Reached, Order, Row, Forward, Targets
  <2>. QED  BY <2>1, <2>2
<1>. QED  BY <1>2, <1>3 DEF Tellable

LEMMA SubmitSafe ==
  ASSUME FulfillmentInv, NEW o \in Orders, Submit(o)
  PROVE  FulfillmentInv'
<1>1. /\ order[o] = "NONE" /\ order' = [order EXCEPT ![o] = "SUBMITTED"]
      /\ UNCHANGED <<fulfillment, trail, told>> /\ UNCHANGED requests
  BY DEF Submit, requests
<1>2. OrdersInv' /\ Forward
  <2>1. Timed' /\ TrailTrue'
    BY <1>1 DEF FulfillmentInv, OrdersInv, Timed, TrailTrue
  <2>. QED  BY <1>1, <2>1 DEF FulfillmentInv, OrdersInv, Forward, Targets
<1>. QED  BY <1>1, <1>2, RequestsStay DEF FulfillmentInv

LEMMA DecideSafe ==
  ASSUME FulfillmentInv, NEW o \in Orders, Decide(o)
  PROVE  FulfillmentInv'
<1>1. /\ order[o] = "SUBMITTED" /\ fulfillment[o] = NoFulfillment
      /\ trail[o] = <<>>
      /\ UNCHANGED <<trail, told>> /\ UNCHANGED requests
  BY DEF Decide, requests, FulfillmentInv, OrdersInv, TrailTrue, Tells
<1>2. OrdersInv' /\ Forward
  <2>1. CASE /\ order' = [order EXCEPT ![o] = "CONFIRMED"]
             /\ fulfillment' = [fulfillment EXCEPT ![o] = NewFulfillment]
    <3>1. NewFulfillment \in Fulfillments /\ NewFulfillment # NoFulfillment
      BY FulfillmentAssumption DEF NewFulfillment, Fulfillments, Stages
    <3>2. Timeline(NewFulfillment) /\ Versioned(NewFulfillment)
      BY DEF NewFulfillment, Timeline, Versioned
    <3>3. Tells(<<>>, NewFulfillment)
      <4>1. Moves(<<>>) = {} /\ Reads(<<>>) = {}
        BY DEF Moves, Reads
      <4>. QED  BY <3>1, <4>1 DEF Tells, NewFulfillment
    <3>4. \A p \in Orders : fulfillment'[p] = IF p = o THEN NewFulfillment ELSE fulfillment[p]
      BY <2>1 DEF FulfillmentInv, OrdersInv
    <3>5. Timed'
      <4>1. \A p \in Orders : p # o => fulfillment'[p] = fulfillment[p]
        BY <3>4
      <4>2. fulfillment'[o] = NewFulfillment /\ trail'[o] = <<>> /\ trail' = trail
        BY <1>1, <3>4
      <4>. QED  BY <3>2, <4>1, <4>2 DEF FulfillmentInv, OrdersInv, Timed
    <3>6. TrailTrue'
      BY <1>1, <3>3, <3>4 DEF FulfillmentInv, OrdersInv, TrailTrue
    <3>7. fulfillment' \in [Orders -> Fulfillments \cup {NoFulfillment}]
      BY <2>1, <3>1 DEF FulfillmentInv, OrdersInv
    <3>8. \A p \in Orders : (order'[p] = "CONFIRMED") <=> (fulfillment'[p] # NoFulfillment)
      BY <2>1, <3>1, <3>4 DEF FulfillmentInv, OrdersInv
    <3>9. Forward
      BY <1>1, <2>1, <3>4 DEF FulfillmentInv, OrdersInv, Forward, Targets
    <3>. QED
      BY <1>1, <2>1, <3>5, <3>6, <3>7, <3>8, <3>9 DEF FulfillmentInv, OrdersInv
  <2>2. CASE /\ order' = [order EXCEPT ![o] = "REJECTED"]
             /\ UNCHANGED fulfillment
    <3>1. Timed' /\ TrailTrue'
      BY <1>1, <2>2 DEF FulfillmentInv, OrdersInv, Timed, TrailTrue
    <3>. QED  BY <1>1, <2>2, <3>1 DEF FulfillmentInv, OrdersInv, Forward, Targets
  <2>. QED  BY <2>1, <2>2 DEF Decide
<1>. QED  BY <1>1, <1>2, RequestsStay DEF FulfillmentInv

LEMMA AskSafe ==
  ASSUME FulfillmentInv, NEW r \in Requests, Ask(r)
  PROVE  FulfillmentInv'
<1>1. /\ pc[r] = "idle" /\ pc' = [pc EXCEPT ![r] = "store"]
      /\ UNCHANGED <<order, fulfillment, trail, told>> /\ UNCHANGED answer
  BY DEF Ask, orders
<1>2. PICK m \in Asks, t \in Times :
        ask' = [ask EXCEPT ![r] = m] /\ now' = [now EXCEPT ![r] = t]
  BY DEF Ask
<1>3. OrdersInv'
  BY <1>1, OrdersStay DEF FulfillmentInv, OrdersInv
<1>4. RequestTypes'
  BY <1>1, <1>2, FulfillmentAssumption DEF FulfillmentInv, RequestTypes
<1>5. Tellable'
  <2>. SUFFICES ASSUME NEW q \in Requests, pc'[q] = "notify"
                PROVE  Reached(q)'
    BY DEF Tellable
  <2>1. q # r /\ pc[q] = "notify" /\ ask'[q] = ask[q]
    BY <1>1, <1>2 DEF FulfillmentInv, RequestTypes
  <2>. QED  BY <1>1, <2>1 DEF FulfillmentInv, Tellable, Reached, Order, Row
<1>. QED  BY <1>3, <1>4, <1>5 DEF FulfillmentInv

LEMMA AgainSafe ==
  ASSUME FulfillmentInv, NEW r \in Requests, Again(r)
  PROVE  FulfillmentInv'
<1>1. /\ pc[r] = "done" /\ pc' = [pc EXCEPT ![r] = "idle"]
      /\ ask' = [ask EXCEPT ![r] = NoAsk]
      /\ now' = [now EXCEPT ![r] = 0] /\ answer' = [answer EXCEPT ![r] = NoAnswer]
      /\ UNCHANGED <<order, fulfillment, trail, told>>
  BY DEF Again, orders
<1>2. OrdersInv'
  BY <1>1, OrdersStay DEF FulfillmentInv, OrdersInv
<1>3. 0 \in Times
  BY FulfillmentAssumption DEF Times
<1>4. RequestTypes'
  BY <1>1, <1>3 DEF FulfillmentInv, RequestTypes
<1>5. Tellable'
  <2>. SUFFICES ASSUME NEW q \in Requests, pc'[q] = "notify"
                PROVE  Reached(q)'
    BY DEF Tellable
  <2>1. q # r /\ pc[q] = "notify" /\ ask'[q] = ask[q]
    BY <1>1 DEF FulfillmentInv, RequestTypes
  <2>. QED  BY <1>1, <2>1 DEF FulfillmentInv, Tellable, Reached, Order, Row
<1>. QED  BY <1>2, <1>4, <1>5 DEF FulfillmentInv

(* A request that leaves the orders alone. *)
LEMMA RefuseSafe ==
  ASSUME FulfillmentInv, NEW r \in Requests, pc[r] # "idle",
         NEW a \in Answers, Refuse(r, a)
  PROVE  FulfillmentInv'
<1>1. OrdersInv' /\ Forward
  BY OrdersStay DEF FulfillmentInv, OrdersInv, Refuse, orders
<1>. QED  BY <1>1, OneMoves DEF FulfillmentInv, Refuse

LEMMA NotifySafe ==
  ASSUME FulfillmentInv, NEW r \in Requests, Notify(r)
  PROVE  FulfillmentInv'
<1>1. pc[r] # "idle" /\ Reply(r, "OK") /\ "OK" \in Answers
  BY DEF Notify, FulfillmentInv, RequestTypes, Answers
<1>2. Order(r) \in Orders /\ Kind(ask[r].kind) \in {"ORDER_ON_THE_WAY", "ORDER_DELIVERED"}
  BY <1>1, AskFacts DEF FulfillmentInv, Kind
<1>3. OrdersInv' /\ Forward
  BY <1>2, OrdersStay DEF FulfillmentInv, OrdersInv, Notify
<1>. QED  BY <1>1, <1>3, OneMoves DEF FulfillmentInv

(* A request that changes the row of a confirmed order, and records it. *)
LEMMA RowChanges ==
  ASSUME OrdersInv, NEW o \in Orders, order[o] = "CONFIRMED",
         NEW g \in Fulfillments, g # NoFulfillment, Timeline(g), Versioned(g),
         NEW u \in Seq(Audits), Tells(u, g),
         \A i \in 1..Len(u) : u[i].action = "DELIVERING" => u[i].at = g.deliveringAt,
         fulfillment[o].status = "DELIVERING" => g.status \in Targets,
         fulfillment[o].status = "DELIVERED" => g.status = "DELIVERED",
         fulfillment' = [fulfillment EXCEPT ![o] = g],
         trail' = [trail EXCEPT ![o] = u],
         UNCHANGED <<order, told>>
  PROVE  OrdersInv' /\ Forward
<1>1. \A p \in Orders : /\ fulfillment'[p] = IF p = o THEN g ELSE fulfillment[p]
                        /\ trail'[p] = IF p = o THEN u ELSE trail[p]
  BY DEF OrdersInv
<1>2. Timed'
  BY <1>1 DEF OrdersInv, Timed
<1>3. TrailTrue'
  BY <1>1 DEF OrdersInv, TrailTrue
<1>4. Forward
  BY <1>1 DEF Forward, Targets
<1>5. \A p \in Orders : (order'[p] = "CONFIRMED") <=> (fulfillment'[p] # NoFulfillment)
  BY <1>1 DEF OrdersInv
<1>. QED  BY <1>2, <1>3, <1>4, <1>5 DEF OrdersInv

LEMMA MarkCashierReadSafe ==
  ASSUME FulfillmentInv, NEW r \in Requests, MarkCashierRead(r)
  PROVE  FulfillmentInv'
<1>. DEFINE o == Order(r)
            f == fulfillment[o]
            a == [action |-> "READ", by |-> ask[r].by, at |-> now[r]]
            g == [f EXCEPT !.readBy = ask[r].by]
            u == Append(trail[o], a)
<1>1. /\ pc[r] # "idle" /\ pc[r] = "store"
      /\ Answers = {"OK", "NOT_FOUND", "INVALID_TRANSITION", "ERROR"}
  BY DEF MarkCashierRead, Answers
<1>2. o \in Orders /\ ask[r].by \in Cashiers /\ now[r] \in Times
  BY <1>1, AskFacts DEF FulfillmentInv
<1>3. CASE /\ Confirmed(r) /\ Row(r).readBy = Nobody
           /\ fulfillment' = [fulfillment EXCEPT ![Order(r)].readBy = ask[r].by]
           /\ Audited(r, "READ")
           /\ Reply(r, "OK") \/ Reply(r, "ERROR")
           /\ UNCHANGED <<order, told>>
  <2>1. order[o] = "CONFIRMED" /\ f.readBy = Nobody
    BY <1>3 DEF Confirmed, Row
  <2>2. f \in Fulfillments /\ f # NoFulfillment
    BY <1>2, <2>1, RowFacts DEF FulfillmentInv
  <2>3. g \in Fulfillments
    <3>1. g = [status |-> f.status, version |-> f.version, readBy |-> ask[r].by,
               updatedBy |-> f.updatedBy, deliveringAt |-> f.deliveringAt,
               deliveredAt |-> f.deliveredAt]
      BY <2>2 DEF Fulfillments
    <3>2. /\ f.status \in Stages /\ f.version \in 1..3
          /\ f.updatedBy \in Cashiers \cup {Nobody}
          /\ f.deliveringAt \in Times \cup {Never} /\ f.deliveredAt \in Times \cup {Never}
      BY <2>2 DEF Fulfillments
    <3>. HIDE DEF f, g
    <3>. QED  BY <1>2, <3>1, <3>2 DEF Fulfillments
  <2>4. /\ g.readBy = ask[r].by /\ g.status = f.status /\ g.version = f.version
        /\ g.updatedBy = f.updatedBy
        /\ g.deliveringAt = f.deliveringAt /\ g.deliveredAt = f.deliveredAt
    BY <2>2 DEF Fulfillments
  <2>5. a \in Audits /\ a.action = "READ" /\ a.by = ask[r].by /\ a.by # Nobody
    BY <1>2, FulfillmentAssumption DEF Audits
  <2>6. fulfillment' = [fulfillment EXCEPT ![o] = g] /\ trail' = [trail EXCEPT ![o] = u]
    BY <1>3 DEF Audited
  <2>7. trail[o] \in Seq(Audits) /\ Tells(trail[o], f)
    BY <1>2 DEF FulfillmentInv, OrdersInv, TrailTrue
  <2>8. /\ Timeline(f) /\ Versioned(f)
        /\ \A i \in 1..Len(trail[o]) :
             trail[o][i].action = "DELIVERING" => trail[o][i].at = f.deliveringAt
    BY <1>2, <2>2 DEF FulfillmentInv, OrdersInv, Timed
  <2>9. u \in Seq(Audits) /\ Extended(trail[o], a, u)
    BY <2>5, <2>7, Appended
  <2>10. g # NoFulfillment
    BY <2>3, FulfillmentAssumption
  <2>. HIDE DEF o, f, a, g, u
  <2>11. Tells(u, g)
    BY <2>1, <2>2, <2>3, <2>4, <2>5, <2>7, <2>9, <2>10, TellsRead
  <2>12. Timeline(g) /\ Versioned(g)
    BY <2>4, <2>8 DEF Timeline, Versioned
  <2>13. \A i \in 1..Len(u) : u[i].action = "DELIVERING" => u[i].at = g.deliveringAt
    BY <2>4, <2>5, <2>8, <2>9 DEF Extended
  <2>14. /\ f.status = "DELIVERING" => g.status \in Targets
         /\ f.status = "DELIVERED" => g.status = "DELIVERED"
    BY <2>4 DEF Targets
  <2>15. OrdersInv' /\ Forward
    BY <1>2, <1>3, <2>1, <2>3, <2>6, <2>9, <2>10, <2>11, <2>12, <2>13, <2>14, RowChanges
       DEF FulfillmentInv, f
  <2>. QED  BY <1>1, <1>3, <2>15, OneMoves DEF FulfillmentInv
<1>4. CASE Refuse(r, "OK") \/ Refuse(r, "NOT_FOUND")
  BY <1>1, <1>4, RefuseSafe
<1>. QED  BY <1>3, <1>4 DEF MarkCashierRead

LEMMA AdvanceFulfillmentSafe ==
  ASSUME FulfillmentInv, NEW r \in Requests, AdvanceFulfillment(r)
  PROVE  FulfillmentInv'
<1>. DEFINE o == Order(r)
            f == fulfillment[o]
            target == ask[r].kind
            a == [action |-> target, by |-> ask[r].by, at |-> now[r]]
            g == Moved(f, target, ask[r].by, now[r])
            u == Append(trail[o], a)
<1>1. /\ pc[r] # "idle" /\ pc[r] = "store" /\ target \in Targets
      /\ Answers = {"OK", "NOT_FOUND", "INVALID_TRANSITION", "ERROR"}
  BY DEF AdvanceFulfillment, Answers
<1>2. o \in Orders /\ ask[r].by \in Cashiers /\ now[r] \in Times
  BY <1>1, AskFacts DEF FulfillmentInv
<1>3. CASE /\ Confirmed(r) /\ Row(r).status = target
           /\ Goto(r, "notify")
           /\ UNCHANGED orders
  <2>1. OrdersInv' /\ Forward
    BY <1>3, OrdersStay DEF FulfillmentInv, OrdersInv, orders
  <2>2. Reached(r)'
    BY <1>1, <1>3 DEF Reached, Confirmed, Row, Order, Goto, orders
  <2>. QED  BY <1>1, <1>3, <2>1, <2>2, OneMoves DEF FulfillmentInv
<1>4. CASE /\ Confirmed(r) /\ Row(r).status # target
           /\ ValidateFulfillmentTarget(Row(r).status, target)
           /\ Timeline(Moved(Row(r), target, ask[r].by, now[r]))
           /\ fulfillment' = [fulfillment EXCEPT ![Order(r)] =
                               Moved(Row(r), target, ask[r].by, now[r])]
           /\ Audited(r, target)
           /\ Goto(r, "notify") \/ Reply(r, "ERROR")
           /\ UNCHANGED <<order, told>>
  <2>1. /\ order[o] = "CONFIRMED" /\ f.status # target
        /\ ValidateFulfillmentTarget(f.status, target) /\ Timeline(g)
    BY <1>4 DEF Confirmed, Row
  <2>2. f \in Fulfillments /\ f # NoFulfillment
    BY <1>2, <2>1, RowFacts DEF FulfillmentInv
  <2>3. trail[o] \in Seq(Audits) /\ Tells(trail[o], f)
    BY <1>2 DEF FulfillmentInv, OrdersInv, TrailTrue
  <2>4. /\ Timeline(f) /\ Versioned(f)
        /\ \A i \in 1..Len(trail[o]) :
             trail[o][i].action = "DELIVERING" => trail[o][i].at = f.deliveringAt
    BY <1>2, <2>2 DEF FulfillmentInv, OrdersInv, Timed
  <2>5. /\ a \in Audits /\ a.action = target /\ a.by = ask[r].by /\ a.at = now[r]
    BY <1>1, <1>2 DEF Audits
  <2>6. u \in Seq(Audits) /\ Extended(trail[o], a, u)
    BY <2>3, <2>5, Appended
  <2>7. fulfillment' = [fulfillment EXCEPT ![o] = g] /\ trail' = [trail EXCEPT ![o] = u]
    BY <1>4 DEF Audited, Row
  <2>. HIDE DEF o, f, target, a, u, g
  <2>8. /\ g \in Fulfillments /\ g # NoFulfillment
        /\ g.status = target /\ g.updatedBy = ask[r].by /\ g.readBy = f.readBy
        /\ Versioned(g)
        /\ target = "DELIVERING" => f.status = "PREPARING" /\ g.deliveringAt = now[r]
        /\ target = "DELIVERED" =>
             /\ f.status = "DELIVERING"
             /\ g.deliveringAt = f.deliveringAt /\ g.deliveredAt = now[r]
    BY <1>1, <1>2, <2>1, <2>2, <2>4, MovedFacts DEF g
  <2>9. /\ Tells(u, g)
        /\ \A i \in 1..Len(u) : u[i].action = "DELIVERING" => u[i].at = g.deliveringAt
    BY <1>1, <2>1, <2>2, <2>3, <2>4, <2>5, <2>6, <2>8, TellsMove
  <2>10. /\ f.status = "DELIVERING" => g.status \in Targets
         /\ f.status = "DELIVERED" => g.status = "DELIVERED"
    BY <1>1, <2>8 DEF Targets
  <2>11. OrdersInv' /\ Forward
    BY <1>2, <1>4, <2>1, <2>6, <2>7, <2>8, <2>9, <2>10, RowChanges DEF FulfillmentInv, f
  <2>12. CASE Goto(r, "notify")
    <3>1. fulfillment'[o] = g /\ order'[o] = "CONFIRMED" /\ ask' = ask
      BY <1>2, <1>4, <2>1, <2>7, <2>12 DEF FulfillmentInv, OrdersInv, Goto
    <3>2. Reached(r)'
      BY <1>1, <2>8, <3>1 DEF Reached, Row, Order, o, target
    <3>. QED  BY <1>1, <2>11, <2>12, <3>2, OneMoves DEF FulfillmentInv
  <2>13. CASE Reply(r, "ERROR")
    BY <1>1, <2>11, <2>13, OneMoves DEF FulfillmentInv
  <2>. QED  BY <1>4, <2>12, <2>13
<1>5. CASE \E a1 \in Answers : Refuse(r, a1)
  BY <1>1, <1>5, RefuseSafe
<1>. QED  BY <1>1, <1>3, <1>4, <1>5 DEF AdvanceFulfillment

LEMMA FulfillmentInitSafe == FulfillmentInit => FulfillmentInv
<1>. SUFFICES ASSUME FulfillmentInit PROVE FulfillmentInv
  OBVIOUS
<1>1. 0 \in Times
  BY FulfillmentAssumption DEF Times
<1>2. TrailTrue
  BY DEF FulfillmentInit, TrailTrue, Tells
<1>3. Timed
  BY DEF FulfillmentInit, Timed
<1>4. OrdersInv
  BY <1>2, <1>3 DEF FulfillmentInit, OrdersInv
<1>5. RequestTypes /\ Tellable
  BY <1>1 DEF FulfillmentInit, RequestTypes, Tellable
<1>. QED  BY <1>4, <1>5 DEF FulfillmentInv

LEMMA FulfillmentNextSafe == FulfillmentInv /\ [FulfillmentNext]_fvars => FulfillmentInv'
<1>. SUFFICES ASSUME FulfillmentInv, [FulfillmentNext]_fvars
              PROVE  FulfillmentInv'
  OBVIOUS
<1>1. CASE UNCHANGED fvars
  <2>1. OrdersInv' /\ Forward
    BY <1>1, OrdersStay DEF FulfillmentInv, OrdersInv, fvars, orders
  <2>. QED  BY <1>1, <2>1, RequestsStay DEF FulfillmentInv, fvars
<1>2. ASSUME NEW r \in Requests, Fail(r)
      PROVE  FulfillmentInv'
  BY <1>2, RefuseSafe DEF Fail, Answers
<1>. QED
  BY <1>1, <1>2, SubmitSafe, DecideSafe, AskSafe, MarkCashierReadSafe, AdvanceFulfillmentSafe,
     NotifySafe, AgainSafe DEF FulfillmentNext

LEMMA FulfillmentInvTypes == FulfillmentInv => FulfillmentTypeOK /\ TrailTrue
BY DEF FulfillmentInv, OrdersInv, RequestTypes, FulfillmentTypeOK

-----------------------------------------------------------------------------
(* The life of an order                                                    *)

LEMMA ShownState ==
  ASSUME OrdersInv, NEW o \in Orders
  PROVE  /\ order[o] = "NONE" => CustomerState(o) = "NONE"
         /\ order[o] = "SUBMITTED" => CustomerState(o) = "PREPARING"
         /\ order[o] = "REJECTED" => CustomerState(o) = "REJECTED"
         /\ order[o] = "CONFIRMED" =>
              /\ fulfillment[o].status = "PREPARING" => CustomerState(o) = "PREPARING"
              /\ fulfillment[o].status = "DELIVERING" => CustomerState(o) = "ON_THE_WAY"
              /\ fulfillment[o].status = "DELIVERED" => CustomerState(o) = "DELIVERED"
         /\ order[o] # "CONFIRMED" <=> CashierState(o) = "out"
         /\ order[o] = "CONFIRMED" =>
              /\ fulfillment[o].readBy = Nobody <=> CashierState(o) = "unread"
              /\ fulfillment[o].readBy # Nobody <=> CashierState(o) = "read"
<1>1. (order[o] = "CONFIRMED") <=> (fulfillment[o] # NoFulfillment)
  BY DEF OrdersInv
<1>2. CASE order[o] = "CONFIRMED"
  <2>1. /\ fulfillment[o].status = "PREPARING" => CustomerState(o) = "PREPARING"
        /\ fulfillment[o].status = "DELIVERING" => CustomerState(o) = "ON_THE_WAY"
        /\ fulfillment[o].status = "DELIVERED" => CustomerState(o) = "DELIVERED"
    BY <1>2 DEF CustomerState
  <2>2. CashierState(o) = IF fulfillment[o].readBy = Nobody THEN "unread" ELSE "read"
    BY <1>1, <1>2 DEF CashierState
  <2>. QED  BY <1>2, <2>1, <2>2
<1>3. CASE order[o] # "CONFIRMED"
  <2>1. CashierState(o) = "out"
    BY <1>1, <1>3 DEF CashierState
  <2>2. /\ order[o] = "NONE" => CustomerState(o) = "NONE"
        /\ order[o] = "SUBMITTED" => CustomerState(o) = "PREPARING"
        /\ order[o] = "REJECTED" => CustomerState(o) = "REJECTED"
    BY DEF CustomerState
  <2>. QED  BY <1>3, <2>1, <2>2
<1>. QED  BY <1>2, <1>3

LEMMA ShownStateNext ==
  ASSUME OrdersInv', NEW o \in Orders
  PROVE  /\ order'[o] = "NONE" => CustomerState(o)' = "NONE"
         /\ order'[o] = "SUBMITTED" => CustomerState(o)' = "PREPARING"
         /\ order'[o] = "REJECTED" => CustomerState(o)' = "REJECTED"
         /\ order'[o] = "CONFIRMED" =>
              /\ fulfillment'[o].status = "PREPARING" => CustomerState(o)' = "PREPARING"
              /\ fulfillment'[o].status = "DELIVERING" => CustomerState(o)' = "ON_THE_WAY"
              /\ fulfillment'[o].status = "DELIVERED" => CustomerState(o)' = "DELIVERED"
         /\ order'[o] # "CONFIRMED" <=> CashierState(o)' = "out"
         /\ order'[o] = "CONFIRMED" =>
              /\ fulfillment'[o].readBy = Nobody <=> CashierState(o)' = "unread"
              /\ fulfillment'[o].readBy # Nobody <=> CashierState(o)' = "read"
<1>1. (order'[o] = "CONFIRMED") <=> (fulfillment'[o] # NoFulfillment)
  BY DEF OrdersInv
<1>2. CASE order'[o] = "CONFIRMED"
  <2>1. /\ fulfillment'[o].status = "PREPARING" => CustomerState(o)' = "PREPARING"
        /\ fulfillment'[o].status = "DELIVERING" => CustomerState(o)' = "ON_THE_WAY"
        /\ fulfillment'[o].status = "DELIVERED" => CustomerState(o)' = "DELIVERED"
    BY <1>2 DEF CustomerState
  <2>2. CashierState(o)' = IF fulfillment'[o].readBy = Nobody THEN "unread" ELSE "read"
    BY <1>1, <1>2 DEF CashierState
  <2>. QED  BY <1>2, <2>1, <2>2
<1>3. CASE order'[o] # "CONFIRMED"
  <2>1. CashierState(o)' = "out"
    BY <1>1, <1>3 DEF CashierState
  <2>2. /\ order'[o] = "NONE" => CustomerState(o)' = "NONE"
        /\ order'[o] = "SUBMITTED" => CustomerState(o)' = "PREPARING"
        /\ order'[o] = "REJECTED" => CustomerState(o)' = "REJECTED"
    BY DEF CustomerState
  <2>. QED  BY <1>3, <2>1, <2>2
<1>. QED  BY <1>2, <1>3

(* What is shown of an order changes only with its rows. *)
LEMMA SameShown ==
  ASSUME NEW o \in Orders, order'[o] = order[o], fulfillment'[o] = fulfillment[o]
  PROVE  CustomerState(o)' = CustomerState(o) /\ CashierState(o)' = CashierState(o)
BY DEF CustomerState, CashierState

(* A step that changes what is shown of one order only. *)
LEMMA OneShown ==
  ASSUME NEW o \in Orders,
         \A p \in Orders : p # o => order'[p] = order[p] /\ fulfillment'[p] = fulfillment[p]
  PROVE  /\ [p \in Orders |-> CustomerState(p)'] =
              [[p \in Orders |-> CustomerState(p)] EXCEPT ![o] = CustomerState(o)']
         /\ [p \in Orders |-> CashierState(p)'] =
              [[p \in Orders |-> CashierState(p)] EXCEPT ![o] = CashierState(o)']
         /\ CashierState(o)' = CashierState(o) =>
              [p \in Orders |-> CashierState(p)'] = [p \in Orders |-> CashierState(p)]
         /\ CustomerState(o)' = CustomerState(o) =>
              [p \in Orders |-> CustomerState(p)'] = [p \in Orders |-> CustomerState(p)]
<1>1. \A p \in Orders : p # o =>
        CustomerState(p)' = CustomerState(p) /\ CashierState(p)' = CashierState(p)
  BY SameShown
<1>. QED  BY <1>1

LEMMA LifeInit == FulfillmentInit => Life!Init
BY DEF FulfillmentInit, Life!Init, CustomerState, CashierState

LEMMA LifeStep ==
  FulfillmentInv /\ FulfillmentInv' /\ [FulfillmentNext]_fvars => [Life!Next]_(Life!vars)
<1>. SUFFICES ASSUME FulfillmentInv, FulfillmentInv', [FulfillmentNext]_fvars
              PROVE  Life!Next \/ UNCHANGED Life!vars
  OBVIOUS
<1>. OrdersInv /\ OrdersInv' /\ RequestTypes
  BY DEF FulfillmentInv
<1>0. ASSUME UNCHANGED <<order, fulfillment, told>>
      PROVE  UNCHANGED Life!vars
  BY <1>0 DEF Life!vars, CustomerState, CashierState
<1>1. ASSUME NEW o \in Orders, Submit(o)
      PROVE  Life!Enter(o)
  <2>1. /\ order[o] = "NONE" /\ order'[o] = "SUBMITTED"
        /\ \A p \in Orders : p # o => order'[p] = order[p]
        /\ UNCHANGED <<fulfillment, told>>
    BY <1>1 DEF Submit, OrdersInv
  <2>2. /\ CustomerState(o) = "NONE" /\ CustomerState(o)' = "PREPARING"
        /\ CashierState(o)' = CashierState(o)
    BY <2>1, ShownState, ShownStateNext
  <2>. QED  BY <2>1, <2>2, OneShown DEF Life!Enter
<1>2. ASSUME NEW o \in Orders, Decide(o)
      PROVE  Life!Accept(o) \/ Life!Reject(o)
  <2>1. /\ order[o] = "SUBMITTED" /\ UNCHANGED told
        /\ \A p \in Orders : p # o => order'[p] = order[p] /\ fulfillment'[p] = fulfillment[p]
    BY <1>2 DEF Decide, OrdersInv
  <2>2. CustomerState(o) = "PREPARING" /\ CashierState(o) = "out"
    BY <2>1, ShownState
  <2>3. CASE order'[o] = "REJECTED"
    <3>1. CustomerState(o)' = "REJECTED" /\ CashierState(o)' = "out"
      BY <2>3, ShownStateNext
    <3>. QED  BY <2>1, <2>2, <3>1, OneShown DEF Life!Reject
  <2>4. CASE order'[o] = "CONFIRMED" /\ fulfillment'[o] = NewFulfillment
    <3>1. CustomerState(o)' = "PREPARING" /\ CashierState(o)' = "unread"
      BY <2>4, ShownStateNext DEF NewFulfillment
    <3>. QED  BY <2>1, <2>2, <3>1, OneShown DEF Life!Accept
  <2>. QED  BY <1>2, <2>3, <2>4 DEF Decide, OrdersInv
<1>3. ASSUME NEW r \in Requests, MarkCashierRead(r)
      PROVE  Life!Next \/ UNCHANGED Life!vars
  <2>1. CASE /\ Confirmed(r) /\ Row(r).readBy = Nobody
             /\ fulfillment' = [fulfillment EXCEPT ![Order(r)].readBy = ask[r].by]
             /\ UNCHANGED <<order, told>>
    <3>1. pc[r] # "idle"
      BY <1>3 DEF MarkCashierRead
    <3>2. Order(r) \in Orders /\ ask[r].by # Nobody
      BY <3>1, AskFacts, FulfillmentAssumption
    <3>. PICK o \in Orders : o = Order(r)
      BY <3>2
    <3>3. /\ order[o] = "CONFIRMED" /\ order'[o] = "CONFIRMED"
          /\ fulfillment[o].readBy = Nobody
          /\ \A p \in Orders : p # o => order'[p] = order[p] /\ fulfillment'[p] = fulfillment[p]
      BY <2>1, <3>2 DEF Confirmed, Row, OrdersInv
    <3>4. fulfillment[o] \in Fulfillments
      BY <3>2, <3>3, RowFacts
    <3>5. fulfillment'[o].readBy = ask[r].by /\ fulfillment'[o].status = fulfillment[o].status
      BY <2>1, <3>2, <3>4 DEF OrdersInv, Fulfillments
    <3>6. CashierState(o) = "unread" /\ CashierState(o)' = "read"
      BY <3>2, <3>3, <3>5, ShownState, ShownStateNext
    <3>7. CustomerState(o)' = CustomerState(o)
      BY <3>3, <3>5 DEF CustomerState
    <3>8. Life!Read(o)
      BY <2>1, <3>2, <3>3, <3>6, <3>7, OneShown DEF Life!Read
    <3>. QED  BY <3>2, <3>8 DEF Life!Next
  <2>2. CASE UNCHANGED orders
    BY <1>0, <2>2 DEF orders
  <2>. QED  BY <1>3, <2>1, <2>2 DEF MarkCashierRead, Refuse
<1>4. ASSUME NEW r \in Requests, AdvanceFulfillment(r)
      PROVE  Life!Next \/ UNCHANGED Life!vars
  <2>1. CASE /\ Confirmed(r) /\ Row(r).status # ask[r].kind
             /\ ValidateFulfillmentTarget(Row(r).status, ask[r].kind)
             /\ Timeline(Moved(Row(r), ask[r].kind, ask[r].by, now[r]))
             /\ fulfillment' = [fulfillment EXCEPT ![Order(r)] =
                                 Moved(Row(r), ask[r].kind, ask[r].by, now[r])]
             /\ UNCHANGED <<order, told>>
    <3>1. pc[r] # "idle" /\ ask[r].kind \in Targets
      BY <1>4 DEF AdvanceFulfillment
    <3>2. Order(r) \in Orders /\ ask[r].by \in Cashiers /\ now[r] \in Times
      BY <3>1, AskFacts
    <3>. PICK o \in Orders : o = Order(r)
      BY <3>2
    <3>. DEFINE f == fulfillment[o]
                g == Moved(f, ask[r].kind, ask[r].by, now[r])
    <3>3. /\ order[o] = "CONFIRMED" /\ order'[o] = "CONFIRMED"
          /\ fulfillment'[o] = g
          /\ f.status # ask[r].kind /\ ValidateFulfillmentTarget(f.status, ask[r].kind)
          /\ \A p \in Orders : p # o => order'[p] = order[p] /\ fulfillment'[p] = fulfillment[p]
      BY <2>1, <3>2 DEF Confirmed, Row, OrdersInv
    <3>4. f \in Fulfillments /\ Timeline(f) /\ Versioned(f)
      BY <3>2, <3>3, RowFacts DEF OrdersInv, Timed
    <3>. HIDE DEF f, g
    <3>5. /\ g.status = ask[r].kind /\ g.readBy = f.readBy
          /\ g.status = "DELIVERING" => f.status = "PREPARING"
          /\ g.status = "DELIVERED" => f.status = "DELIVERING"
      BY <3>1, <3>2, <3>3, <3>4, MovedFacts DEF g
    <3>6. CashierState(o) # "out" /\ CashierState(o)' = CashierState(o)
      BY <3>2, <3>3, <3>5, ShownState, ShownStateNext DEF f
    <3>7. CASE ask[r].kind = "DELIVERING"
      <4>1. CustomerState(o) = "PREPARING" /\ CustomerState(o)' = "ON_THE_WAY"
        BY <3>2, <3>3, <3>5, <3>7, ShownState, ShownStateNext DEF f
      <4>2. Life!Leave(o)
        BY <2>1, <3>2, <3>3, <3>6, <4>1, OneShown DEF Life!Leave
      <4>. QED  BY <3>2, <4>2 DEF Life!Next
    <3>8. CASE ask[r].kind = "DELIVERED"
      <4>1. CustomerState(o) = "ON_THE_WAY" /\ CustomerState(o)' = "DELIVERED"
        BY <3>2, <3>3, <3>5, <3>8, ShownState, ShownStateNext DEF f
      <4>2. Life!Arrive(o)
        BY <2>1, <3>2, <3>3, <3>6, <4>1, OneShown DEF Life!Arrive
      <4>. QED  BY <3>2, <4>2 DEF Life!Next
    <3>. QED  BY <3>1, <3>7, <3>8 DEF Targets
  <2>2. CASE UNCHANGED orders
    BY <1>0, <2>2 DEF orders
  <2>. QED  BY <1>4, <2>1, <2>2 DEF AdvanceFulfillment, Refuse
<1>5. ASSUME NEW r \in Requests, Notify(r)
      PROVE  Life!Next \/ UNCHANGED Life!vars
  <2>1. Reached(r) /\ Order(r) \in Orders
    BY <1>5, AskFacts DEF Notify, FulfillmentInv, Tellable
  <2>2. CASE told' = told \cup {<<Order(r), Kind(ask[r].kind)>>}
    <3>. DEFINE o == Order(r)
    <3>1. CustomerState(o) \in (IF Kind(ask[r].kind) = "ORDER_DELIVERED" THEN {"DELIVERED"}
                               ELSE {"ON_THE_WAY", "DELIVERED"})
      BY <2>1, ShownState DEF Reached, Row, Kind, Targets
    <3>2. Kind(ask[r].kind) \in {"ORDER_ON_THE_WAY", "ORDER_DELIVERED"}
      BY DEF Kind
    <3>3. /\ [p \in Orders |-> CustomerState(p)'] = [p \in Orders |-> CustomerState(p)]
          /\ [p \in Orders |-> CashierState(p)'] = [p \in Orders |-> CashierState(p)]
      BY <1>5 DEF Notify, CustomerState, CashierState
    <3>4. [p \in Orders |-> CustomerState(p)][o] = CustomerState(o)
      BY <2>1
    <3>. HIDE DEF o
    <3>5. Life!Tell(o)
      BY <2>1, <2>2, <3>1, <3>2, <3>3, <3>4 DEF Life!Tell, Life!Kinds, o
    <3>. QED  BY <2>1, <3>5 DEF Life!Next, o
  <2>3. CASE told' = told
    BY <1>0, <1>5, <2>3 DEF Notify
  <2>. QED  BY <1>5, <2>2, <2>3 DEF Notify
<1>6. ASSUME NEW r \in Requests, Ask(r) \/ Fail(r) \/ Again(r)
      PROVE  UNCHANGED Life!vars
  BY <1>0, <1>6 DEF Ask, Fail, Again, Refuse, orders
<1>7. CASE UNCHANGED fvars
  BY <1>0, <1>7 DEF fvars, orders
<1>. QED  BY <1>1, <1>2, <1>3, <1>4, <1>5, <1>6, <1>7 DEF FulfillmentNext, Life!Next

-----------------------------------------------------------------------------
(* Pages                                                                   *)

(* A finite set of numbers that is not empty has a greatest and a least. *)
LEMMA Extremes ==
  ASSUME NEW T \in SUBSET Nat, IsFiniteSet(T), T # {}
  PROVE  /\ \E m \in T : \A p \in T : p <= m
         /\ \E m \in T : \A p \in T : m <= p
<1>. DEFINE Above(m) == {p \in T : p > m}
            Below(m) == {p \in T : p < m}
            R == StrictSubsetOrdering(T)
<1>1. IsWellFoundedOn(R, SUBSET T)
  BY FS_StrictSubsetOrderingWellFounded, FS_FiniteSubsetsOfFinite
<1>2. \E m \in T : \A p \in T : p <= m
  <2>. DEFINE A == {Above(m) : m \in T}
  <2>1. A \subseteq SUBSET T /\ A # {}
    OBVIOUS
  <2>2. PICK x \in A : \A y \in A : ~ (<<y, x>> \in R)
    <3>. HIDE DEF A, R
    <3>. QED  BY <1>1, <2>1, WFMin
  <2>3. PICK m \in T : x = Above(m)
    OBVIOUS
  <2>4. ASSUME NEW p \in T, p > m PROVE FALSE
    <3>1. Above(p) \subseteq Above(m) /\ p \in Above(m) /\ p \notin Above(p)
      <4>1. p \in Nat /\ m \in Nat
        OBVIOUS
      <4>2. ASSUME NEW q \in T, q > p PROVE q > m
        <5>1. q \in Nat
          OBVIOUS
        <5>. QED  BY <2>4, <4>1, <4>2, <5>1
      <4>3. Above(p) \subseteq Above(m)
        BY <4>2
      <4>4. p \in Above(m)
        BY <2>4
      <4>5. p \notin Above(p)
        BY <4>1
      <4>. QED  BY <4>3, <4>4, <4>5
    <3>2. <<Above(p), x>> \in R
      BY <2>3, <3>1 DEF StrictSubsetOrdering
    <3>. QED  BY <2>2, <3>2
  <2>. QED  BY <2>4
<1>3. \E m \in T : \A p \in T : m <= p
  <2>. DEFINE A == {Below(m) : m \in T}
  <2>1. A \subseteq SUBSET T /\ A # {}
    OBVIOUS
  <2>2. PICK x \in A : \A y \in A : ~ (<<y, x>> \in R)
    <3>. HIDE DEF A, R
    <3>. QED  BY <1>1, <2>1, WFMin
  <2>3. PICK m \in T : x = Below(m)
    OBVIOUS
  <2>4. ASSUME NEW p \in T, p < m PROVE FALSE
    <3>1. Below(p) \subseteq Below(m) /\ p \in Below(m) /\ p \notin Below(p)
      <4>1. p \in Nat /\ m \in Nat
        OBVIOUS
      <4>2. ASSUME NEW q \in T, q < p PROVE q < m
        <5>1. q \in Nat
          OBVIOUS
        <5>. QED  BY <2>4, <4>1, <4>2, <5>1
      <4>3. Below(p) \subseteq Below(m)
        BY <4>2
      <4>4. p \in Below(m)
        BY <2>4
      <4>5. p \notin Below(p)
        BY <4>1
      <4>. QED  BY <4>3, <4>4, <4>5
    <3>2. <<Below(p), x>> \in R
      BY <2>3, <3>1 DEF StrictSubsetOrdering
    <3>. QED  BY <2>2, <3>2
  <2>. QED  BY <2>4
<1>. QED  BY <1>2, <1>3

(* What is newer than something on a page is on it. *)
LEMMA NewestUpwards ==
  ASSUME NEW S \in SUBSET Nat, IsFiniteSet(S), NEW n \in Nat,
         NEW x \in Newest(S, n), NEW o \in S, o >= x
  PROVE  o \in Newest(S, n)
<1>. DEFINE Above(m) == {p \in S : p > m}
<1>1. x \in S /\ Cardinality(Above(x)) < n
  BY DEF Newest
<1>2. Above(o) \subseteq Above(x) /\ Above(x) \subseteq S
  <2>1. o \in Nat /\ x \in Nat
    BY <1>1
  <2>2. ASSUME NEW q \in S, q > o PROVE q > x
    <3>1. q \in Nat
      OBVIOUS
    <3>. QED  BY <2>1, <2>2, <3>1
  <2>. QED  BY <2>2
<1>3. Cardinality(Above(o)) <= Cardinality(Above(x))
  BY <1>2, FS_Subset
<1>4. Cardinality(Above(o)) \in Nat /\ Cardinality(Above(x)) \in Nat
  BY <1>2, FS_Subset, FS_CardinalityType
<1>5. Cardinality(Above(o)) < n
  BY <1>1, <1>3, <1>4
<1>. QED  BY <1>5 DEF Newest

(* A page with less than it may hold has all there is. *)
LEMMA NewestNotFull ==
  ASSUME NEW S \in SUBSET Nat, IsFiniteSet(S), NEW n \in Nat \ {0},
         Cardinality(Newest(S, n)) # n
  PROVE  Newest(S, n) = S
<1>. DEFINE N == Newest(S, n)
            T == S \ N
            Above(m) == {p \in S : p > m}
<1>1. N \subseteq S /\ IsFiniteSet(N) /\ IsFiniteSet(T) /\ T \subseteq Nat
  BY FS_Subset DEF Newest
<1>. SUFFICES ASSUME T # {} PROVE FALSE
  BY <1>1
<1>2. PICK m \in T : \A p \in T : p <= m
  <2>. HIDE DEF T
  <2>. QED  BY <1>1, Extremes
<1>3. Above(m) = N
  <2>1. ASSUME NEW p \in Above(m) PROVE p \in N
    BY <1>2, <2>1
  <2>2. ASSUME NEW p \in N PROVE p \in Above(m)
    <3>1. p \in S /\ m \in S /\ m \notin N
      BY <1>1
    <3>2. ~ (m >= p)
      BY <3>1, NewestUpwards
    <3>. QED  BY <3>1, <3>2
  <2>. QED  BY <2>1, <2>2
<1>4. Cardinality(N) \in Nat /\ Cardinality(N) >= n
  <2>1. ~ (Cardinality(Above(m)) < n)
    BY DEF Newest
  <2>2. Cardinality(N) \in Nat
    BY <1>1, FS_CardinalityType
  <2>. QED  BY <1>3, <2>1, <2>2
<1>5. N # {}
  BY <1>4, FS_EmptySet
<1>6. PICK k \in N : \A p \in N : k <= p
  <2>. HIDE DEF N
  <2>1. N \subseteq Nat
    BY <1>1
  <2>. QED  BY <1>1, <1>5, <2>1, Extremes
<1>7. N \ {k} \subseteq Above(k) /\ Above(k) \subseteq S
  <2>1. \A q \in S : q \in Nat
    OBVIOUS
  <2>. HIDE DEF N
  <2>. QED  BY <1>1, <1>6, <2>1
<1>8. Cardinality(N \ {k}) = Cardinality(N) - 1
  BY <1>1, FS_RemoveElement
<1>9. /\ Cardinality(N \ {k}) <= Cardinality(Above(k))
      /\ Cardinality(Above(k)) \in Nat
  BY <1>7, FS_Subset, FS_CardinalityType
<1>10. Cardinality(Above(k)) < n
  BY <1>6 DEF Newest
<1>. QED  BY <1>4, <1>8, <1>9, <1>10

-----------------------------------------------------------------------------
(* The inductive invariant of the lists                                    *)

Seen(l) == {shown[l][i] : i \in 1..Len(shown[l])}

ListTypes ==
  /\ wish \in [Lists -> Wishes \cup {NoWish}]
  /\ at \in [Lists -> {"idle", "query", "load", "failed", "done"}]
  /\ cursor \in [Lists -> Orders \cup {0}]
  /\ page \in [Lists -> SUBSET Orders]
  /\ next \in [Lists -> Orders \cup {0}]
  /\ shown \in [Lists -> Seq(Orders)]
  /\ through \in [Lists -> SUBSET Orders]
  /\ \A l \in Lists : (at[l] = "idle") <=> (wish[l] = NoWish)

(* All that belongs to a list and has not been shown is on the page or     *)
(* behind the cursor, and all that is there is older than what was shown.  *)
Progress(l) ==
  /\ through[l] \subseteq AllListed(wish[l])
  /\ at[l] = "idle" => cursor[l] = 0 /\ shown[l] = <<>> /\ page[l] = {}
  /\ at[l] = "query" =>
       /\ cursor[l] = 0 => shown[l] = <<>>
       /\ cursor[l] # 0 => \A p \in Seen(l) : p >= cursor[l]
       /\ \A o \in through[l] : o \in Seen(l) \/ cursor[l] = 0 \/ o < cursor[l]
  /\ at[l] = "load" =>
       /\ \A p \in Seen(l), o \in page[l] : p > o
       /\ next[l] # 0 => \A p \in Seen(l) \cup page[l] : p >= next[l]
       /\ \A o \in through[l] : o \in Seen(l) \cup page[l] \/ (next[l] # 0 /\ o < next[l])
  /\ at[l] = "done" => through[l] \subseteq Seen(l)
  /\ \A i, j \in 1..Len(shown[l]) : i < j => shown[l][i] > shown[l][j]

AllProgress == \A l \in Lists : Progress(l)

IndInv == FulfillmentInv /\ ListTypes /\ PageLoadable /\ AllProgress

LEMMA Numbers == \A o \in Orders : o \in Nat /\ o # 0
BY OrderListsAssumption

LEMMA WishFacts ==
  ASSUME NEW w \in Wishes
  PROVE  /\ w # NoWish
         /\ w.kind \in {"customer", "cashier"}
         /\ w.limit \in Nat \ {0}
BY OrderListsAssumption

LEMMA ListedLoadable ==
  ASSUME NEW w \in Wishes, NEW o \in Orders, Listed(w, o)
  PROVE  Loadable(w, o)
BY WishFacts DEF Listed, Loadable

(* Orders are never taken back. *)
LEMMA OrdersGrow ==
  ASSUME OrdersInv, [FulfillmentNext]_fvars, NEW o \in Orders
  PROVE  /\ order[o] # "NONE" => order'[o] # "NONE"
         /\ order[o] = "CONFIRMED" => order'[o] = "CONFIRMED"
<1>1. ASSUME NEW p \in Orders, Submit(p)
      PROVE  /\ order[o] # "NONE" => order'[o] # "NONE"
             /\ order[o] = "CONFIRMED" => order'[o] = "CONFIRMED"
  BY <1>1 DEF Submit, OrdersInv
<1>2. ASSUME NEW p \in Orders, Decide(p)
      PROVE  /\ order[o] # "NONE" => order'[o] # "NONE"
             /\ order[o] = "CONFIRMED" => order'[o] = "CONFIRMED"
  BY <1>2 DEF Decide, OrdersInv
<1>3. ASSUME NEW r \in Requests, \/ Ask(r) \/ MarkCashierRead(r) \/ AdvanceFulfillment(r)
                                \/ Notify(r) \/ Fail(r) \/ Again(r)
      PROVE  order' = order
  BY <1>3 DEF Ask, MarkCashierRead, AdvanceFulfillment, Notify, Fail, Again, Refuse, orders
<1>4. CASE UNCHANGED fvars
  BY <1>4 DEF fvars, orders
<1>. QED  BY <1>1, <1>2, <1>3, <1>4 DEF FulfillmentNext

-----------------------------------------------------------------------------
(* The steps of lists                                                      *)

(* A step of one list leaves the others, and the orders, alone. *)
LEMMA OtherLists ==
  ASSUME IndInv, UNCHANGED fvars, NEW l \in Lists, ListTypes',
         \A k \in Lists : k # l =>
           /\ wish'[k] = wish[k] /\ at'[k] = at[k] /\ cursor'[k] = cursor[k]
           /\ page'[k] = page[k] /\ next'[k] = next[k] /\ shown'[k] = shown[k]
           /\ through'[k] = through[k],
         Progress(l)',
         \A o \in page'[l] : Loadable(wish'[l], o)
  PROVE  IndInv'
<1>1. FulfillmentInv'
  BY FulfillmentNextSafe DEF IndInv
<1>2. order' = order /\ fulfillment' = fulfillment
  BY DEF fvars, orders
<1>3. PageLoadable'
  BY <1>2 DEF IndInv, PageLoadable, Loadable
<1>4. ASSUME NEW k \in Lists PROVE Progress(k)'
  <2>1. CASE k = l
    BY <2>1
  <2>2. CASE k # l
    <3>1. AllListed(wish[k])' = AllListed(wish[k])
      BY <1>2, <2>2 DEF AllListed, Listed
    <3>2. Seen(k)' = Seen(k)
      BY <2>2 DEF Seen
    <3>3. Progress(k)
      BY DEF IndInv, AllProgress
    <3>. QED  BY <2>2, <3>1, <3>2, <3>3 DEF Progress
  <2>. QED  BY <2>1, <2>2
<1>. QED  BY <1>1, <1>3, <1>4 DEF IndInv, AllProgress

LEMMA BrowseSafe ==
  ASSUME IndInv, NEW l \in Lists, Browse(l)
  PROVE  IndInv'
<1>1. PICK w \in Wishes : /\ wish' = [wish EXCEPT ![l] = w]
                          /\ through' = [through EXCEPT ![l] = AllListed(w)]
  BY DEF Browse
<1>2. /\ at[l] = "idle" /\ at' = [at EXCEPT ![l] = "query"]
      /\ UNCHANGED fvars /\ UNCHANGED <<cursor, page, next, shown>>
  BY DEF Browse
<1>3. cursor[l] = 0 /\ shown[l] = <<>> /\ page[l] = {}
  BY <1>2 DEF IndInv, AllProgress, Progress
<1>4. ListTypes'
  BY <1>1, <1>2, WishFacts DEF IndInv, ListTypes, AllListed
<1>5. /\ wish'[l] = w /\ through'[l] = AllListed(w) /\ at'[l] = "query"
      /\ cursor'[l] = 0 /\ shown'[l] = <<>> /\ page'[l] = {}
  BY <1>1, <1>2, <1>3 DEF IndInv, ListTypes
<1>6. through'[l] = AllListed(wish[l])'
  BY <1>2, <1>5 DEF AllListed, Listed, fvars, orders
<1>7. Progress(l)'
  BY <1>5, <1>6 DEF Progress
<1>. QED  BY <1>1, <1>2, <1>4, <1>5, <1>7, OtherLists DEF IndInv, ListTypes

LEMMA QueryPageSafe ==
  ASSUME IndInv, NEW l \in Lists, QueryPage(l)
  PROVE  IndInv'
<1>. DEFINE w == wish[l]
            n == wish[l].limit
            S == {o \in AllListed(wish[l]) : cursor[l] = 0 \/ o < cursor[l]}
            P == Page(l)
<1>1. /\ at[l] = "query" /\ at' = [at EXCEPT ![l] = "load"]
      /\ page' = [page EXCEPT ![l] = P]
      /\ UNCHANGED fvars /\ UNCHANGED <<wish, cursor, shown, through>>
  BY DEF QueryPage
<1>2. /\ w \in Wishes /\ n \in Nat \ {0}
  <2>1. w \in Wishes
    BY <1>1 DEF IndInv, ListTypes
  <2>. QED  BY <2>1, WishFacts
<1>3. S \subseteq Orders /\ S \subseteq Nat /\ IsFiniteSet(S)
  <2>1. S \subseteq Orders
    BY DEF AllListed
  <2>. HIDE DEF S
  <2>. QED  BY <2>1, OrderListsAssumption, FS_Subset
<1>4. P = Newest(S, n) /\ P \subseteq S
  BY DEF Page, Newest
<1>5. PICK k \in Orders \cup {0} :
        /\ next' = [next EXCEPT ![l] = k]
        /\ k # 0 => \A p \in P : p >= k
        /\ \A p \in S : p \in P \/ (k # 0 /\ p < k)
  <2>1. CASE /\ Cardinality(P) = n
             /\ \E o \in P : /\ \A p \in P : o <= p
                             /\ next' = [next EXCEPT ![l] = o]
    <3>1. PICK o \in P : /\ \A p \in P : o <= p
                         /\ next' = [next EXCEPT ![l] = o]
      BY <2>1
    <3>2. o \in Orders /\ o \in Nat /\ o # 0
      BY <1>3, <1>4, Numbers
    <3>. HIDE DEF S, n, P
    <3>3. ASSUME NEW p \in S PROVE p \in P \/ p < o
      <4>1. p \in Nat
        BY <1>3
      <4>2. CASE p >= o
        BY <1>2, <1>3, <1>4, <4>2, NewestUpwards
      <4>. QED  BY <3>2, <4>1, <4>2
    <3>4. \A p \in P : p >= o
      <4>1. \A p \in P : p \in Nat
        BY <1>3, <1>4
      <4>. QED  BY <3>1, <3>2, <4>1
    <3>. QED  BY <3>1, <3>2, <3>3, <3>4
  <2>2. CASE /\ Cardinality(P) # n
             /\ next' = [next EXCEPT ![l] = 0]
    <3>. HIDE DEF S, n, P
    <3>1. P = S
      BY <1>2, <1>3, <1>4, <2>2, NewestNotFull
    <3>. QED  BY <2>2, <3>1
  <2>. QED  BY <2>1, <2>2 DEF QueryPage
<1>. HIDE DEF S, n, P
<1>6. P \subseteq Orders /\ \A p \in P : p \in Nat
  BY <1>3, <1>4
<1>7. ListTypes'
  BY <1>1, <1>5, <1>6 DEF IndInv, ListTypes
<1>8. /\ at'[l] = "load" /\ page'[l] = P /\ next'[l] = k
      /\ wish' = wish /\ cursor' = cursor /\ shown' = shown /\ through' = through
  BY <1>1, <1>5 DEF IndInv, ListTypes
<1>9. Seen(l)' = Seen(l) /\ AllListed(wish[l])' = AllListed(wish[l])
  BY <1>1 DEF Seen, AllListed, Listed, fvars, orders
<1>10. Progress(l)
  BY DEF IndInv, AllProgress
<1>11. Seen(l) \subseteq Orders /\ cursor[l] \in Orders \cup {0} /\ through[l] \subseteq Orders
  BY DEF IndInv, ListTypes, Seen
<1>12. \A p \in Seen(l), o \in P : p > o
  <2>. SUFFICES ASSUME NEW p \in Seen(l), NEW o \in P PROVE p > o
    OBVIOUS
  <2>1. cursor[l] # 0
    <3>1. shown[l] # <<>>
      BY DEF Seen
    <3>. QED  BY <1>1, <1>10, <3>1 DEF Progress
  <2>2. o < cursor[l]
    BY <1>4, <2>1 DEF S
  <2>3. p >= cursor[l]
    BY <1>1, <1>10, <2>1 DEF Progress
  <2>4. p \in Nat /\ o \in Nat /\ cursor[l] \in Nat
    BY <1>6, <1>11, Numbers
  <2>. QED  BY <2>2, <2>3, <2>4
<1>13. k # 0 => \A p \in Seen(l) \cup P : p >= k
  <2>. SUFFICES ASSUME k # 0, NEW p \in Seen(l) PROVE p >= k
    BY <1>5
  <2>1. CASE P = {}
    <3>1. CASE Cardinality(P) = n
      <4>1. Cardinality(P) = 0
        BY <2>1, FS_EmptySet
      <4>. QED  BY <1>2, <3>1, <4>1
    <3>2. CASE Cardinality(P) # n
      <4>1. next' = [next EXCEPT ![l] = 0]
        BY <3>2 DEF QueryPage, P, n
      <4>. QED  BY <1>8, <4>1 DEF IndInv, ListTypes
    <3>. QED  BY <3>1, <3>2
  <2>2. CASE P # {}
    <3>1. PICK o \in P : TRUE
      BY <2>2
    <3>2. p > o /\ o >= k
      BY <1>5, <1>12
    <3>3. p \in Nat /\ o \in Nat /\ k \in Nat
      BY <1>6, <1>11, Numbers
    <3>. QED  BY <3>2, <3>3
  <2>. QED  BY <2>1, <2>2
<1>14. \A o \in through[l] : o \in Seen(l) \cup P \/ (k # 0 /\ o < k)
  <2>. SUFFICES ASSUME NEW o \in through[l], o \notin Seen(l)
                PROVE  o \in P \/ (k # 0 /\ o < k)
    OBVIOUS
  <2>1. o \in S
    BY <1>1, <1>10 DEF Progress, S
  <2>. QED  BY <1>5, <2>1
<1>15. Progress(l)'
  BY <1>8, <1>9, <1>10, <1>12, <1>13, <1>14 DEF Progress
<1>16. \A o \in page'[l] : Loadable(wish'[l], o)
  BY <1>2, <1>4, <1>6, <1>8, ListedLoadable DEF S, AllListed
<1>. QED  BY <1>1, <1>5, <1>7, <1>15, <1>16, OtherLists DEF IndInv, ListTypes

LEMMA AppendedOrder ==
  ASSUME NEW t \in Seq(Orders), NEW o \in Orders, NEW u, u = Append(t, o)
  PROVE  /\ u \in Seq(Orders)
         /\ Len(t) \in Nat /\ Len(u) = Len(t) + 1
         /\ \A i \in 1..Len(t) : u[i] = t[i]
         /\ u[Len(t) + 1] = o
OBVIOUS

LEMMA LoadOrderSafe ==
  ASSUME IndInv, NEW l \in Lists, LoadOrder(l)
  PROVE  IndInv'
<1>1. /\ at[l] = "load"
      /\ UNCHANGED fvars /\ UNCHANGED <<wish, cursor, next, through>>
  BY DEF LoadOrder
<1>2. PICK o \in page[l] :
        /\ \A p \in page[l] : p <= o
        /\ \/ /\ Loadable(wish[l], o)
              /\ shown' = [shown EXCEPT ![l] = Append(@, o)]
              /\ page' = [page EXCEPT ![l] = @ \ {o}]
              /\ UNCHANGED at
           \/ /\ ~ Loadable(wish[l], o)
              /\ at' = [at EXCEPT ![l] = "failed"]
              /\ UNCHANGED <<shown, page>>
  BY DEF LoadOrder
<1>3. Loadable(wish[l], o)
  BY DEF IndInv, PageLoadable
<1>4. /\ shown' = [shown EXCEPT ![l] = Append(@, o)]
      /\ page' = [page EXCEPT ![l] = @ \ {o}]
      /\ UNCHANGED at
  BY <1>2, <1>3
<1>5. o \in Orders /\ shown[l] \in Seq(Orders) /\ page[l] \subseteq Orders
  BY DEF IndInv, ListTypes
<1>6. PICK u : u = Append(shown[l], o)
  OBVIOUS
<1>7. /\ u \in Seq(Orders)
      /\ Len(shown[l]) \in Nat /\ Len(u) = Len(shown[l]) + 1
      /\ \A i \in 1..Len(shown[l]) : u[i] = shown[l][i]
      /\ u[Len(shown[l]) + 1] = o
  BY <1>5, <1>6, AppendedOrder
<1>8. shown' = [shown EXCEPT ![l] = u]
  BY <1>4, <1>6
<1>9. ListTypes'
  BY <1>1, <1>4, <1>7, <1>8 DEF IndInv, ListTypes
<1>10. /\ at'[l] = "load" /\ page'[l] = page[l] \ {o} /\ next'[l] = next[l]
       /\ wish'[l] = wish[l] /\ shown'[l] = u /\ through'[l] = through[l]
  BY <1>1, <1>4, <1>8 DEF IndInv, ListTypes
<1>. DEFINE n == Len(shown[l]) + 1
<1>11. Seen(l)' = Seen(l) \cup {o}
  <2>1. Seen(l)' = {u[i] : i \in 1..n}
    BY <1>7, <1>10 DEF Seen
  <2>2. ASSUME NEW p \in Seen(l)' PROVE p \in Seen(l) \cup {o}
    <3>1. PICK i \in 1..n : p = u[i]
      BY <2>1, <2>2
    <3>. QED  BY <1>7, <3>1 DEF Seen
  <2>3. ASSUME NEW p \in Seen(l) \cup {o} PROVE p \in {u[i] : i \in 1..n}
    <3>1. \E i \in 1..n : p = u[i]
      BY <1>7, <2>3 DEF Seen
    <3>. QED  BY <3>1
  <2>. QED  BY <2>1, <2>2, <2>3
<1>12. AllListed(wish[l])' = AllListed(wish[l])
  BY <1>1 DEF AllListed, Listed, fvars, orders
<1>13. Progress(l)
  BY DEF IndInv, AllProgress
<1>14. \A p \in page[l] \cup Seen(l) : p \in Nat
  BY <1>5, Numbers DEF IndInv, ListTypes, Seen
<1>15. \A p \in Seen(l) \cup {o}, q \in page[l] \ {o} : p > q
  <2>1. \A q \in page[l] \ {o} : o > q
    BY <1>2, <1>14
  <2>. QED  BY <1>1, <1>13, <2>1 DEF Progress
<1>16. next[l] # 0 => \A p \in Seen(l) \cup {o} \cup (page[l] \ {o}) : p >= next[l]
  BY <1>1, <1>13 DEF Progress
<1>17. \A p \in through[l] :
         \/ p \in Seen(l) \cup {o} \cup (page[l] \ {o})
         \/ next[l] # 0 /\ p < next[l]
  BY <1>1, <1>13 DEF Progress
<1>18. \A i, j \in 1..Len(u) : i < j => u[i] > u[j]
  <2>. SUFFICES ASSUME NEW i \in 1..n, NEW j \in 1..n, i < j
                PROVE  u[i] > u[j]
    BY <1>7
  <2>1. i \in 1..Len(shown[l]) /\ u[i] = shown[l][i] /\ u[i] \in Seen(l)
    BY <1>7 DEF Seen
  <2>2. CASE j = n
    <3>1. u[j] = o /\ u[i] > o
      BY <1>1, <1>7, <1>13, <2>1, <2>2 DEF Progress
    <3>. QED  BY <3>1
  <2>3. CASE j # n
    <3>1. j \in 1..Len(shown[l]) /\ u[j] = shown[l][j]
      BY <1>7, <2>3
    <3>. QED  BY <1>13, <2>1, <3>1 DEF Progress
  <2>. QED  BY <2>2, <2>3
<1>19. Progress(l)'
  <2>1. through'[l] \subseteq AllListed(wish[l])'
    BY <1>10, <1>12, <1>13 DEF Progress
  <2>2. Seen(l)' \cup page'[l] = Seen(l) \cup {o} \cup (page[l] \ {o})
    BY <1>10, <1>11
  <2>. QED
    BY <1>10, <1>11, <1>15, <1>16, <1>17, <1>18, <2>1, <2>2 DEF Progress
<1>20. \A p \in page'[l] : Loadable(wish'[l], p)
  BY <1>10 DEF IndInv, PageLoadable
<1>. QED  BY <1>1, <1>4, <1>9, <1>19, <1>20, OtherLists DEF IndInv, ListTypes

LEMMA NextPageSafe ==
  ASSUME IndInv, NEW l \in Lists, NextPage(l)
  PROVE  IndInv'
<1>1. /\ at[l] = "load" /\ page[l] = {}
      /\ cursor' = [cursor EXCEPT ![l] = next[l]]
      /\ at' = [at EXCEPT ![l] = IF next[l] = 0 THEN "done" ELSE "query"]
      /\ UNCHANGED fvars /\ UNCHANGED <<wish, page, next, shown, through>>
  BY DEF NextPage
<1>2. ListTypes'
  BY <1>1 DEF IndInv, ListTypes
<1>3. /\ at'[l] = (IF next[l] = 0 THEN "done" ELSE "query") /\ cursor'[l] = next[l]
      /\ wish'[l] = wish[l] /\ page'[l] = {} /\ shown'[l] = shown[l]
      /\ through'[l] = through[l]
  BY <1>1 DEF IndInv, ListTypes
<1>4. Seen(l)' = Seen(l) /\ AllListed(wish[l])' = AllListed(wish[l])
  BY <1>1 DEF Seen, AllListed, Listed, fvars, orders
<1>5. Progress(l)
  BY DEF IndInv, AllProgress
<1>6. Progress(l)'
  <2>1. CASE next[l] = 0
    BY <1>1, <1>3, <1>4, <1>5, <2>1 DEF Progress
  <2>2. CASE next[l] # 0
    BY <1>1, <1>3, <1>4, <1>5, <2>2 DEF Progress
  <2>. QED  BY <2>1, <2>2
<1>. QED  BY <1>1, <1>2, <1>3, <1>6, OtherLists DEF IndInv, ListTypes

LEMMA FailListSafe ==
  ASSUME IndInv, NEW l \in Lists, FailList(l)
  PROVE  IndInv'
<1>1. /\ at[l] \in {"query", "load"} /\ at' = [at EXCEPT ![l] = "failed"]
      /\ UNCHANGED fvars /\ UNCHANGED <<wish, cursor, page, next, shown, through>>
  BY DEF FailList
<1>2. ListTypes'
  BY <1>1 DEF IndInv, ListTypes
<1>3. at'[l] = "failed"
  BY <1>1 DEF IndInv, ListTypes
<1>4. AllListed(wish[l])' = AllListed(wish[l])
  BY <1>1 DEF AllListed, Listed, fvars, orders
<1>5. Progress(l)
  BY DEF IndInv, AllProgress
<1>6. Progress(l)'
  BY <1>1, <1>3, <1>4, <1>5 DEF Progress
<1>7. \A o \in page'[l] : Loadable(wish'[l], o)
  BY <1>1 DEF IndInv, PageLoadable
<1>. QED  BY <1>1, <1>2, <1>6, <1>7, OtherLists DEF IndInv, ListTypes

LEMMA MeanwhileSafe ==
  ASSUME IndInv, Meanwhile
  PROVE  IndInv'
<1>1. /\ FulfillmentNext
      /\ UNCHANGED <<wish, at, cursor, page, next, shown>>
      /\ through' = [l \in Lists |-> {o \in through[l] : Listed(wish[l], o)'}]
  BY DEF Meanwhile
<1>2. FulfillmentInv'
  BY <1>1, FulfillmentNextSafe DEF IndInv
<1>3. ListTypes'
  BY <1>1 DEF IndInv, ListTypes
<1>4. \A o \in Orders : /\ order[o] # "NONE" => order'[o] # "NONE"
                        /\ order[o] = "CONFIRMED" => order'[o] = "CONFIRMED"
  BY <1>1, OrdersGrow DEF IndInv, FulfillmentInv
<1>5. PageLoadable'
  <2>. SUFFICES ASSUME NEW l \in Lists, NEW o \in page[l]
                PROVE  Loadable(wish[l], o)'
    BY <1>1 DEF PageLoadable
  <2>1. o \in Orders /\ Loadable(wish[l], o)
    BY DEF IndInv, ListTypes, PageLoadable
  <2>. QED  BY <1>1, <1>4, <2>1 DEF Loadable
<1>6. ASSUME NEW l \in Lists PROVE Progress(l)'
  <2>1. Progress(l) /\ through[l] \subseteq Orders
    BY DEF IndInv, AllProgress, ListTypes
  <2>2. through'[l] \subseteq through[l] /\ through'[l] \subseteq AllListed(wish[l])'
    BY <1>1, <2>1 DEF AllListed
  <2>3. Seen(l)' = Seen(l)
    BY <1>1 DEF Seen
  <2>. QED  BY <1>1, <2>1, <2>2, <2>3 DEF Progress
<1>. QED  BY <1>2, <1>3, <1>5, <1>6 DEF IndInv, AllProgress

-----------------------------------------------------------------------------
(* The theorems                                                            *)

LEMMA InitSafe == Init => IndInv
<1>. SUFFICES ASSUME Init PROVE IndInv
  OBVIOUS
<1>1. FulfillmentInv
  BY FulfillmentInitSafe DEF Init
<1>2. ListTypes
  BY DEF Init, ListTypes
<1>3. PageLoadable
  BY DEF Init, PageLoadable
<1>4. AllProgress
  BY DEF Init, AllProgress, Progress
<1>. QED  BY <1>1, <1>2, <1>3, <1>4 DEF IndInv

LEMMA NextSafe == IndInv /\ [Next]_vars => IndInv'
<1>. SUFFICES ASSUME IndInv, [Next]_vars PROVE IndInv'
  OBVIOUS
<1>1. CASE UNCHANGED vars
  <2>1. UNCHANGED fvars /\ UNCHANGED lists
    BY <1>1 DEF vars
  <2>2. FulfillmentInv'
    BY <2>1, FulfillmentNextSafe DEF IndInv
  <2>3. PageLoadable'
    BY <2>1 DEF IndInv, PageLoadable, Loadable, fvars, orders, lists
  <2>4. ASSUME NEW l \in Lists PROVE Progress(l)'
    <3>1. Seen(l)' = Seen(l) /\ AllListed(wish[l])' = AllListed(wish[l])
      BY <2>1 DEF Seen, AllListed, Listed, fvars, orders, lists
    <3>. QED  BY <2>1, <3>1 DEF IndInv, AllProgress, Progress, lists
  <2>. QED  BY <2>1, <2>2, <2>3, <2>4 DEF IndInv, ListTypes, AllProgress, lists
<1>. QED
  BY <1>1, MeanwhileSafe, BrowseSafe, QueryPageSafe, LoadOrderSafe, NextPageSafe, FailListSafe
     DEF Next

(* Whatever cashiers ask for and whoever reads a list, what is stored      *)
(* about orders, and what the lists still have to show, agree.             *)
THEOREM Invariance == Spec => []IndInv
BY InitSafe, NextSafe, PTL DEF Spec

(* Orders, fulfillments, audit records, notifications, requests and lists  *)
(* keep their types; an order has a fulfillment exactly if it is confirmed. *)
THEOREM TypeCorrect == Spec => []TypeOK
<1>1. IndInv => TypeOK
  BY FulfillmentInvTypes DEF IndInv, ListTypes, TypeOK
<1>. QED  BY <1>1, Invariance, PTL

(* The audit records tell how each order came to where it is               *)
(* (AdvanceFulfillment, MarkCashierRead).                                  *)
THEOREM AuditTrailIsTrue == Spec => []TrailTrue
<1>1. IndInv => TrailTrue
  BY FulfillmentInvTypes DEF IndInv
<1>. QED  BY <1>1, Invariance, PTL

(* No order on a page that was read stops being loadable (loadOrders).     *)
THEOREM PagesLoad == Spec => []PageLoadable
<1>1. IndInv => PageLoadable
  BY DEF IndInv
<1>. QED  BY <1>1, Invariance, PTL

(* A list that is read to its end leaves nothing out that belonged to it   *)
(* all the while, and shows nothing twice (CustomerOrders, CashierOrders). *)
THEOREM ListsAreComplete == Spec => []NothingMissed
<1>1. ASSUME IndInv PROVE NothingMissed
  <2>. SUFFICES ASSUME NEW l \in Lists
                PROVE  /\ at[l] = "done" =>
                            \A o \in through[l] : \E i \in 1..Len(shown[l]) : shown[l][i] = o
                       /\ \A i, j \in 1..Len(shown[l]) : i < j => shown[l][i] > shown[l][j]
    BY DEF NothingMissed
  <2>. QED  BY <1>1 DEF IndInv, AllProgress, Progress, Seen
<1>. QED  BY <1>1, Invariance, PTL

(* What customers and cashiers are shown of an order, and what customers   *)
(* are told, is a behaviour of OrderLife.                                  *)
THEOREM LivesAsDescribed == Spec => LifeSpec
<1>1. Init => Life!Init
  BY LifeInit DEF Init
<1>2. IndInv /\ IndInv' /\ [Next]_vars => [Life!Next]_(Life!vars)
  <2>1. [Next]_vars => [FulfillmentNext]_fvars
    BY DEF Next, Meanwhile, Browse, QueryPage, LoadOrder, NextPage, FailList, vars
  <2>. QED  BY <2>1, LifeStep DEF IndInv
<1>. QED  BY <1>1, <1>2, Invariance, PTL DEF Spec, LifeSpec, Life!Spec

=================================================================================
