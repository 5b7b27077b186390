------------------------------ MODULE MCOrderLists ------------------------------
(* A small instance of OrderLists.                                          *)
EXTENDS OrderLists, TLC

CONSTANTS c1, c2, k1, k2, r1, r2, l1

(* The second order is another customer's. *)
SomeOwner == [o \in Orders |-> IF o = 2 THEN c2 ELSE c1]

SomeWishes ==
  {[kind |-> "customer", of |-> c1, limit |-> 1],
   [kind |-> "cashier", of |-> "ANY", limit |-> 1],
   [kind |-> "cashier", of |-> "PREPARING", limit |-> 2]}

(* Everything is asked for one order, only what moves the others for them.  *)
SomeAsks ==
  [kind : {"read"} \cup Targets, order : {1}, by : Cashiers] \cup
  [kind : Targets, order : Orders, by : {k1}]

(* Two cashiers work on one order; or one works on three orders, on time    *)
(* and telling nobody, while a list is read and until it has been.          *)
Few ==
  \/ /\ at[l1] = "idle" /\ \A o \in Orders : o > 1 => order[o] = "NONE"
     /\ \A r \in Requests : pc[r] # "idle" => Order(r) = 1
  \/ /\ at[l1] \notin {"failed", "done"} /\ told = {}
     /\ \A r \in Requests :
          pc[r] # "idle" =>
            r = r1 /\ ask[r].by = k1 /\ ask[r].kind \in Targets /\ now[r] = 0
     /\ \A o \in Orders : \A i \in 1..Len(trail[o]) :
          trail[o][i].by = k1 /\ trail[o][i].at = 0 /\ trail[o][i].action \in Targets

(* A list takes its steps while no request is under way: of the steps of a  *)
(* request only the one with its transaction matters to a list.             *)
ByTurns == (\E r \in Requests : pc[r] # "idle") => at' = at /\ page' = page

(* No step and no property looks at an answer, at the time once it has been *)
(* stored, or at what was asked once it has been answered.                  *)
WhatMatters ==
  <<orders, pc, lists,
    [r \in Requests |-> IF pc[r] = "store" THEN now[r] ELSE 0],
    [r \in Requests |-> IF pc[r] = "done" THEN NoAsk ELSE ask[r]]>>

=============================================================================
