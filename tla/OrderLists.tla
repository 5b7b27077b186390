------------------------------- MODULE OrderLists -------------------------------
(***************************************************************************)
(* The lists of orders, read page by page while orders are placed, decided *)
(* and moved on: a customer's own, and the cashiers', which may be limited *)
(* to one stage (ordering/adapters/postgres/store.go, transport/http.go).  *)
(*                                                                         *)
(* Orders are numbered in the order of created_at and id: the time is read *)
(* before the transaction begins, so one that commits late shows up        *)
(* behind newer ones.  A page is the result of one statement; the orders   *)
(* on it are then loaded one by one, each by a statement of its own.       *)
(***************************************************************************)
EXTENDS Fulfillment, FiniteSets

CONSTANTS
  Lists,
  Wishes,    \* what a list may be of
  Customers,
  Owner,     \* the customer of each order
  MaxLimit,  \* of a page
  NoWish

ASSUME OrderListsAssumption ==
  /\ Orders \subseteq Nat \ {0}
  /\ IsFiniteSet(Orders)
  /\ Owner \in [Orders -> Customers]
  /\ Wishes \subseteq
       [kind : {"customer"}, of : Customers, limit : 1..MaxLimit] \cup
       [kind : {"cashier"}, of : Stages \cup {"ANY"}, limit : 1..MaxLimit]
  /\ NoWish \notin Wishes
  /\ MaxLimit \in Nat

VARIABLES
  wish,     \* of each list
  at,       \* what it does next
  cursor,   \* after_id, 0 at first
  page,     \* orders that are still to be loaded
  next,     \* next_after_id, 0 if there is none
  shown,    \* the orders it has shown, in that order
  through   \* orders that have belonged to it since its first page

lists == <<wish, at, cursor, page, next, shown, through>>
vars == <<fvars, lists>>

Init ==
  /\ FulfillmentInit
  /\ wish = [l \in Lists |-> NoWish]
  /\ at = [l \in Lists |-> "idle"]
  /\ cursor = [l \in Lists |-> 0]
  /\ page = [l \in Lists |-> {}]
  /\ next = [l \in Lists |-> 0]
  /\ shown = [l \in Lists |-> <<>>]
  /\ through = [l \in Lists |-> {}]

-----------------------------------------------------------------------------

(* Does an order belong to a list? *)
Listed(w, o) ==
  /\ w # NoWish
  /\ \/ w.kind = "customer" /\ order[o] # "NONE" /\ Owner[o] = w.of
     \/ w.kind = "cashier" /\ order[o] = "CONFIRMED" /\ w.of \in {"ANY", fulfillment[o].status}

AllListed(w) == {o \in Orders : Listed(w, o)}

(* The newest n of a set. *)
Newest(S, n) == {o \in S : Cardinality({p \in S : p > o}) < n}

(* Mutant: the cursor is a count of what has been shown. *)
Page_ByOffset(l) ==
  LET S == AllListed(wish[l]) IN
  Newest(S, Len(shown[l]) + wish[l].limit) \ Newest(S, Len(shown[l]))

(* ORDER BY created_at DESC, id DESC LIMIT n, from where the cursor is. *)
Page(l) ==
  Newest({o \in AllListed(wish[l]) : cursor[l] = 0 \/ o < cursor[l]}, wish[l].limit)

Browse(l) ==
  /\ at[l] = "idle"
  /\ \E w \in Wishes :
       /\ wish' = [wish EXCEPT ![l] = w]
       /\ through' = [through EXCEPT ![l] = AllListed(w)]
  /\ at' = [at EXCEPT ![l] = "query"]
  /\ UNCHANGED <<fvars, cursor, page, next, shown>>

(* next_after_id is the last of a page that is full. *)
QueryPage(l) ==
  /\ at[l] = "query"
  /\ page' = [page EXCEPT ![l] = Page(l)]
  /\ \/ /\ Cardinality(Page(l)) = wish[l].limit
        /\ \E o \in Page(l) :
             /\ \A p \in Page(l) : o <= p
             /\ next' = [next EXCEPT ![l] = o]
     \/ /\ Cardinality(Page(l)) # wish[l].limit
        /\ next' = [next EXCEPT ![l] = 0]
  /\ at' = [at EXCEPT ![l] = "load"]
  /\ UNCHANGED <<fvars, wish, cursor, shown, through>>

(* Mutant: it is loaded only if it still belongs to the list. *)
Loadable_IfListed(w, o) == Listed(w, o)

(* May the order be loaded on its own?  Whatever stage it is at now. *)
Loadable(w, o) ==
  IF w.kind = "customer" THEN order[o] # "NONE" /\ Owner[o] = w.of
  ELSE order[o] = "CONFIRMED"

LoadOrder(l) ==
  /\ at[l] = "load"
  /\ \E o \in page[l] :
       /\ \A p \in page[l] : p <= o
       /\ \/ /\ Loadable(wish[l], o)
             /\ shown' = [shown EXCEPT ![l] = Append(@, o)]
             /\ page' = [page EXCEPT ![l] = @ \ {o}]
             /\ UNCHANGED at
          \/ /\ ~ Loadable(wish[l], o)
             /\ at' = [at EXCEPT ![l] = "failed"]
             /\ UNCHANGED <<shown, page>>
  /\ UNCHANGED <<fvars, wish, cursor, next, through>>

(* The client asks for the next page, if there may be one. *)
NextPage(l) ==
  /\ at[l] = "load" /\ page[l] = {}
  /\ cursor' = [cursor EXCEPT ![l] = next[l]]
  /\ at' = [at EXCEPT ![l] = IF next[l] = 0 THEN "done" ELSE "query"]
  /\ UNCHANGED <<fvars, wish, page, next, shown, through>>

FailList(l) ==
  /\ at[l] \in {"query", "load"}
  /\ at' = [at EXCEPT ![l] = "failed"]
  /\ UNCHANGED <<fvars, wish, cursor, page, next, shown, through>>

(* While a list is read, other things happen. *)
Meanwhile ==
  /\ FulfillmentNext
  /\ UNCHANGED <<wish, at, cursor, page, next, shown>>
  /\ through' = [l \in Lists |-> {o \in through[l] : Listed(wish[l], o)'}]

Next ==
  \/ Meanwhile
  \/ \E l \in Lists : Browse(l) \/ QueryPage(l) \/ LoadOrder(l) \/ NextPage(l) \/ FailList(l)

Spec == Init /\ [][Next]_vars

-----------------------------------------------------------------------------
(* What should hold                                                        *)

TypeOK ==
  /\ FulfillmentTypeOK
  /\ wish \in [Lists -> Wishes \cup {NoWish}]
  /\ at \in [Lists -> {"idle", "query", "load", "failed", "done"}]
  /\ cursor \in [Lists -> Orders \cup {0}]
  /\ page \in [Lists -> SUBSET Orders]
  /\ next \in [Lists -> Orders \cup {0}]
  /\ shown \in [Lists -> Seq(Orders)]
  /\ through \in [Lists -> SUBSET Orders]
  /\ \A l \in Lists : (at[l] = "idle") <=> (wish[l] = NoWish)

(* Whoever reads a list to its end has seen every order that belonged to   *)
(* it all the while, whatever was placed, confirmed or moved on between    *)
(* two pages, and no order twice.  (CustomerOrders, CashierOrders,         *)
(* listResponse; an order that changes its stage may be on neither list.)  *)
NothingMissed ==
  \A l \in Lists :
    /\ at[l] = "done" => \A o \in through[l] : \E i \in 1..Len(shown[l]) : shown[l][i] = o
    /\ \A i, j \in 1..Len(shown[l]) : i < j => shown[l][i] > shown[l][j]

(* One order that cannot be loaded would fail the whole page: none that    *)
(* was on it stops being loadable, although the page was read before.      *)
(* (loadOrders)                                                            *)
PageLoadable == \A l \in Lists : \A o \in page[l] : Loadable(wish[l], o)

=============================================================================
