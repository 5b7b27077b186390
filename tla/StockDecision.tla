----------------------------- MODULE StockDecision -----------------------------
(***************************************************************************)
(* What the inventory adapter makes of an order, given the stock: the      *)
(* computation inside commitOnce (adapters/postgres/store.go), and the     *)
(* availability its catalog shows (adapters/postgres/catalog.go).          *)
(*                                                                         *)
(* An order is a function from the products it asks for to quantities: a   *)
(* product has at most one line.  A product that the point of sale does    *)
(* not know is one that is never active.                                   *)
(***************************************************************************)
EXTENDS Integers, FiniteSets

CONSTANTS
  Items,    \* POS items, numbered in the order of their ids
  Kind,     \* of each item: "physical", "untracked" or "composite"
  Recipe,   \* of each composite: how much of each component, in 1/Scale units
  Scale

ASSUME ItemsAssumption ==
  /\ Items \subseteq Nat
  /\ IsFiniteSet(Items)
  /\ Kind \in [Items -> {"physical", "untracked", "composite"}]
  /\ DOMAIN Recipe = Items
  /\ \A p \in Items : /\ DOMAIN Recipe[p] \subseteq Items
                      /\ \A i \in DOMAIN Recipe[p] : Recipe[p][i] \in Nat \ {0}
  /\ Scale \in Nat \ {0}

-----------------------------------------------------------------------------

(* The items whose stock product p is made of. *)
Parts(p) ==
  CASE Kind[p] = "untracked" -> {}
    [] Kind[p] = "physical" -> {p}
    [] Kind[p] = "composite" -> DOMAIN Recipe[p]

Ceiling(amount) == (amount + Scale - 1) \div Scale

(* How many of item i, one of its parts, a line of q times p takes. *)
Need(p, q, i) ==
  IF Kind[p] = "physical" THEN q ELSE Ceiling(Recipe[p][i] * q)

Sold(order, active) == {p \in DOMAIN order : active[p]}

(* The rows that are locked: what is ordered, and what it is made of. *)
Relevant(order, active) ==
  DOMAIN order \cup UNION {Parts(p) : p \in Sold(order, active)}

(* Mutant: lines that share an item do not add up. *)
Units_NotAggregated(order, active, i) ==
  UNION {1 .. Need(p, order[p], i) :
           p \in {x \in Sold(order, active) : i \in Parts(x)}}

(* Every single unit of item i that some line takes. *)
Units(order, active, i) ==
  UNION {{p} \X (1 .. Need(p, order[p], i)) :
           p \in {x \in Sold(order, active) : i \in Parts(x)}}

Demand(order, active, i) == Cardinality(Units(order, active, i))

Covered(order, active, stock, i) ==
  /\ active[i]
  /\ Kind[i] = "physical"
  /\ stock[i] >= Demand(order, active, i)

Unavailable(order, active, stock) ==
  {p \in DOMAIN order :
     \/ ~ active[p]
     \/ Kind[p] = "composite" /\ Parts(p) = {}
     \/ \E i \in Parts(p) : ~ Covered(order, active, stock, i)}

(* The quantity reported for an unavailable line. *)
AvailableQuantity(p, active, stock) ==
  IF active[p] /\ Kind[p] = "physical" /\ stock[p] > 0 THEN stock[p] ELSE 0

Status(order, active, stock) ==
  IF Unavailable(order, active, stock) = {} THEN "COMMITTED"
                                            ELSE "ITEMS_UNAVAILABLE"

UnavailableItems(order, active, stock) ==
  {[product |-> p, available |-> AvailableQuantity(p, active, stock)] :
     p \in Unavailable(order, active, stock)}

(* The stock that a committed order leaves. *)
Deducted(order, active, stock) ==
  [i \in Items |-> stock[i] - Demand(order, active, i)]

-----------------------------------------------------------------------------

(* Mutant: the catalog rounds the quantity of a component down. *)
Offered_RoundsDown(p, active, stock) ==
  /\ active[p]
  /\ CASE Kind[p] = "untracked" -> TRUE
       [] Kind[p] = "physical" -> stock[p] > 0
       [] Kind[p] = "composite" ->
            /\ Parts(p) # {}
            /\ \A i \in Parts(p) :
                 /\ active[i]
                 /\ Kind[i] # "untracked" => stock[i] >= Recipe[p][i] \div Scale

(* The "available" of the catalog. *)
Offered(p, active, stock) ==
  /\ active[p]
  /\ CASE Kind[p] = "untracked" -> TRUE
       [] Kind[p] = "physical" -> stock[p] > 0
       [] Kind[p] = "composite" ->
            /\ Parts(p) # {}
            /\ \A i \in Parts(p) :
                 /\ active[i]
                 /\ Kind[i] # "untracked" => stock[i] >= Ceiling(Recipe[p][i])

=============================================================================
