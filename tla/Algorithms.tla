------------------------------- MODULE Algorithms -------------------------------
(***************************************************************************)
(* The computations of the two services, each over every input, one input  *)
(* in a state: the delay of a retry, the subtotal of a cart, and the       *)
(* decision on an order.                                                   *)
(***************************************************************************)
EXTENDS RetryBackoff, CheckoutTotals, StockDecision, SequencesExt

CONSTANTS   \* bounds of the inputs
  MaxAttempts,
  MaxLines, MaxPieces,
  MaxOff, MaxStock, MaxQuantity

ASSUME BoundsAssumption ==
  {MaxAttempts, MaxLines, MaxPieces, MaxOff, MaxStock, MaxQuantity} \subseteq Nat

VARIABLE input

vars == <<input>>

(* An event that failed for the nth time, for all delays config.go accepts. *)
Retry ==
  \E max \in 1 .. MaxInt : \E base \in 1 .. max, n \in 1 .. MaxAttempts :
    input = [of |-> "retry", base |-> base, max |-> max, attempt |-> n]

Lines == [price : 0 .. MaxInt, quantity : 1 .. MaxPieces]

Cart ==
  \E n \in 1 .. MaxLines : \E lines \in [1 .. n -> Lines] :
    input = [of |-> "cart", lines |-> lines]

Physical == {i \in Items : Kind[i] = "physical"}

Order ==
  \E P, off \in SUBSET Items, s \in [Physical -> 0 .. MaxStock] :
    /\ P # {}
    /\ Cardinality(off) <= MaxOff
    /\ \E o \in [P -> 1 .. MaxQuantity] :
         input = [of |-> "order", order |-> o, active |-> [i \in Items |-> i \notin off],
                  stock |-> [i \in Items |-> IF i \in Physical THEN s[i] ELSE 0]]

Init == Retry \/ Cart \/ Order

Next == UNCHANGED vars

Spec == Init /\ [][Next]_vars

-----------------------------------------------------------------------------

(* The delay is retryBase doubled with every attempt and cut at retryMax,   *)
(* although the loop never computes a power that would not fit an int64.    *)
(* (Worker.retryDelay)                                                     *)
MatchesDoubling ==
  input.of = "retry" =>
    LET doubled == input.base * PowerOfTwo[input.attempt - 1]
    IN retryDelay(input.base, input.max, input.attempt)
         = IF doubled > input.max THEN input.max ELSE doubled

(* What the lines of a cart cost, in numbers without a bound. *)
TrueTotal(lines) ==
  LET total[n \in 0 .. Len(lines)] ==
        IF n = 0 THEN 0 ELSE total[n - 1] + lines[n].price * lines[n].quantity
  IN total[Len(lines)]

(* The subtotal on an order is the true sum of its lines, and a cart is     *)
(* refused exactly when that sum does not fit an amount: no cart slips      *)
(* through with a wrapped total, and none that fits is turned away.         *)
(* (Service.PlaceOrder)                                                    *)
ExactOrRefused ==
  input.of = "cart" =>
    LET total == TrueTotal(input.lines)
    IN Subtotal(input.lines) = IF total <= MaxInt THEN total ELSE Invalid

(* Serve one line from what is left, or fail (a negative stock stays). *)
Serve(order, left, p) ==
  [i \in Items |-> left[i] - (IF i \in Parts(p) THEN Need(p, order[p], i) ELSE 0)]

(* What serving the lines of an order one after the other leaves. *)
LeftAfter(order, stock) ==
  LET line == SetToSeq(DOMAIN order)
      left[n \in 0 .. Len(line)] ==
        IF n = 0 THEN stock ELSE Serve(order, left[n - 1], line[n])
  IN left[Len(line)]

Left == LeftAfter(input.order, input.stock)

(* Can the lines be served one after the other, every one of them on sale   *)
(* and made of items on sale whose stock is kept?                           *)
Servable ==
  /\ \A p \in DOMAIN input.order :
       /\ input.active[p]
       /\ Kind[p] = "composite" => DOMAIN Recipe[p] # {}
       /\ \A i \in Parts(p) : input.active[i] /\ i \in Physical
  /\ \A i \in Items : Left[i] >= 0

(* An order is committed exactly when it is servable, and it then takes     *)
(* what serving its lines would take.  (commitOnce adds the demands of all  *)
(* lines up before it compares.)                                           *)
AsIfServed ==
  input.of = "order" =>
    /\ Status(input.order, input.active, input.stock) = "COMMITTED" <=> Servable
    /\ Servable => Deducted(input.order, input.active, input.stock) = Left

(* A product the catalog shows as available can be ordered, once, as long   *)
(* as nothing changes, and one it shows as unavailable cannot: catalog.go   *)
(* and commitOnce agree.  Composites that contain an item whose stock is    *)
(* not kept are left out: there they do not agree.                          *)
OfferKept ==
  input.of = "order" =>
    \A p \in Items :
      Parts(p) \subseteq Physical =>
        (Offered(p, input.active, input.stock)
           <=> Status([x \in {p} |-> 1], input.active, input.stock) = "COMMITTED")

=============================================================================
