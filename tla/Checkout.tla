-------------------------------- MODULE Checkout --------------------------------
(***************************************************************************)
(* Place Order: Service.PlaceOrder (application/service.go) and the        *)
(* transaction of Store.PlaceOrder (adapters/postgres/store.go), one       *)
(* request among others that may carry the same checkout id: a double tap, *)
(* a retry after a lost answer, or an id used for another cart.            *)
(*                                                                         *)
(* The transaction is READ COMMITTED: a statement sees what was committed  *)
(* when it started, and the INSERT waits for an open transaction that has  *)
(* inserted the same checkout_id (UNIQUE) to end.  The catalog changes     *)
(* whenever a synchronisation publishes a snapshot.                        *)
(*                                                                         *)
(* A cart gives the expected price of each of its products; quantities and *)
(* the delivery address, which the fingerprint also covers, are left out.  *)
(***************************************************************************)
EXTENDS FiniteSets

CONSTANTS
  Requests,       \* HTTP requests; the id of the order a request creates
  Customers,
  Checkouts,      \* checkout ids, chosen by clients
  Products,
  Prices,
  NotOrderable,   \* a product that is unavailable, or not in the catalog
  NoBody,         \* a request not yet sent
  NoAnswer        \* a request not yet answered

Carts == UNION {[P -> Prices] : P \in SUBSET Products \ {{}}}

Bodies == [customer : Customers, checkout : Checkouts, cart : Carts]

Answers == [kind : {"ORDER"}, id : Requests, replayed : BOOLEAN]
           \cup [kind : {"CART_CHANGED", "CHECKOUT_CONFLICT", "FAILED"}]

ASSUME CheckoutAssumption ==
  /\ NotOrderable \notin Prices
  /\ NoBody \notin Bodies
  /\ NoAnswer \notin Answers

VARIABLES
  catalog,      \* the current snapshot: the price of each product
  orders,       \* committed rows of orders
  uncommitted,  \* rows inserted by transactions still open
  pc,           \* where each request is
  body,         \* what each request asks for
  answer        \* what each request was answered

vars == <<catalog, orders, uncommitted, pc, body, answer>>

-----------------------------------------------------------------------------

(* checkoutFingerprint: a digest of the customer and the cart. *)
Fingerprint(b) == <<b.customer, b.cart>>

Row(r) == [id |-> r, checkout |-> body[r].checkout, owner |-> body[r].customer,
           fingerprint |-> Fingerprint(body[r])]

Placed(id, replayed) == [kind |-> "ORDER", id |-> id, replayed |-> replayed]

Refused(kind) == [kind |-> kind]

(* Mutant: a stored order is returned for its checkout id alone. *)
Matches_CheckoutOnly(row, r) == row.checkout = body[r].checkout

Matches(row, r) ==
  row.fingerprint = Fingerprint(body[r]) /\ row.owner = body[r].customer

(* findCheckout *)
Found(r) == {row \in orders : row.checkout = body[r].checkout}

At(r, step) == pc[r] = step

Goto(r, step) == pc' = [pc EXCEPT ![r] = step]

(* The request ends with answer a. *)
Give(r, a) ==
  /\ answer' = [answer EXCEPT ![r] = a]
  /\ Goto(r, "done")

Init ==
  /\ catalog \in [Products -> Prices \cup {NotOrderable}]
  /\ orders = {}
  /\ uncommitted = {}
  /\ pc = [r \in Requests |-> "unsent"]
  /\ body = [r \in Requests |-> NoBody]
  /\ answer = [r \in Requests |-> NoAnswer]

-----------------------------------------------------------------------------

(* A synchronisation publishes a snapshot in which a product has changed. *)
Publish ==
  /\ \E p \in Products, offer \in Prices \cup {NotOrderable} :
       /\ offer # catalog[p]
       /\ catalog' = [catalog EXCEPT ![p] = offer]
  /\ UNCHANGED <<orders, uncommitted, pc, body, answer>>

Begin(r) ==
  /\ At(r, "unsent")
  /\ \E b \in Bodies : body' = [body EXCEPT ![r] = b]
  /\ Goto(r, "resolve")
  /\ UNCHANGED <<catalog, orders, uncommitted, answer>>

(* The cart is compared with the catalog before its checkout is looked up. *)
Resolve(r) ==
  /\ At(r, "resolve")
  /\ IF \A p \in DOMAIN body[r].cart : catalog[p] = body[r].cart[p]
     THEN Goto(r, "find") /\ UNCHANGED answer
     ELSE Give(r, Refused("CART_CHANGED"))
  /\ UNCHANGED <<catalog, orders, uncommitted, body>>

(* A stored order is returned to the request that repeats it, and to no     *)
(* other.                                                                  *)
ReplayOrConflict(r) ==
  \E row \in Found(r) :
    Give(r, IF Matches(row, r) THEN Placed(row.id, TRUE)
                               ELSE Refused("CHECKOUT_CONFLICT"))

(* The first statement of the transaction. *)
Find(r) ==
  /\ At(r, "find")
  /\ IF Found(r) # {}
     THEN ReplayOrConflict(r)
     ELSE Goto(r, "insert") /\ UNCHANGED answer
  /\ UNCHANGED <<catalog, orders, uncommitted, body>>

(* INSERT INTO orders: waits for the checkout id, then either fails with a  *)
(* unique violation, which rolls back, or goes through.  The order lines,   *)
(* the PENDING operation, the outbox row and the audit record follow in     *)
(* the same transaction and conflict with nobody.                          *)
Insert(r) ==
  /\ At(r, "insert")
  /\ \A row \in uncommitted : row.checkout # body[r].checkout
  /\ IF Found(r) # {}
     THEN Goto(r, "reload") /\ UNCHANGED uncommitted
     ELSE /\ uncommitted' = uncommitted \cup {Row(r)}
          /\ Goto(r, "commit")
  /\ UNCHANGED <<catalog, orders, body, answer>>

Commit(r) ==
  /\ At(r, "commit")
  /\ uncommitted' = uncommitted \ {Row(r)}
  /\ orders' = orders \cup {Row(r)}
  /\ Give(r, Placed(r, FALSE))
  /\ UNCHANGED <<catalog, body>>

(* checkoutAfterConflict, outside the failed transaction. *)
Reload(r) ==
  /\ At(r, "reload")
  /\ ReplayOrConflict(r)
  /\ UNCHANGED <<catalog, orders, uncommitted, body>>

(* Mutant: an error returns without the deferred Rollback. *)
Fail_NoRollback(r) ==
  /\ pc[r] \notin {"unsent", "done"}
  /\ Give(r, Refused("FAILED"))
  /\ UNCHANGED <<catalog, orders, uncommitted, body>>

(* A statement fails or the process dies: the transaction is rolled back,   *)
(* unless it was the answer to a COMMIT that got lost.                     *)
Fail(r) ==
  /\ pc[r] \notin {"unsent", "done"}
  /\ \/ UNCHANGED orders
     \/ At(r, "commit") /\ orders' = orders \cup {Row(r)}
  /\ uncommitted' = uncommitted \ {Row(r)}
  /\ Give(r, Refused("FAILED"))
  /\ UNCHANGED <<catalog, body>>

-----------------------------------------------------------------------------

Step(r) == Resolve(r) \/ Find(r) \/ Insert(r) \/ Commit(r) \/ Reload(r)

Next == Publish \/ \E r \in Requests : Begin(r) \/ Step(r) \/ Fail(r)

Spec == Init /\ [][Next]_vars

(* A request that can go on goes on. *)
FairSpec == Spec /\ \A r \in Requests : WF_vars(Step(r))

-----------------------------------------------------------------------------
(* Properties                                                              *)

Rows == [id : Requests, checkout : Checkouts, owner : Customers,
         fingerprint : Customers \X Carts]

(* Rows, requests and answers are well formed. *)
TypeOK ==
  /\ catalog \in [Products -> Prices \cup {NotOrderable}]
  /\ orders \subseteq Rows
  /\ uncommitted \subseteq Rows
  /\ pc \in [Requests -> {"unsent", "resolve", "find", "insert", "commit",
                          "reload", "done"}]
  /\ body \in [Requests -> Bodies \cup {NoBody}]
  /\ answer \in [Requests -> Answers \cup {NoAnswer}]

AnsweredWithOrder(r) == answer[r] # NoAnswer /\ answer[r].kind = "ORDER"

(* However many requests with one checkout id run at once, those that are   *)
(* answered with an order are answered with the same one, and exactly one   *)
(* order of the checkout is on record.  (contracts/README.md, checkout_id)  *)
OneOutcome ==
  /\ \A r, s \in Requests :
       AnsweredWithOrder(r) /\ AnsweredWithOrder(s)
         /\ body[r].checkout = body[s].checkout => answer[r].id = answer[s].id
  /\ \A x, y \in orders \cup uncommitted : x.checkout = y.checkout => x = y

(* An order is shown only to the customer who placed it, and only for the   *)
(* cart it was placed with, whoever wins the race for the checkout id.      *)
YoursOnly ==
  \A r \in Requests : AnsweredWithOrder(r) =>
    /\ body[answer[r].id].customer = body[r].customer
    /\ body[answer[r].id].cart = body[r].cart

(* The transactions implement the promise of IdempotentCheckout. *)
Promise == INSTANCE IdempotentCheckout
PromiseSpec == Promise!Spec

(* No request waits for ever for a checkout id that somebody else has       *)
(* inserted: the other transaction ends, and both are answered.            *)
EventuallyAnswered ==
  \A r \in Requests : body[r] # NoBody ~> answer[r] # NoAnswer

(* A request that repeats a placed order (same customer, same cart) is not  *)
(* refused for a changed cart: contracts/README.md says of a checkout id    *)
(* that reusing it returns the same logical order outcome.                 *)
ReuseReturnsOutcome ==
  [][\A r \in Requests :
       answer[r] = NoAnswer /\ answer'[r] = Refused("CART_CHANGED")
         => ~ \E row \in Found(r) : Matches(row, r)]_vars

=============================================================================
