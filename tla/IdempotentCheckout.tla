--------------------------- MODULE IdempotentCheckout ---------------------------
(***************************************************************************)
(* What Place Order promises about a checkout id, without transactions:    *)
(* the first request that gets that far creates the one order of the id;   *)
(* from then on a request with the same customer and cart is answered with *)
(* that order and any other request with a conflict.                       *)
(***************************************************************************)
CONSTANTS Requests, Bodies, NoBody, NoAnswer

VARIABLES
  orders,   \* committed orders: id, checkout, owner, fingerprint
  body,     \* what each request asks for
  answer    \* what each request was answered

vars == <<orders, body, answer>>

Fingerprint(b) == <<b.customer, b.cart>>

Row(r) == [id |-> r, checkout |-> body[r].checkout, owner |-> body[r].customer,
           fingerprint |-> Fingerprint(body[r])]

Placed(id, replayed) == [kind |-> "ORDER", id |-> id, replayed |-> replayed]

Refused(kind) == [kind |-> kind]

Open(r) == body[r] # NoBody /\ answer[r] = NoAnswer

Give(r, a) == answer' = [answer EXCEPT ![r] = a]

Init ==
  /\ orders = {}
  /\ body = [r \in Requests |-> NoBody]
  /\ answer = [r \in Requests |-> NoAnswer]

Begin(r) ==
  /\ body[r] = NoBody
  /\ \E b \in Bodies : body' = [body EXCEPT ![r] = b]
  /\ UNCHANGED <<orders, answer>>

(* The order is placed; its request may still be answered with a failure. *)
Place(r) ==
  /\ Open(r)
  /\ \A row \in orders : row.checkout # body[r].checkout
  /\ orders' = orders \cup {Row(r)}
  /\ Give(r, Placed(r, FALSE)) \/ Give(r, Refused("FAILED"))
  /\ UNCHANGED body

Replay(r) ==
  /\ Open(r)
  /\ \E row \in orders :
       /\ row.checkout = body[r].checkout
       /\ row.fingerprint = Fingerprint(body[r])
       /\ Give(r, Placed(row.id, TRUE))
  /\ UNCHANGED <<orders, body>>

Conflict(r) ==
  /\ Open(r)
  /\ \E row \in orders :
       /\ row.checkout = body[r].checkout
       /\ row.fingerprint # Fingerprint(body[r])
  /\ Give(r, Refused("CHECKOUT_CONFLICT"))
  /\ UNCHANGED <<orders, body>>

(* The cart is out of date, or something broke. *)
Refuse(r) ==
  /\ Open(r)
  /\ Give(r, Refused("CART_CHANGED")) \/ Give(r, Refused("FAILED"))
  /\ UNCHANGED <<orders, body>>

Next ==
  \E r \in Requests : Begin(r) \/ Place(r) \/ Replay(r) \/ Conflict(r) \/ Refuse(r)

Spec == Init /\ [][Next]_vars

=============================================================================
