---------------------------- MODULE Checkout_proofs ----------------------------
(***************************************************************************)
(* Proofs about Checkout for every number of requests, customers, checkout *)
(* ids and products.                                                       *)
(***************************************************************************)
EXTENDS Checkout, TLAPS

(* A request is under way exactly between its body and its answer. *)
Progress ==
  \A r \in Requests :
    /\ pc[r] = "unsent" <=> body[r] = NoBody
    /\ pc[r] = "done" <=> answer[r] # NoAnswer

(* A row belongs to the request that wrote it: open while the request is    *)
(* about to commit, on record when the request is over.                    *)
RowsHaveWriters ==
  /\ \A row \in uncommitted : pc[row.id] = "commit" /\ row = Row(row.id)
  /\ \A row \in orders : pc[row.id] = "done" /\ row = Row(row.id)
  /\ \A r \in Requests : pc[r] = "commit" => Row(r) \in uncommitted

(* The unique constraint, over open and committed rows. *)
UniqueCheckout ==
  \A x, y \in orders \cup uncommitted : x.checkout = y.checkout => x = y

(* An order in an answer is on record and was asked for. *)
AnswersOnRecord ==
  \A r \in Requests : AnsweredWithOrder(r) =>
    \E row \in orders : /\ row.id = answer[r].id
                        /\ row.checkout = body[r].checkout
                        /\ row.fingerprint = Fingerprint(body[r])

IInv ==
  TypeOK /\ Progress /\ RowsHaveWriters /\ UniqueCheckout /\ AnswersOnRecord

(* The fields of the row a request writes. *)
LEMMA RowFields ==
  ASSUME NEW r \in Requests, body[r] \in Bodies
  PROVE  /\ Row(r) \in Rows
         /\ Row(r).id = r
         /\ Row(r).checkout = body[r].checkout
         /\ Row(r).owner = body[r].customer
         /\ Row(r).fingerprint = Fingerprint(body[r])
BY DEF Row, Rows, Bodies, Fingerprint

LEMMA AnswerTypes ==
  /\ \A id \in Requests, b \in BOOLEAN :
       /\ Placed(id, b) \in Answers
       /\ Placed(id, b) # NoAnswer
       /\ Placed(id, b).kind = "ORDER"
       /\ Placed(id, b).id = id
  /\ \A k \in {"CART_CHANGED", "CHECKOUT_CONFLICT", "FAILED"} :
       /\ Refused(k) \in Answers
       /\ Refused(k) # NoAnswer
       /\ Refused(k).kind # "ORDER"
BY CheckoutAssumption DEF Placed, Refused, Answers

LEMMA InitIInv == Init => IInv
<1> SUFFICES ASSUME Init PROVE IInv
  OBVIOUS
<1>1. TypeOK
  BY DEF Init, TypeOK
<1>2. Progress
  BY DEF Init, Progress
<1>3. RowsHaveWriters /\ UniqueCheckout
  BY DEF Init, RowsHaveWriters, UniqueCheckout
<1>4. AnswersOnRecord
  BY DEF Init, AnswersOnRecord, AnsweredWithOrder
<1>5. QED
  BY <1>1, <1>2, <1>3, <1>4 DEF IInv

(* A step of r that writes no row and gives no order: it changes r's place,  *)
(* and its answer if it ends there.                                        *)
Quiet(r) ==
  /\ pc[r] \notin {"unsent", "done", "commit"}
  /\ UNCHANGED <<orders, uncommitted, body>>
  /\ \/ /\ \E step \in {"find", "insert", "reload"} : Goto(r, step)
        /\ UNCHANGED answer
     \/ \E kind \in {"CART_CHANGED", "CHECKOUT_CONFLICT", "FAILED"} :
          Give(r, Refused(kind))

LEMMA QuietKeeps ==
  ASSUME IInv, NEW r \in Requests, Quiet(r), catalog' \in [Products -> Prices \cup {NotOrderable}]
  PROVE  IInv'
<1> USE DEF IInv
<1>1. TypeOK'
  BY AnswerTypes DEF TypeOK, Quiet, Goto, Give
<1>2. Progress'
  <2>1. CASE \E step \in {"find", "insert", "reload"} : Goto(r, step) /\ UNCHANGED answer
    BY <2>1 DEF TypeOK, Progress, Quiet, Goto
  <2>2. CASE \E kind \in {"CART_CHANGED", "CHECKOUT_CONFLICT", "FAILED"} :
               Give(r, Refused(kind))
    BY <2>2, AnswerTypes DEF TypeOK, Progress, Quiet, Goto, Give
  <2>3. QED
    BY <2>1, <2>2 DEF Quiet
<1>3. \A q \in Requests : /\ pc'[q] = "commit" <=> pc[q] = "commit"
                          /\ pc[q] = "done" => pc'[q] = "done"
  BY DEF TypeOK, Quiet, Goto, Give
<1>4. RowsHaveWriters'
  BY <1>3 DEF RowsHaveWriters, Quiet, TypeOK, Rows, Row
<1>5. UniqueCheckout'
  BY DEF UniqueCheckout, Quiet
<1>6. \A q \in Requests : AnsweredWithOrder(q)' => AnsweredWithOrder(q) /\ answer'[q] = answer[q]
  BY AnswerTypes DEF TypeOK, Quiet, Give, AnsweredWithOrder
<1>7. AnswersOnRecord'
  BY <1>6 DEF AnswersOnRecord, Quiet
<1>8. QED
  BY <1>1, <1>2, <1>4, <1>5, <1>7

(* r is answered with the matching order on record. *)
Replays(r) ==
  /\ pc[r] \notin {"unsent", "done", "commit"}
  /\ UNCHANGED <<orders, uncommitted, body>>
  /\ \E row \in Found(r) : Matches(row, r) /\ Give(r, Placed(row.id, TRUE))

LEMMA ReplaysKeeps ==
  ASSUME IInv, NEW r \in Requests, Replays(r), catalog' \in [Products -> Prices \cup {NotOrderable}]
  PROVE  IInv'
<1> USE DEF IInv
<1>1. PICK row \in Found(r) : Matches(row, r) /\ Give(r, Placed(row.id, TRUE))
  BY DEF Replays
<1>2. row \in orders /\ row.id \in Requests /\ row.checkout = body[r].checkout
  BY <1>1 DEF Found, TypeOK, Rows
<1>3. TypeOK'
  BY <1>1, <1>2, AnswerTypes DEF TypeOK, Replays, Goto, Give
<1>4. Progress'
  BY <1>1, <1>2, AnswerTypes DEF TypeOK, Progress, Replays, Goto, Give
<1>5. \A q \in Requests : /\ pc'[q] = "commit" <=> pc[q] = "commit"
                          /\ pc[q] = "done" => pc'[q] = "done"
  BY <1>1 DEF TypeOK, Replays, Goto, Give
<1>6. RowsHaveWriters'
  BY <1>5 DEF RowsHaveWriters, Replays, TypeOK, Rows, Row
<1>7. UniqueCheckout'
  BY DEF UniqueCheckout, Replays
<1>8. AnswersOnRecord'
  <2> SUFFICES ASSUME NEW q \in Requests, AnsweredWithOrder(q)'
               PROVE  \E x \in orders : /\ x.id = answer'[q].id
                                        /\ x.checkout = body[q].checkout
                                        /\ x.fingerprint = Fingerprint(body[q])
    BY DEF AnswersOnRecord, Replays
  <2>1. CASE q = r
    BY <1>1, <1>2, <2>1, AnswerTypes DEF TypeOK, Give, Matches
  <2>2. CASE q # r
    BY <1>1, <2>2 DEF TypeOK, Give, AnsweredWithOrder, AnswersOnRecord
  <2>3. QED
    BY <2>1, <2>2
<1>9. QED
  BY <1>3, <1>4, <1>6, <1>7, <1>8

(* r's row gets on record, with whatever answer. *)
Publishes(r) ==
  /\ pc[r] = "commit"
  /\ uncommitted' = uncommitted \ {Row(r)}
  /\ orders' = orders \cup {Row(r)}
  /\ UNCHANGED body
  /\ Give(r, Placed(r, FALSE)) \/ Give(r, Refused("FAILED"))

LEMMA PublishesKeeps ==
  ASSUME IInv, NEW r \in Requests, Publishes(r), catalog' \in [Products -> Prices \cup {NotOrderable}]
  PROVE  IInv'
<1> USE DEF IInv
<1>1. body[r] \in Bodies
  BY DEF Publishes, Progress, TypeOK
<1>2. Row(r) \in uncommitted /\ Row(r) \in Rows /\ Row(r).id = r
  BY <1>1, RowFields DEF Publishes, RowsHaveWriters
<1>3. TypeOK'
  BY <1>2, AnswerTypes DEF TypeOK, Publishes, Goto, Give
<1>4. Progress'
  <2>1. PICK a \in {Placed(r, FALSE), Refused("FAILED")} : Give(r, a)
    BY DEF Publishes
  <2>2. a # NoAnswer
    BY AnswerTypes
  <2>3. QED
    BY <2>1, <2>2 DEF TypeOK, Progress, Publishes, Goto, Give
<1>5. \A q \in Requests : q # r => pc'[q] = pc[q] /\ answer'[q] = answer[q]
  BY DEF TypeOK, Publishes, Goto, Give
<1>6. pc'[r] = "done"
  BY DEF TypeOK, Publishes, Goto, Give
<1>7. \A q \in Requests : Row(q)' = Row(q)
  BY DEF Row, Publishes
<1>8. RowsHaveWriters'
  <2>1. ASSUME NEW row \in uncommitted'
        PROVE  pc'[row.id] = "commit" /\ row = Row(row.id)'
    <3>1. row \in uncommitted /\ row # Row(r) /\ row.id \in Requests
      BY <2>1 DEF Publishes, TypeOK, Rows
    <3>2. row = Row(row.id) /\ pc[row.id] = "commit" /\ row.id # r
      BY <3>1 DEF RowsHaveWriters
    <3>3. QED
      BY <3>1, <3>2, <1>5, <1>7
  <2>2. ASSUME NEW row \in orders'
        PROVE  pc'[row.id] = "done" /\ row = Row(row.id)'
    <3>1. CASE row = Row(r)
      BY <3>1, <1>2, <1>6, <1>7
    <3>2. CASE row \in orders
      <4>1. row.id \in Requests /\ row = Row(row.id) /\ pc[row.id] = "done"
        BY <3>2 DEF TypeOK, Rows, RowsHaveWriters
      <4>2. QED
        BY <4>1, <1>5, <1>6, <1>7
    <3>3. QED
      BY <3>1, <3>2, <2>2 DEF Publishes
  <2>3. ASSUME NEW q \in Requests, pc'[q] = "commit"
        PROVE  Row(q)' \in uncommitted'
    <3>1. q # r /\ pc[q] = "commit"
      BY <2>3, <1>5, <1>6
    <3>2. Row(q) \in uncommitted /\ Row(q).id = q
      <4>1. body[q] \in Bodies
        BY <3>1 DEF Progress, TypeOK
      <4>2. QED
        BY <3>1, <4>1, RowFields DEF RowsHaveWriters
    <3>3. QED
      BY <3>1, <3>2, <1>2, <1>7 DEF Publishes
  <2>4. QED
    BY <2>1, <2>2, <2>3 DEF RowsHaveWriters
<1>9. UniqueCheckout'
  BY <1>2 DEF UniqueCheckout, Publishes
<1>10. AnswersOnRecord'
  <2> SUFFICES ASSUME NEW q \in Requests, AnsweredWithOrder(q)'
               PROVE  \E x \in orders' : /\ x.id = answer'[q].id
                                         /\ x.checkout = body[q].checkout
                                         /\ x.fingerprint = Fingerprint(body[q])
    BY DEF AnswersOnRecord, Publishes
  <2>1. CASE q = r
    <3>1. answer'[r] = Placed(r, FALSE)
      BY <2>1, AnswerTypes DEF TypeOK, Publishes, Give, AnsweredWithOrder
    <3>2. answer'[q].id = r
      BY <2>1, <3>1, AnswerTypes
    <3>3. Row(r) \in orders'
      BY DEF Publishes
    <3>4. QED
      BY <2>1, <3>2, <3>3, <1>1, RowFields
  <2>2. CASE q # r
    BY <2>2, <1>5 DEF AnsweredWithOrder, AnswersOnRecord, Publishes
  <2>3. QED
    BY <2>1, <2>2
<1>11. QED
  BY <1>3, <1>4, <1>8, <1>9, <1>10

LEMMA InsertKeeps ==
  ASSUME IInv, NEW r \in Requests, Insert(r), Found(r) = {}
  PROVE  IInv'
<1> USE DEF IInv
<1>1. body[r] \in Bodies
  BY DEF Insert, At, Progress, TypeOK
<1>2. Row(r) \in Rows /\ Row(r).id = r /\ Row(r).checkout = body[r].checkout
  BY <1>1, RowFields
<1>3. /\ pc[r] = "insert" /\ pc' = [pc EXCEPT ![r] = "commit"]
      /\ uncommitted' = uncommitted \cup {Row(r)}
      /\ UNCHANGED <<catalog, orders, body, answer>>
  BY DEF Insert, At, Goto
<1>4. TypeOK'
  BY <1>2, <1>3 DEF TypeOK
<1>5. Progress'
  BY <1>3 DEF TypeOK, Progress
<1>6. \A q \in Requests : Row(q)' = Row(q) /\ (q # r => pc'[q] = pc[q])
  BY <1>3 DEF TypeOK, Row
<1>7. RowsHaveWriters'
  <2>1. pc'[r] = "commit"
    BY <1>3 DEF TypeOK
  <2>2. \A row \in orders \cup uncommitted : row.id \in Requests
    BY DEF TypeOK, Rows
  <2>3. \A row \in uncommitted' : pc'[row.id] = "commit" /\ row = Row(row.id)'
    BY <1>2, <1>3, <1>6, <2>1, <2>2 DEF RowsHaveWriters
  <2>4. \A row \in orders' : pc'[row.id] = "done" /\ row = Row(row.id)'
    BY <1>3, <1>6, <2>2 DEF RowsHaveWriters
  <2>5. \A q \in Requests : pc'[q] = "commit" => Row(q)' \in uncommitted'
    BY <1>3, <1>6 DEF RowsHaveWriters
  <2>6. QED
    BY <2>3, <2>4, <2>5 DEF RowsHaveWriters
<1>8. \A row \in orders \cup uncommitted : row.checkout # Row(r).checkout
  BY <1>2 DEF Insert, Found
<1>9. UniqueCheckout'
  BY <1>3, <1>8 DEF UniqueCheckout
<1>10. AnswersOnRecord'
  BY <1>3 DEF AnswersOnRecord, AnsweredWithOrder
<1>11. QED
  BY <1>4, <1>5, <1>7, <1>9, <1>10

(* A request that fails drops its row, if it has one. *)
LEMMA FailKeeps ==
  ASSUME IInv, NEW r \in Requests, Fail(r), UNCHANGED orders
  PROVE  IInv'
<1> USE DEF IInv
<1>1. body[r] \in Bodies
  BY DEF Fail, Progress, TypeOK
<1>2. Row(r).id = r
  BY <1>1, RowFields
<1>3. /\ pc' = [pc EXCEPT ![r] = "done"]
      /\ answer' = [answer EXCEPT ![r] = Refused("FAILED")]
      /\ uncommitted' = uncommitted \ {Row(r)}
      /\ UNCHANGED <<catalog, orders, body>>
      /\ pc[r] \notin {"unsent", "done"}
  BY DEF Fail, Give, Goto
<1>4. TypeOK'
  BY <1>3, AnswerTypes DEF TypeOK
<1>5. Progress'
  BY <1>3, AnswerTypes DEF TypeOK, Progress
<1>6. \A q \in Requests : Row(q)' = Row(q) /\ (q # r => pc'[q] = pc[q])
  BY <1>3 DEF TypeOK, Row
<1>7. RowsHaveWriters'
  <2>1. pc'[r] = "done"
    BY <1>3 DEF TypeOK
  <2>2. \A row \in orders \cup uncommitted : row.id \in Requests
    BY DEF TypeOK, Rows
  <2>3. \A row \in uncommitted' : row.id # r
    BY <1>3, <2>2 DEF RowsHaveWriters
  <2>4. \A row \in uncommitted' : pc'[row.id] = "commit" /\ row = Row(row.id)'
    BY <1>3, <1>6, <2>2, <2>3 DEF RowsHaveWriters
  <2>5. \A row \in orders' : pc'[row.id] = "done" /\ row = Row(row.id)'
    BY <1>3, <1>6, <2>1, <2>2 DEF RowsHaveWriters
  <2>6. ASSUME NEW q \in Requests, pc'[q] = "commit"
        PROVE  Row(q)' \in uncommitted'
    <3>1. q # r /\ pc[q] = "commit"
      BY <2>1, <2>6, <1>6
    <3>2. Row(q).id = q
      BY <3>1, RowFields DEF Progress, TypeOK
    <3>3. QED
      BY <3>1, <3>2, <1>2, <1>3, <1>6 DEF RowsHaveWriters
  <2>7. QED
    BY <2>4, <2>5, <2>6 DEF RowsHaveWriters
<1>8. UniqueCheckout'
  BY <1>3 DEF UniqueCheckout
<1>9. AnswersOnRecord'
  BY <1>3, AnswerTypes DEF AnswersOnRecord, AnsweredWithOrder, TypeOK
<1>10. QED
  BY <1>4, <1>5, <1>7, <1>8, <1>9

LEMMA BeginKeeps ==
  ASSUME IInv, NEW r \in Requests, Begin(r)
  PROVE  IInv'
<1> USE DEF IInv
<1>1. PICK b \in Bodies : body' = [body EXCEPT ![r] = b]
  BY DEF Begin
<1>2. /\ pc[r] = "unsent" /\ pc' = [pc EXCEPT ![r] = "resolve"]
      /\ UNCHANGED <<catalog, orders, uncommitted, answer>>
  BY DEF Begin, At, Goto
<1>3. TypeOK'
  BY <1>1, <1>2 DEF TypeOK
<1>4. Progress'
  BY <1>1, <1>2, CheckoutAssumption DEF TypeOK, Progress
<1>5. \A q \in Requests : q # r => Row(q)' = Row(q) /\ pc'[q] = pc[q] /\ body'[q] = body[q]
  BY <1>1, <1>2 DEF TypeOK, Row
<1>6. pc'[r] = "resolve" /\ answer[r] = NoAnswer
  BY <1>2 DEF TypeOK, Progress
<1>7. RowsHaveWriters'
  <2>1. \A row \in orders \cup uncommitted : row.id \in Requests /\ row.id # r
    BY <1>2 DEF TypeOK, Rows, RowsHaveWriters
  <2>2. \A q \in Requests : pc'[q] = "commit" => Row(q)' \in uncommitted'
    BY <1>2, <1>5, <1>6 DEF RowsHaveWriters
  <2>3. QED
    BY <1>2, <1>5, <2>1, <2>2 DEF RowsHaveWriters
<1>8. UniqueCheckout'
  BY <1>2 DEF UniqueCheckout
<1>9. AnswersOnRecord'
  BY <1>2, <1>5, <1>6 DEF AnswersOnRecord, AnsweredWithOrder
<1>10. QED
  BY <1>3, <1>4, <1>7, <1>8, <1>9

(* What ReplayOrConflict does is one of the two kinds of steps above. *)
LEMMA ReplayOrConflictCases ==
  ASSUME IInv, NEW r \in Requests, ReplayOrConflict(r),
         pc[r] \in {"find", "reload"}, UNCHANGED <<orders, uncommitted, body>>
  PROVE  Quiet(r) \/ Replays(r)
BY DEF ReplayOrConflict, Quiet, Replays

(* Every step is one of a few kinds. *)
LEMMA StepKinds ==
  ASSUME IInv, NEW r \in Requests, Step(r) \/ Fail(r)
  PROVE  /\ UNCHANGED catalog
         /\ \/ Quiet(r) \/ Replays(r) \/ Publishes(r)
            \/ Insert(r) /\ Found(r) = {}
            \/ Fail(r) /\ UNCHANGED orders
<1>1. CASE Resolve(r)
  BY <1>1 DEF Resolve, At, Quiet
<1>2. CASE Find(r)
  <2>1. CASE Found(r) # {}
    BY <1>2, <2>1, ReplayOrConflictCases DEF Find, At
  <2>2. CASE Found(r) = {}
    BY <1>2, <2>2 DEF Find, At, Quiet
  <2>3. QED
    BY <2>1, <2>2, <1>2 DEF Find
<1>3. CASE Insert(r)
  BY <1>3 DEF Insert, At, Quiet
<1>4. CASE Commit(r)
  BY <1>4 DEF Commit, At, Publishes
<1>5. CASE Reload(r)
  BY <1>5, ReplayOrConflictCases DEF Reload, At
<1>6. CASE Fail(r)
  BY <1>6 DEF Fail, At, Publishes
<1>7. QED
  BY <1>1, <1>2, <1>3, <1>4, <1>5, <1>6 DEF Step

LEMMA NextIInv == IInv /\ [Next]_vars => IInv'
<1> SUFFICES ASSUME IInv, [Next]_vars PROVE IInv'
  OBVIOUS
<1>1. CASE Publish
  <2>1. catalog' \in [Products -> Prices \cup {NotOrderable}]
    BY <1>1 DEF Publish, IInv, TypeOK
  <2>2. UNCHANGED <<orders, uncommitted, pc, body, answer>>
    BY <1>1 DEF Publish
  <2>3. QED
    BY <2>1, <2>2 DEF IInv, TypeOK, Progress, RowsHaveWriters, UniqueCheckout,
                      AnswersOnRecord, AnsweredWithOrder, Row
<1>2. ASSUME NEW r \in Requests, Begin(r) PROVE IInv'
  BY <1>2, BeginKeeps
<1>3. ASSUME NEW r \in Requests, Step(r) \/ Fail(r) PROVE IInv'
  <2>1. catalog' \in [Products -> Prices \cup {NotOrderable}]
    BY <1>3, StepKinds DEF IInv, TypeOK
  <2>2. QED
    BY <1>3, <2>1, StepKinds, QuietKeeps, ReplaysKeeps, PublishesKeeps,
       InsertKeeps, FailKeeps
<1>4. CASE UNCHANGED vars
  BY <1>4 DEF vars, IInv, TypeOK, Progress, RowsHaveWriters, UniqueCheckout,
              AnswersOnRecord, AnsweredWithOrder, Row
<1>5. QED
  BY <1>1, <1>2, <1>3, <1>4 DEF Next

(* The inductive invariant of Place Order holds in every run. *)
THEOREM CheckoutInvariance == Spec => []IInv
<1>1. QED
  BY InitIInv, NextIInv, PTL DEF Spec

(* Every variable of the checkout keeps its type. *)
THEOREM CheckoutTypeCorrect == Spec => []TypeOK
<1>1. IInv => TypeOK
  BY DEF IInv
<1>2. QED
  BY <1>1, CheckoutInvariance, PTL

(* A checkout id never has two orders, and requests answered with an order  *)
(* are answered with the same one.                                         *)
THEOREM OneOrderPerCheckout == Spec => []OneOutcome
<1>1. IInv => OneOutcome
  <2> SUFFICES ASSUME IInv PROVE OneOutcome
    OBVIOUS
  <2>1. ASSUME NEW r \in Requests, NEW s \in Requests, AnsweredWithOrder(r),
               AnsweredWithOrder(s), body[r].checkout = body[s].checkout
        PROVE  answer[r].id = answer[s].id
    BY <2>1 DEF IInv, AnswersOnRecord, UniqueCheckout
  <2>2. QED
    BY <2>1 DEF OneOutcome, IInv, UniqueCheckout
<1>2. QED
  BY <1>1, CheckoutInvariance, PTL

(* An order is shown only for the customer and the cart it was placed with. *)
THEOREM OrdersAreYours == Spec => []YoursOnly
<1>1. IInv => YoursOnly
  <2> SUFFICES ASSUME IInv, NEW r \in Requests, AnsweredWithOrder(r)
               PROVE  /\ body[answer[r].id].customer = body[r].customer
                      /\ body[answer[r].id].cart = body[r].cart
    BY DEF YoursOnly
  <2>1. PICK row \in orders : /\ row.id = answer[r].id
                              /\ row.fingerprint = Fingerprint(body[r])
    BY DEF IInv, AnswersOnRecord
  <2>2. row.id \in Requests /\ row = Row(row.id) /\ pc[row.id] = "done"
    BY DEF IInv, TypeOK, Rows, RowsHaveWriters
  <2>3. body[row.id] \in Bodies
    BY <2>2 DEF IInv, TypeOK, Progress
  <2>4. Fingerprint(body[row.id]) = Fingerprint(body[r])
    BY <2>1, <2>2, <2>3, RowFields
  <2>5. QED
    BY <2>1, <2>4 DEF Fingerprint
<1>2. QED
  BY <1>1, CheckoutInvariance, PTL

-----------------------------------------------------------------------------
(* The refinement of IdempotentCheckout.                                   *)

LEMMA PromiseInit == Init => Promise!Init
BY DEF Init, Promise!Init

LEMMA PromiseStep == IInv /\ [Next]_vars => [Promise!Next]_(Promise!vars)
<1> SUFFICES ASSUME IInv, [Next]_vars PROVE [Promise!Next]_(Promise!vars)
  OBVIOUS
<1>1. CASE Publish
  BY <1>1 DEF Publish, Promise!vars
<1>2. ASSUME NEW r \in Requests, Begin(r) PROVE Promise!Begin(r)
  BY <1>2 DEF Begin, At, IInv, Progress, Promise!Begin
<1>3. ASSUME NEW r \in Requests, Step(r) \/ Fail(r)
      PROVE  \/ Promise!Place(r) \/ Promise!Replay(r) \/ Promise!Conflict(r)
             \/ Promise!Refuse(r) \/ UNCHANGED Promise!vars
  <2>1. CASE UNCHANGED <<orders, body, answer>>
    BY <2>1 DEF Promise!vars
  <2>2. CASE ~UNCHANGED <<orders, body, answer>>
    <3>1. pc[r] \notin {"unsent", "done"} /\ UNCHANGED body
      BY <1>3 DEF Step, Resolve, Find, Insert, Commit, Reload, Fail, At
    <3>2. Promise!Open(r)
      BY <3>1 DEF IInv, Progress, Promise!Open
    <3>3. CASE Resolve(r)
      BY <3>3, <2>2, <3>2 DEF Resolve, Give, Refused, Promise!Refuse,
                              Promise!Give, Promise!Refused
    <3>4. CASE ReplayOrConflict(r) /\ UNCHANGED <<orders, body>>
      <4>1. PICK row \in Found(r) :
              Give(r, IF Matches(row, r) THEN Placed(row.id, TRUE)
                                         ELSE Refused("CHECKOUT_CONFLICT"))
        BY <3>4 DEF ReplayOrConflict
      <4>2. row \in orders /\ row.checkout = body[r].checkout
        BY <4>1 DEF Found
      <4>3. CASE Matches(row, r)
        BY <4>1, <4>2, <4>3, <3>2, <3>4
        DEF Matches, Give, Placed, Fingerprint, Promise!Replay, Promise!Give,
            Promise!Placed, Promise!Fingerprint
      <4>4. CASE ~Matches(row, r)
        <5>1. row.fingerprint # Fingerprint(body[r])
          <6>1. row.id \in Requests /\ row = Row(row.id) /\ pc[row.id] = "done"
            BY <4>2 DEF IInv, TypeOK, Rows, RowsHaveWriters
          <6>2. body[row.id] \in Bodies
            BY <6>1 DEF IInv, TypeOK, Progress
          <6>3. row.owner = body[row.id].customer /\ row.fingerprint = Fingerprint(body[row.id])
            BY <6>1, <6>2, RowFields
          <6>4. QED
            BY <4>4, <6>3 DEF Matches, Fingerprint
        <5>2. QED
          BY <4>1, <4>2, <4>4, <5>1, <3>2, <3>4
          DEF Give, Refused, Fingerprint, Promise!Conflict, Promise!Give,
              Promise!Refused, Promise!Fingerprint
      <4>5. QED
        BY <4>3, <4>4
    <3>5. CASE Commit(r) \/ (Fail(r) /\ ~UNCHANGED orders)
      <4>1. /\ pc[r] = "commit" /\ orders' = orders \cup {Row(r)} /\ UNCHANGED body
            /\ Give(r, Placed(r, FALSE)) \/ Give(r, Refused("FAILED"))
        BY <3>5 DEF Commit, Fail, At
      <4>2. body[r] \in Bodies
        BY <3>1 DEF IInv, TypeOK, Progress
      <4>3. \A row \in orders : row.checkout # body[r].checkout
        <5> SUFFICES ASSUME NEW row \in orders, row.checkout = body[r].checkout
                     PROVE  FALSE
          OBVIOUS
        <5>1. Row(r) \in uncommitted /\ Row(r).checkout = body[r].checkout /\ Row(r).id = r
          BY <4>1, <4>2, RowFields DEF IInv, RowsHaveWriters
        <5>2. row = Row(r)
          BY <5>1 DEF IInv, UniqueCheckout
        <5>3. QED
          BY <4>1, <5>1, <5>2 DEF IInv, RowsHaveWriters
      <4>4. QED
        BY <4>1, <4>3, <3>2
        DEF Give, Placed, Refused, Row, Fingerprint, Promise!Place, Promise!Give,
            Promise!Placed, Promise!Refused, Promise!Row, Promise!Fingerprint
    <3>6. CASE Fail(r) /\ UNCHANGED orders
      BY <3>6, <3>2 DEF Fail, Give, Refused, Promise!Refuse, Promise!Give, Promise!Refused
    <3>7. QED
      BY <1>3, <2>2, <3>3, <3>4, <3>5, <3>6 DEF Step, Find, Insert, Reload
  <2>3. QED
    BY <2>1, <2>2
<1>4. CASE UNCHANGED vars
  BY <1>4 DEF vars, Promise!vars
<1>5. QED
  BY <1>1, <1>2, <1>3, <1>4 DEF Next, Promise!Next

(* Place Order implements the promise of one order per checkout id. *)
THEOREM ImplementsPromise == Spec => PromiseSpec
<1>1. QED
  BY PromiseInit, PromiseStep, CheckoutInvariance, PTL
  DEF Spec, PromiseSpec, Promise!Spec

=============================================================================
