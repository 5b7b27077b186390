---------------------------- MODULE InventoryOutbox ----------------------------
(***************************************************************************)
(* The life of an order between Place Order and the inventory decision:    *)
(* the Ordering tables orders, inventory_operations, ordering_outbox and   *)
(* fulfillments (adapters/postgres/store.go) and the outbox workers that   *)
(* drive them (application/worker.go), one in each running API process.    *)
(*                                                                         *)
(* Every order has exactly one inventory operation and one outbox event    *)
(* (both tables have order_id and operation_id UNIQUE), so the three       *)
(* tables are functions of the order.  A database transaction is a single  *)
(* action; between the transactions of a worker everything else may        *)
(* happen, the passing of time included.                                   *)
(*                                                                         *)
(* Time is kept relative to the present.  For a row, lock_age is the time  *)
(* since locked_at and due_in the time until next_attempt_at (negative     *)
(* when overdue); for a worker, elapsed is the time since it read the      *)
(* `now' it uses for the whole batch.  A comparison of two instants in the *)
(* code is the same comparison of their distances from the present.  Both  *)
(* row distances saturate where no comparison can tell larger ones apart.  *)
(***************************************************************************)
EXTENDS Integers, FiniteSets

CONSTANTS
  Orders,        \* orders that may be placed
  Workers,       \* API processes, one outbox worker in each
  Tokens,        \* claim tokens (gen_random_uuid)
  NoToken,       \* claim_token IS NULL
  ResultEvents,  \* event ids the adapter gives its results
  NoEvent,       \* result_event_id IS NULL
  Adapters,      \* inventory adapters: one behind HTTP, or a fake per process
  AdapterOf,     \* the adapter each process talks to
  Fake,          \* INVENTORY_ADAPTER_MODE=FAKE: results live in the process
  BatchSize,     \* WorkerConfig.BatchSize
  Lease,         \* WorkerConfig.LeaseTimeout
  RetryDelay,    \* retryDelay: attempt -> delay (module RetryBackoff)
  MaxAttempt,    \* bound: attempts beyond it have the delay of MaxAttempt
  MaxBatchTime,  \* bound: longest time from reading `now' to the batch's end
  MaxCrashes     \* bound: number of process crashes

ASSUME OutboxAssumption ==
  /\ NoToken \notin Tokens
  /\ NoEvent \notin ResultEvents
  /\ AdapterOf \in [Workers -> Adapters]
  /\ Fake \in BOOLEAN
  /\ \A v, w \in Workers : AdapterOf[v] = AdapterOf[w] <=> (v = w \/ ~Fake)
  /\ BatchSize \in Nat \ {0}
  /\ Lease \in Nat \ {0}
  /\ MaxAttempt \in Nat \ {0}
  /\ MaxBatchTime \in Nat
  /\ MaxCrashes \in Nat
  /\ RetryDelay \in [0..MaxAttempt -> Nat]

VARIABLES
  order,          \* orders.status, "NONE" while there is no row
  operation,      \* inventory_operations: result_status, result_event_id
  fulfillment,    \* TRUE once the fulfillments row exists
  published,      \* ordering_outbox.published_at IS NOT NULL
  claim_token,    \* ordering_outbox.claim_token
  lock_age,       \* now - ordering_outbox.locked_at
  due_in,         \* ordering_outbox.next_attempt_at - now
  attempt_count,  \* ordering_outbox.attempt_count
  receipt,        \* the result an inventory adapter keeps for the operation
  deducted,       \* how often the adapter has taken an order from the stock
  inFlight,       \* <<adapter, order>>: a request nobody waits for any more
  pc,             \* what a worker is doing
  held,           \* the claims in a worker's batch: order -> claim token
  reply,          \* the adapter's answer a worker is about to apply
  elapsed,        \* time since a worker read its clock
  crashes

orderVars  == <<order, operation, fulfillment>>
outboxVars == <<published, claim_token, lock_age, due_in, attempt_count>>
adapterVars == <<receipt, deducted, inFlight>>
workerVars == <<pc, held, reply, elapsed>>
vars == <<orderVars, outboxVars, adapterVars, workerVars, crashes>>

-----------------------------------------------------------------------------

FinalStatus == {"COMMITTED", "ITEMS_UNAVAILABLE"}

FinalResults == [status: FinalStatus, event: ResultEvents]

Pending == [status |-> "PENDING", event |-> NoEvent]

Smaller(a, b) == IF a <= b THEN a ELSE b

Larger(a, b) == IF a >= b THEN a ELSE b

AgeCap == MaxBatchTime + Lease

(* The worker has read its clock and not yet finished the batch. *)
Busy(w) == pc[w] \in {"claiming", "calling"}

Holds(w, o) == held[w][o] # NoToken

(* WHERE event_id = .. AND claim_token = .. AND published_at IS NULL *)
OwnsClaim(w, o) == ~published[o] /\ claim_token[o] = held[w][o]

NothingHeld == [o \in Orders |-> NoToken]

NoReply == [o \in Orders |-> Pending]

Init ==
  /\ order = [o \in Orders |-> "NONE"]
  /\ operation = [o \in Orders |-> Pending]
  /\ fulfillment = [o \in Orders |-> FALSE]
  /\ published = [o \in Orders |-> FALSE]
  /\ claim_token = [o \in Orders |-> NoToken]
  /\ lock_age = [o \in Orders |-> 0]
  /\ due_in = [o \in Orders |-> 0]
  /\ attempt_count = [o \in Orders |-> 0]
  /\ receipt = [a \in Adapters |-> NoReply]
  /\ deducted = [o \in Orders |-> 0]
  /\ inFlight = {}
  /\ pc = [w \in Workers |-> "idle"]
  /\ held = [w \in Workers |-> NothingHeld]
  /\ reply = [w \in Workers |-> NoReply]
  /\ elapsed = [w \in Workers |-> 0]
  /\ crashes = 0

-----------------------------------------------------------------------------
(* Place Order: the order, its PENDING operation and its outbox row, due at *)
(* once, become visible together when the transaction commits.             *)

PlaceOrder(o) ==
  /\ order[o] = "NONE"
  /\ order' = [order EXCEPT ![o] = "SUBMITTED"]
  /\ due_in' = [due_in EXCEPT ![o] = 0]
  /\ UNCHANGED <<operation, fulfillment, published, claim_token, lock_age,
                 attempt_count, adapterVars, workerVars, crashes>>

-----------------------------------------------------------------------------
(* A worker's batch.                                                       *)

(* ProcessOnce reads the clock once, before it claims. *)
Poll(w) ==
  /\ pc[w] = "idle"
  /\ pc' = [pc EXCEPT ![w] = "claiming"]
  /\ UNCHANGED <<orderVars, outboxVars, adapterVars, held, reply, elapsed,
                 crashes>>

(* Mutant: a row once locked is never a candidate again. *)
Claimable_LeaseNeverExpires(w) ==
  {o \in Orders :
     /\ order[o] # "NONE"
     /\ ~published[o]
     /\ due_in[o] + elapsed[w] <= 0
     /\ claim_token[o] = NoToken}

(* The candidates of the claim statement, at the worker's `now'. *)
Claimable(w) ==
  {o \in Orders :
     /\ order[o] # "NONE"
     /\ ~published[o]
     /\ due_in[o] + elapsed[w] <= 0
     /\ claim_token[o] = NoToken \/ lock_age[o] >= Lease + elapsed[w]}

(* Rows SKIP LOCKED may pass over: another worker may be in the middle of  *)
(* the transaction that applies or releases them.                          *)
MaybeLocked(w) == {o \in Orders : \E v \in Workers \ {w} : Holds(v, o)}

(* ORDER BY next_attempt_at LIMIT BatchSize *)
Batches(candidates) ==
  {b \in SUBSET candidates :
     /\ Cardinality(b) = Smaller(BatchSize, Cardinality(candidates))
     /\ \A o \in b, p \in candidates \ b : due_in[o] <= due_in[p]}

(* gen_random_uuid never repeats a value somebody still compares with. *)
FreshFor(o, t) ==
  /\ claim_token[o] # t
  /\ \A v \in Workers : held[v][o] # t

(* Mutant: locked_at keeps the end of the lease instead of its beginning. *)
TakeBatch_LockedUntil(w, batch, tokens) ==
  /\ claim_token' = [o \in Orders |->
       IF o \in batch THEN tokens[o] ELSE claim_token[o]]
  /\ lock_age' = [o \in Orders |->
       IF o \in batch THEN elapsed[w] - Lease ELSE lock_age[o]]
  /\ UNCHANGED attempt_count
  /\ held' = [held EXCEPT ![w] =
       [o \in Orders |-> IF o \in batch THEN tokens[o] ELSE NoToken]]
  /\ pc' = [pc EXCEPT ![w] = IF batch = {} THEN "idle" ELSE "calling"]
  /\ elapsed' = [elapsed EXCEPT ![w] = IF batch = {} THEN 0 ELSE @]

TakeBatch(w, batch, tokens) ==
  /\ claim_token' = [o \in Orders |->
       IF o \in batch THEN tokens[o] ELSE claim_token[o]]
  /\ lock_age' = [o \in Orders |->
       IF o \in batch THEN elapsed[w] ELSE lock_age[o]]
  /\ attempt_count' = [o \in Orders |->
       IF o \in batch THEN Smaller(attempt_count[o] + 1, MaxAttempt)
                      ELSE attempt_count[o]]
  /\ held' = [held EXCEPT ![w] =
       [o \in Orders |-> IF o \in batch THEN tokens[o] ELSE NoToken]]
  /\ pc' = [pc EXCEPT ![w] = IF batch = {} THEN "idle" ELSE "calling"]
  /\ elapsed' = [elapsed EXCEPT ![w] = IF batch = {} THEN 0 ELSE @]

Claim(w) ==
  /\ pc[w] = "claiming"
  /\ \E skipped \in SUBSET (Claimable(w) \cap MaybeLocked(w)) :
     \E batch \in Batches(Claimable(w) \ skipped) :
     \E tokens \in [batch -> Tokens] :
       /\ \A o \in batch : FreshFor(o, tokens[o])
       /\ TakeBatch(w, batch, tokens)
  /\ UNCHANGED <<orderVars, published, due_in, adapterVars, reply, crashes>>

(* The worker is done with o: the next one of the batch, or the next tick. *)
FinishItem(w, o) ==
  LET last == \A p \in Orders \ {o} : ~Holds(w, p)
  IN /\ held' = [held EXCEPT ![w] = [held[w] EXCEPT ![o] = NoToken]]
     /\ reply' = [reply EXCEPT ![w] = [reply[w] EXCEPT ![o] = Pending]]
     /\ pc' = [pc EXCEPT ![w] = IF last THEN "idle" ELSE "calling"]
     /\ elapsed' = [elapsed EXCEPT ![w] = IF last THEN 0 ELSE @]

(* An error out of ProcessOnce ends Run, and with it the process: the rest  *)
(* of the batch stays claimed until its leases run out, and what a fake     *)
(* adapter remembers is gone.                                              *)
Stop(w) ==
  /\ held' = [held EXCEPT ![w] = NothingHeld]
  /\ reply' = [reply EXCEPT ![w] = NoReply]
  /\ pc' = [pc EXCEPT ![w] = "down"]
  /\ elapsed' = [elapsed EXCEPT ![w] = 0]
  /\ receipt' = IF Fake THEN [receipt EXCEPT ![AdapterOf[w]] = NoReply] ELSE receipt

(* The items of a batch are handled one by one, in the order of RETURNING,  *)
(* which SQL leaves open: o may be the one whose Commit call is running.    *)
Calling(w, o) ==
  /\ pc[w] = "calling"
  /\ Holds(w, o)
  /\ \A p \in Orders : reply[w][p] = Pending

(* The HTTP request stays on its way when the client gives up on it; that   *)
(* matters only while the adapter has no receipt.                          *)
Abandon(w, o) ==
  inFlight' = IF Fake \/ receipt[AdapterOf[w]][o] # Pending
              THEN inFlight
              ELSE inFlight \cup {<<AdapterOf[w], o>>}

-----------------------------------------------------------------------------
(* The inventory adapter, as the worker sees it: it keeps the first result  *)
(* of an operation and answers every later request with it.                *)

(* The stock goes down in the transaction that records the result.  What    *)
(* the result is depends on a stock that others change as well: it may be  *)
(* either.  A fake has no stock.                                           *)
Deduct(o, result) ==
  deducted' = IF ~Fake /\ result.status = "COMMITTED"
              THEN [deducted EXCEPT ![o] = @ + 1]
              ELSE deducted

(* Mutant: every request is decided anew. *)
Decide_Anew(a, o, result) ==
  /\ receipt' = [receipt EXCEPT ![a] = [receipt[a] EXCEPT ![o] = result]]
  /\ Deduct(o, result)
  /\ UNCHANGED inFlight

Decide(a, o, result) ==
  IF receipt[a][o] = Pending
  THEN /\ receipt' = [receipt EXCEPT ![a] = [receipt[a] EXCEPT ![o] = result]]
       /\ Deduct(o, result)
       /\ inFlight' = inFlight \ {<<a, o>>}
  ELSE result = receipt[a][o] /\ UNCHANGED adapterVars

(* Mutant: the client does not compare operation_id with its request's. *)
Answer_OfAnotherOperation(w, o) ==
  /\ Calling(w, o)
  /\ \E p \in Orders, result \in FinalResults :
       /\ Decide(AdapterOf[w], p, result)
       /\ reply' = [reply EXCEPT ![w] = [reply[w] EXCEPT ![o] = result]]
  /\ UNCHANGED <<orderVars, outboxVars, pc, held, elapsed, crashes>>

(* Commit returns a result. *)
Answer(w, o) ==
  /\ Calling(w, o)
  /\ \E result \in FinalResults :
       /\ Decide(AdapterOf[w], o, result)
       /\ reply' = [reply EXCEPT ![w] = [reply[w] EXCEPT ![o] = result]]
  /\ UNCHANGED <<orderVars, outboxVars, pc, held, elapsed, crashes>>

(* A request its client has given up on is processed after all. *)
LateCommit(a, o) ==
  /\ <<a, o>> \in inFlight
  /\ \E result \in FinalResults : Decide(a, o, result)
  /\ UNCHANGED <<orderVars, outboxVars, workerVars, crashes>>

-----------------------------------------------------------------------------
(* Commit returned an error: RetryInventoryWork.                           *)

(* The claim is released until now + retryDelay(attempt), `now' being the  *)
(* time the batch began.                                                   *)
Release(w, o) ==
  /\ claim_token' = [claim_token EXCEPT ![o] = NoToken]
  /\ lock_age' = [lock_age EXCEPT ![o] = 0]
  /\ due_in' = [due_in EXCEPT ![o] = RetryDelay[attempt_count[o]] - elapsed[w]]

(* Mutant: UPDATE .. WHERE event_id = .. without the claim token. *)
RetryLater_AnyClaim(w, o) ==
  /\ Calling(w, o)
  /\ Release(w, o)
  /\ Abandon(w, o)
  /\ FinishItem(w, o)
  /\ UNCHANGED <<orderVars, published, attempt_count, receipt, deducted, crashes>>

(* Mutant: the last attempt's failure marks the event published. *)
RetryLater_GivesUp(w, o) ==
  /\ Calling(w, o)
  /\ OwnsClaim(w, o)
  /\ Release(w, o)
  /\ published' = [published EXCEPT ![o] = attempt_count[o] = MaxAttempt]
  /\ Abandon(w, o)
  /\ FinishItem(w, o)
  /\ UNCHANGED <<orderVars, attempt_count, receipt, deducted, crashes>>

RetryLater(w, o) ==
  /\ Calling(w, o)
  /\ OwnsClaim(w, o)
  /\ Release(w, o)
  /\ Abandon(w, o)
  /\ FinishItem(w, o)
  /\ UNCHANGED <<orderVars, published, attempt_count, receipt, deducted, crashes>>

(* ErrClaimLost *)
RetryClaimLost(w, o) ==
  /\ Calling(w, o)
  /\ ~OwnsClaim(w, o)
  /\ Abandon(w, o)
  /\ Stop(w)
  /\ UNCHANGED <<orderVars, outboxVars, deducted, crashes>>

-----------------------------------------------------------------------------
(* Commit returned a result: ApplyInventoryResult.                         *)

Answered(w, o) == pc[w] = "calling" /\ reply[w][o] # Pending

(* The business result and the publication of the event. *)
Record(w, o) ==
  /\ operation' = [operation EXCEPT ![o] = reply[w][o]]
  /\ IF reply[w][o].status = "COMMITTED"
     THEN /\ order' = [order EXCEPT ![o] = "CONFIRMED"]
          /\ fulfillment' = [fulfillment EXCEPT ![o] = TRUE]
     ELSE /\ order' = [order EXCEPT ![o] = "REJECTED"]
          /\ UNCHANGED fulfillment
  /\ published' = [published EXCEPT ![o] = TRUE]
  /\ claim_token' = [claim_token EXCEPT ![o] = NoToken]
  /\ lock_age' = [lock_age EXCEPT ![o] = 0]

(* Both are one transaction, if the operation is PENDING and the claim is   *)
(* still ours.                                                             *)
ApplyResult(w, o) ==
  /\ Answered(w, o)
  /\ operation[o] = Pending
  /\ OwnsClaim(w, o)
  /\ order[o] = "SUBMITTED"
  /\ Record(w, o)
  /\ FinishItem(w, o)
  /\ UNCHANGED <<due_in, attempt_count, adapterVars, crashes>>

(* Somebody already applied this very result: nothing changes. *)
ApplyReplayed(w, o) ==
  /\ Answered(w, o)
  /\ operation[o] # Pending
  /\ operation[o] = reply[w][o]
  /\ FinishItem(w, o)
  /\ UNCHANGED <<orderVars, outboxVars, adapterVars, crashes>>

(* ErrClaimLost: not decided yet, and the claim is somebody else's. *)
ApplyClaimLost(w, o) ==
  /\ Answered(w, o)
  /\ operation[o] = Pending
  /\ ~OwnsClaim(w, o)
  /\ Stop(w)
  /\ UNCHANGED <<orderVars, outboxVars, deducted, inFlight, crashes>>

(* ErrOperationConflict: another result is on record, or the order is not   *)
(* SUBMITTED any more.                                                     *)
ApplyConflict(w, o) ==
  /\ Answered(w, o)
  /\ operation[o] # reply[w][o]
  /\ operation[o] = Pending => OwnsClaim(w, o) /\ order[o] # "SUBMITTED"
  /\ Stop(w)
  /\ UNCHANGED <<orderVars, outboxVars, deducted, inFlight, crashes>>

-----------------------------------------------------------------------------
(* Process failures, restarts and time.                                    *)

(* The process dies; a call it was waiting for may still reach the adapter. *)
Crash(w) ==
  /\ pc[w] # "down"
  /\ crashes < MaxCrashes
  /\ crashes' = crashes + 1
  /\ \/ UNCHANGED inFlight
     \/ \E o \in Orders : Calling(w, o) /\ Abandon(w, o)
  /\ Stop(w)
  /\ UNCHANGED <<orderVars, outboxVars, deducted>>

Restart(w) ==
  /\ pc[w] = "down"
  /\ pc' = [pc EXCEPT ![w] = "idle"]
  /\ UNCHANGED <<orderVars, outboxVars, adapterVars, held, reply, elapsed,
                 crashes>>

Tick ==
  /\ \A w \in Workers : Busy(w) => elapsed[w] < MaxBatchTime
  /\ elapsed' = [w \in Workers |-> IF Busy(w) THEN elapsed[w] + 1 ELSE 0]
  /\ lock_age' = [o \in Orders |->
       IF claim_token[o] # NoToken THEN Smaller(lock_age[o] + 1, AgeCap)
                                   ELSE lock_age[o]]
  /\ due_in' = [o \in Orders |->
       IF order[o] = "SUBMITTED" THEN Larger(due_in[o] - 1, -MaxBatchTime)
                                 ELSE due_in[o]]
  /\ UNCHANGED <<orderVars, published, claim_token, attempt_count,
                 adapterVars, pc, held, reply, crashes>>

-----------------------------------------------------------------------------

WorkerStep(w) ==
  \/ Poll(w)
  \/ Claim(w)
  \/ Restart(w)
  \/ \E o \in Orders :
       \/ Answer(w, o)
       \/ RetryLater(w, o)
       \/ RetryClaimLost(w, o)
       \/ ApplyResult(w, o)
       \/ ApplyReplayed(w, o)
       \/ ApplyClaimLost(w, o)
       \/ ApplyConflict(w, o)

Next ==
  \/ \E o \in Orders : PlaceOrder(o)
  \/ \E a \in Adapters, o \in Orders : LateCommit(a, o)
  \/ \E w \in Workers : WorkerStep(w) \/ Crash(w)
  \/ Tick

Spec == Init /\ [][Next]_vars

(* Workers keep polling and finish their calls (the HTTP client has a       *)
(* timeout), a stopped process is started again, time passes, and the       *)
(* adapter does not fail every call for an operation for ever.             *)
Fairness ==
  /\ WF_vars(Tick)
  /\ \A w \in Workers : WF_vars(WorkerStep(w))
  /\ \A o \in Orders : SF_vars(\E w \in Workers : Answer(w, o))

FairSpec == Spec /\ Fairness

-----------------------------------------------------------------------------
(* Properties                                                              *)

(* Every table and worker variable holds what its column or field can; the  *)
(* clock distances stay within the bounds of the model.                    *)
TypeOK ==
  /\ order \in [Orders -> {"NONE", "SUBMITTED", "CONFIRMED", "REJECTED"}]
  /\ operation \in [Orders -> FinalResults \cup {Pending}]
  /\ fulfillment \in [Orders -> BOOLEAN]
  /\ published \in [Orders -> BOOLEAN]
  /\ claim_token \in [Orders -> Tokens \cup {NoToken}]
  /\ lock_age \in [Orders -> 0..AgeCap]
  /\ due_in \in [Orders -> Int]
  /\ \A o \in Orders : due_in[o] >= -MaxBatchTime
  /\ attempt_count \in [Orders -> 0..MaxAttempt]
  /\ receipt \in [Adapters -> [Orders -> FinalResults \cup {Pending}]]
  /\ deducted \in [Orders -> Nat]
  /\ inFlight \in SUBSET (Adapters \X Orders)
  /\ pc \in [Workers -> {"idle", "claiming", "calling", "down"}]
  /\ held \in [Workers -> [Orders -> Tokens \cup {NoToken}]]
  /\ reply \in [Workers -> [Orders -> FinalResults \cup {Pending}]]
  /\ elapsed \in [Workers -> 0..MaxBatchTime]
  /\ crashes \in 0..MaxCrashes

(* Before its lease runs out nobody takes a claim from the worker that has  *)
(* it, whatever the other workers, their stale clocks and their retries do: *)
(* up to that time the worker can apply its result or release the row, so   *)
(* ErrClaimLost, which ends the API process, needs a batch slower than the  *)
(* lease.  (ClaimInventoryWork, RetryInventoryWork, ApplyInventoryResult)   *)
LeaseProtects ==
  \A w \in Workers, o \in Orders :
    Holds(w, o) /\ elapsed[w] < Lease => OwnsClaim(w, o)

(* The four tables agree after every transaction: an order is decided       *)
(* exactly when its operation is, its event is published then and only      *)
(* then, and the confirmed orders are those with a fulfillment.  No crash   *)
(* leaves a decided order whose event is still retried, or a submitted one  *)
(* whose event nobody will send.                                           *)
TablesAgree ==
  \A o \in Orders :
    /\ order[o] \in {"NONE", "SUBMITTED"} <=> operation[o] = Pending
    /\ order[o] = "CONFIRMED" <=> operation[o].status = "COMMITTED"
    /\ published[o] <=> operation[o] # Pending
    /\ fulfillment[o] <=> order[o] = "CONFIRMED"

(* With a durable adapter, the decision on record for an order is the one   *)
(* result the adapter keeps, and every answer still on its way to being     *)
(* applied is that result too: late and repeated applications can only be   *)
(* replays, never ErrOperationConflict.                                    *)
OneDecision ==
  ~Fake => \A w \in Workers, o \in Orders :
    /\ reply[w][o] # Pending /\ operation[o] # Pending => reply[w][o] = operation[o]
    /\ operation[o] # Pending => \E a \in Adapters : receipt[a][o] = operation[o]

(* The databases of the two services, which share no transaction, agree:    *)
(* what a confirmed order consists of has been taken from the stock once,  *)
(* however often its command was sent, lost, carried out late or repeated; *)
(* of a rejected order nothing has been or will be taken; and no order is  *)
(* taken twice.  With EventuallyDecided, what has been taken is sold in    *)
(* the end.  (ProcessOnce, commitOnce of the adapter, ApplyInventoryResult) *)
SoldOnce ==
  ~Fake => \A o \in Orders :
    /\ deducted[o] <= 1
    /\ order[o] = "CONFIRMED" => deducted[o] = 1
    /\ order[o] = "REJECTED" => deducted[o] = 0

(* Once decided, an order keeps its decision, its result event and its      *)
(* fulfillment, even when adapters that forget or disagree answer later.    *)
DecisionFinal ==
  [][\A o \in Orders : operation[o] # Pending =>
       /\ operation'[o] = operation[o]
       /\ order'[o] = order[o]
       /\ fulfillment'[o] = fulfillment[o]]_vars

(* The workers implement the saga. *)
Saga == INSTANCE OrderSaga
SagaSpec == Saga!Spec

(* Every submitted order is decided in the end, through crashes, failed     *)
(* calls, back-off and expired leases.                                     *)
EventuallyDecided ==
  \A o \in Orders :
    order[o] = "SUBMITTED" ~> order[o] \in {"CONFIRMED", "REJECTED"}

=============================================================================
