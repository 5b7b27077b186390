------------------------ MODULE InventoryOutbox_proofs ------------------------
(***************************************************************************)
(* Proofs about InventoryOutbox for every number of orders, workers and    *)
(* tokens, every lease, back-off and batch time.                           *)
(***************************************************************************)
EXTENDS InventoryOutbox, TLAPS

(* Facts about the constants and the helpers used everywhere below. *)
LEMMA PendingNotFinal == Pending \notin FinalResults
BY OutboxAssumption DEF Pending, FinalResults, FinalStatus

LEMMA AgeCapFact == AgeCap \in Nat /\ MaxBatchTime <= AgeCap /\ Lease <= AgeCap
BY OutboxAssumption DEF AgeCap

LEMMA SmallerFact ==
  ASSUME NEW a \in Int, NEW b \in Int
  PROVE  /\ Smaller(a, b) \in {a, b}
         /\ Smaller(a, b) <= a
         /\ Smaller(a, b) <= b
BY DEF Smaller

LEMMA LargerFact ==
  ASSUME NEW a \in Int, NEW b \in Int
  PROVE  Larger(a, b) \in {a, b} /\ Larger(a, b) >= b
BY DEF Larger

-----------------------------------------------------------------------------
(* Type correctness, in two parts: FinishItem and Stop, the two ways to     *)
(* leave an item, keep the workers' types by themselves.                   *)

WorkersOK ==
  /\ pc \in [Workers -> {"idle", "claiming", "calling", "down"}]
  /\ held \in [Workers -> [Orders -> Tokens \cup {NoToken}]]
  /\ reply \in [Workers -> [Orders -> FinalResults \cup {Pending}]]
  /\ elapsed \in [Workers -> 0..MaxBatchTime]

LEMMA FinishItemType ==
  ASSUME TypeOK, NEW w \in Workers, NEW o \in Orders, FinishItem(w, o)
  PROVE  WorkersOK'
<1>1. /\ held' \in [Workers -> [Orders -> Tokens \cup {NoToken}]]
      /\ reply' \in [Workers -> [Orders -> FinalResults \cup {Pending}]]
  BY DEF TypeOK, FinishItem
<1>2. /\ pc' \in [Workers -> {"idle", "claiming", "calling", "down"}]
      /\ elapsed' \in [Workers -> 0..MaxBatchTime]
  BY OutboxAssumption DEF TypeOK, FinishItem
<1>3. QED
  BY <1>1, <1>2 DEF WorkersOK

LEMMA StopType ==
  ASSUME TypeOK, NEW w \in Workers, Stop(w)
  PROVE  /\ WorkersOK'
         /\ receipt' \in [Adapters -> [Orders -> FinalResults \cup {Pending}]]
<1>1. /\ NothingHeld \in [Orders -> Tokens \cup {NoToken}]
      /\ NoReply \in [Orders -> FinalResults \cup {Pending}]
  BY DEF NothingHeld, NoReply
<1>2. /\ held' \in [Workers -> [Orders -> Tokens \cup {NoToken}]]
      /\ reply' \in [Workers -> [Orders -> FinalResults \cup {Pending}]]
  BY <1>1 DEF TypeOK, Stop
<1>3. /\ pc' \in [Workers -> {"idle", "claiming", "calling", "down"}]
      /\ elapsed' \in [Workers -> 0..MaxBatchTime]
  BY OutboxAssumption DEF TypeOK, Stop
<1>4. receipt' \in [Adapters -> [Orders -> FinalResults \cup {Pending}]]
  BY <1>1 DEF TypeOK, Stop
<1>5. QED
  BY <1>2, <1>3, <1>4 DEF WorkersOK

LEMMA AbandonType ==
  ASSUME TypeOK, NEW w \in Workers, NEW o \in Orders, Abandon(w, o)
  PROVE  inFlight' \in SUBSET (Adapters \X Orders)
<1>1. <<AdapterOf[w], o>> \in Adapters \X Orders
  BY OutboxAssumption
<1>2. inFlight \in SUBSET (Adapters \X Orders)
  BY DEF TypeOK
<1>3. QED
  BY <1>1, <1>2, Zenon DEF Abandon

LEMMA DecideType ==
  ASSUME TypeOK, NEW a \in Adapters, NEW o \in Orders,
         NEW result \in FinalResults, Decide(a, o, result)
  PROVE  /\ receipt' \in [Adapters -> [Orders -> FinalResults \cup {Pending}]]
         /\ deducted' \in [Orders -> Nat]
         /\ inFlight' \in SUBSET (Adapters \X Orders)
<1>1. CASE receipt[a][o] = Pending
  <2>1. receipt' = [receipt EXCEPT ![a] = [receipt[a] EXCEPT ![o] = result]]
    BY <1>1 DEF Decide
  <2>2. receipt' \in [Adapters -> [Orders -> FinalResults \cup {Pending}]]
    BY <2>1 DEF TypeOK
  <2>3. inFlight' \subseteq inFlight
    BY <1>1 DEF Decide
  <2>4. deducted' \in [Orders -> Nat]
    <3>1. deducted' = deducted \/ deducted' = [deducted EXCEPT ![o] = @ + 1]
      BY <1>1, Zenon DEF Decide, Deduct
    <3>2. deducted \in [Orders -> Nat]
      BY DEF TypeOK
    <3>3. QED
      BY <3>1, <3>2
  <2>5. QED
    BY <2>2, <2>3, <2>4 DEF TypeOK
<1>2. CASE receipt[a][o] # Pending
  BY <1>2 DEF Decide, adapterVars, TypeOK
<1>3. QED
  BY <1>1, <1>2

LEMMA InitType == Init => TypeOK
BY OutboxAssumption DEF Init, TypeOK, NothingHeld, NoReply, AgeCap

LEMMA ClaimType ==
  ASSUME TypeOK, NEW w \in Workers, Claim(w)
  PROVE  TypeOK'
<1>1. PICK skipped \in SUBSET (Claimable(w) \cap MaybeLocked(w)) :
        \E batch \in Batches(Claimable(w) \ skipped) :
        \E tokens \in [batch -> Tokens] : TakeBatch(w, batch, tokens)
  BY DEF Claim
<1>2. PICK batch \in Batches(Claimable(w) \ skipped) :
        \E tokens \in [batch -> Tokens] : TakeBatch(w, batch, tokens)
  BY <1>1
<1>a. PICK tokens \in [batch -> Tokens] : TakeBatch(w, batch, tokens)
  BY <1>2
<1>b. batch \subseteq Orders
  BY DEF Batches, Claimable
<1>3. attempt_count' \in [Orders -> 0..MaxAttempt]
  BY <1>a, OutboxAssumption DEF TakeBatch, TypeOK, Smaller
<1>4. lock_age' \in [Orders -> 0..AgeCap]
  BY <1>a, OutboxAssumption DEF TakeBatch, TypeOK, AgeCap
<1>5. claim_token' \in [Orders -> Tokens \cup {NoToken}]
  BY <1>a, <1>b DEF TakeBatch, TypeOK
<1>6. held' \in [Workers -> [Orders -> Tokens \cup {NoToken}]]
  BY <1>a, <1>b DEF TakeBatch, TypeOK
<1>7. /\ pc' \in [Workers -> {"idle", "claiming", "calling", "down"}]
      /\ elapsed' \in [Workers -> 0..MaxBatchTime]
  BY <1>a, OutboxAssumption DEF TakeBatch, TypeOK
<1>8. QED
  BY <1>3, <1>4, <1>5, <1>6, <1>7
  DEF Claim, TypeOK, orderVars, adapterVars

LEMMA TickType ==
  ASSUME TypeOK, Tick
  PROVE  TypeOK'
<1>1. elapsed' \in [Workers -> 0..MaxBatchTime]
  BY OutboxAssumption DEF Tick, TypeOK
<1>2. lock_age' \in [Orders -> 0..AgeCap]
  BY AgeCapFact DEF Tick, TypeOK, Smaller
<1>3. /\ due_in' \in [Orders -> Int]
      /\ \A o \in Orders : due_in'[o] >= -MaxBatchTime
  BY OutboxAssumption DEF Tick, TypeOK, Larger
<1>4. QED
  BY <1>1, <1>2, <1>3 DEF Tick, TypeOK, orderVars, adapterVars

(* A record of a final result, and the claim it clears. *)
LEMMA RecordType ==
  ASSUME TypeOK, NEW w \in Workers, NEW o \in Orders, Record(w, o)
  PROVE  /\ order' \in [Orders -> {"NONE", "SUBMITTED", "CONFIRMED", "REJECTED"}]
         /\ operation' \in [Orders -> FinalResults \cup {Pending}]
         /\ fulfillment' \in [Orders -> BOOLEAN]
         /\ published' \in [Orders -> BOOLEAN]
         /\ claim_token' \in [Orders -> Tokens \cup {NoToken}]
         /\ lock_age' \in [Orders -> 0..AgeCap]
<1>1. reply[w][o] \in FinalResults \cup {Pending}
  BY DEF TypeOK
<1>2. operation' \in [Orders -> FinalResults \cup {Pending}]
  BY <1>1 DEF TypeOK, Record
<1>3. /\ order' \in [Orders -> {"NONE", "SUBMITTED", "CONFIRMED", "REJECTED"}]
      /\ fulfillment' \in [Orders -> BOOLEAN]
  BY DEF TypeOK, Record
<1>4. /\ published' \in [Orders -> BOOLEAN]
      /\ claim_token' \in [Orders -> Tokens \cup {NoToken}]
      /\ lock_age' \in [Orders -> 0..AgeCap]
  BY AgeCapFact DEF TypeOK, Record
<1>5. QED
  BY <1>2, <1>3, <1>4

LEMMA StepType == TypeOK /\ [Next]_vars => TypeOK'
<1> SUFFICES ASSUME TypeOK, [Next]_vars PROVE TypeOK'
  OBVIOUS
<1> USE DEF orderVars, outboxVars, adapterVars, workerVars
<1>1. ASSUME NEW o \in Orders, PlaceOrder(o) PROVE TypeOK'
  BY <1>1, OutboxAssumption DEF PlaceOrder, TypeOK
<1>2. ASSUME NEW a \in Adapters, NEW o \in Orders, LateCommit(a, o) PROVE TypeOK'
  BY <1>2, DecideType DEF LateCommit, TypeOK
<1>3. ASSUME NEW w \in Workers, WorkerStep(w) PROVE TypeOK'
  <2>1. CASE Poll(w) \/ Restart(w)
    BY <2>1 DEF Poll, Restart, TypeOK
  <2>2. CASE Claim(w)
    BY <2>2, ClaimType
  <2>3. ASSUME NEW o \in Orders, Answer(w, o) PROVE TypeOK'
    <3>1. AdapterOf[w] \in Adapters
      BY OutboxAssumption
    <3>2. PICK result \in FinalResults :
            /\ Decide(AdapterOf[w], o, result)
            /\ reply' = [reply EXCEPT ![w] = [reply[w] EXCEPT ![o] = result]]
      BY <2>3 DEF Answer
    <3>3. reply' \in [Workers -> [Orders -> FinalResults \cup {Pending}]]
      BY <3>2 DEF TypeOK
    <3>4. QED
      BY <2>3, <3>1, <3>2, <3>3, DecideType DEF Answer, TypeOK
  <2>4. ASSUME NEW o \in Orders, RetryLater(w, o) PROVE TypeOK'
    <3>1. /\ claim_token' \in [Orders -> Tokens \cup {NoToken}]
          /\ lock_age' \in [Orders -> 0..AgeCap]
      BY <2>4, AgeCapFact DEF RetryLater, Release, TypeOK
    <3>2. /\ due_in' \in [Orders -> Int]
          /\ \A p \in Orders : due_in'[p] >= -MaxBatchTime
      <4>1. RetryDelay[attempt_count[o]] \in Nat /\ elapsed[w] \in 0..MaxBatchTime
        BY OutboxAssumption DEF TypeOK
      <4>2. QED
        BY <2>4, <4>1, OutboxAssumption DEF RetryLater, Release, TypeOK
    <3>3. QED
      BY <2>4, <3>1, <3>2, FinishItemType, AbandonType
      DEF RetryLater, TypeOK, WorkersOK
  <2>5. ASSUME NEW o \in Orders, RetryClaimLost(w, o) PROVE TypeOK'
    BY <2>5, StopType, AbandonType DEF RetryClaimLost, TypeOK, WorkersOK
  <2>6. ASSUME NEW o \in Orders, ApplyResult(w, o) PROVE TypeOK'
    BY <2>6, RecordType, FinishItemType DEF ApplyResult, TypeOK, WorkersOK
  <2>7. ASSUME NEW o \in Orders, ApplyReplayed(w, o) PROVE TypeOK'
    BY <2>7, FinishItemType DEF ApplyReplayed, TypeOK, WorkersOK
  <2>8. ASSUME NEW o \in Orders, ApplyClaimLost(w, o) \/ ApplyConflict(w, o)
        PROVE  TypeOK'
    BY <2>8, StopType DEF ApplyClaimLost, ApplyConflict, TypeOK, WorkersOK
  <2>9. QED
    BY <1>3, <2>1, <2>2, <2>3, <2>4, <2>5, <2>6, <2>7, <2>8 DEF WorkerStep
<1>4. ASSUME NEW w \in Workers, Crash(w) PROVE TypeOK'
  <2>1. inFlight' \in SUBSET (Adapters \X Orders)
    BY <1>4, AbandonType DEF Crash, TypeOK
  <2>2. crashes' \in 0..MaxCrashes
    BY <1>4, OutboxAssumption DEF Crash, TypeOK
  <2>3. QED
    BY <1>4, <2>1, <2>2, StopType DEF Crash, TypeOK, WorkersOK
<1>5. CASE Tick
  BY <1>5, TickType
<1>6. CASE UNCHANGED vars
  BY <1>6 DEF vars, TypeOK
<1>7. QED
  BY <1>1, <1>2, <1>3, <1>4, <1>5, <1>6 DEF Next

(* Every variable of every reachable state has its type. *)
THEOREM TypeCorrect == Spec => []TypeOK
BY InitType, StepType, PTL DEF Spec

-----------------------------------------------------------------------------
(* Answers.                                                                *)

(* What w still holds after an item or after a stop, it held before. *)
LEMMA FinishItemHeld ==
  ASSUME TypeOK, NEW w \in Workers, NEW o \in Orders,
         FinishItem(w, o), pc[w] = "calling",
         NEW v \in Workers, NEW p \in Orders, Holds(v, p)'
  PROVE  /\ Holds(v, p) /\ held'[v][p] = held[v][p]
         /\ pc'[v] = pc[v] /\ elapsed'[v] = elapsed[v]
         /\ v = w => p # o
<1>1. held'[v] = IF v = w THEN [held[w] EXCEPT ![o] = NoToken] ELSE held[v]
  BY DEF TypeOK, FinishItem
<1>2. (v = w => p # o) /\ held'[v][p] = held[v][p]
  BY <1>1 DEF TypeOK, Holds
<1>3. Holds(v, p)
  BY <1>2 DEF Holds
<1>4. CASE v = w
  <2>1. \E q \in Orders \ {o} : Holds(w, q)
    BY <1>2, <1>3, <1>4
  <2>2. pc'[w] = "calling" /\ elapsed'[w] = elapsed[w]
    BY <2>1 DEF TypeOK, FinishItem
  <2>3. QED
    BY <1>2, <1>3, <1>4, <2>2
<1>5. CASE v # w
  BY <1>2, <1>3, <1>5 DEF TypeOK, FinishItem
<1>6. QED
  BY <1>4, <1>5

LEMMA StopHeld ==
  ASSUME TypeOK, NEW w \in Workers, Stop(w),
         NEW v \in Workers, NEW p \in Orders, Holds(v, p)'
  PROVE  /\ v # w
         /\ Holds(v, p) /\ held'[v][p] = held[v][p]
         /\ pc'[v] = pc[v] /\ elapsed'[v] = elapsed[v]
BY DEF TypeOK, Stop, Holds, NothingHeld

(* A worker about to apply a result has the item in its batch, and the       *)
(* result is the one its adapter has on record.                            *)
RepliesOnRecord ==
  \A w \in Workers, o \in Orders :
    reply[w][o] # Pending =>
      /\ pc[w] = "calling"
      /\ Holds(w, o)
      /\ reply[w][o] = receipt[AdapterOf[w]][o]

LEMMA FinishItemReplies ==
  ASSUME TypeOK, RepliesOnRecord, NEW w \in Workers, NEW o \in Orders,
         FinishItem(w, o), UNCHANGED receipt
  PROVE  RepliesOnRecord'
<1> SUFFICES ASSUME NEW v \in Workers, NEW p \in Orders, reply'[v][p] # Pending
             PROVE  /\ pc'[v] = "calling"
                    /\ Holds(v, p)'
                    /\ reply'[v][p] = receipt[AdapterOf[v]][p]
  BY DEF RepliesOnRecord
<1>1. CASE v # w
  BY <1>1 DEF FinishItem, TypeOK, RepliesOnRecord, Holds
<1>2. CASE v = w
  <2>1. p # o /\ reply'[v][p] = reply[v][p] /\ held'[v][p] = held[v][p]
    BY <1>2 DEF FinishItem, TypeOK
  <2>2. pc[v] = "calling" /\ Holds(v, p) /\ reply[v][p] = receipt[AdapterOf[v]][p]
    BY <2>1 DEF RepliesOnRecord
  <2>3. pc'[v] = "calling"
    BY <1>2, <2>1, <2>2 DEF FinishItem, TypeOK
  <2>4. QED
    BY <2>1, <2>2, <2>3 DEF Holds
<1>3. QED
  BY <1>1, <1>2

LEMMA StopReplies ==
  ASSUME TypeOK, RepliesOnRecord, NEW w \in Workers, Stop(w)
  PROVE  RepliesOnRecord'
<1> SUFFICES ASSUME NEW v \in Workers, NEW p \in Orders, reply'[v][p] # Pending
             PROVE  /\ pc'[v] = "calling"
                    /\ Holds(v, p)'
                    /\ reply'[v][p] = receipt'[AdapterOf[v]][p]
  BY DEF RepliesOnRecord
<1>1. v # w
  BY DEF Stop, NoReply, TypeOK
<1>2. /\ reply'[v] = reply[v] /\ held'[v] = held[v] /\ pc'[v] = pc[v]
  BY <1>1 DEF Stop, TypeOK
<1>3. receipt'[AdapterOf[v]] = receipt[AdapterOf[v]]
  BY <1>1, OutboxAssumption DEF Stop, TypeOK
<1>4. QED
  BY <1>2, <1>3 DEF RepliesOnRecord, Holds

(* The adapter does not change a result it has on record. *)
LEMMA DecideKeeps ==
  ASSUME TypeOK, NEW a \in Adapters, NEW o \in Orders,
         NEW result \in FinalResults, Decide(a, o, result)
  PROVE  /\ receipt'[a][o] = result
         /\ \A b \in Adapters, p \in Orders :
              receipt[b][p] # Pending => receipt'[b][p] = receipt[b][p]
<1>1. CASE receipt[a][o] = Pending
  <2>1. receipt' = [receipt EXCEPT ![a] = [receipt[a] EXCEPT ![o] = result]]
    BY <1>1 DEF Decide
  <2>2. \A b \in Adapters, p \in Orders :
          receipt'[b][p] = IF b = a /\ p = o THEN result ELSE receipt[b][p]
    BY <2>1 DEF TypeOK
  <2>3. QED
    BY <1>1, <2>2
<1>2. CASE receipt[a][o] # Pending
  BY <1>2 DEF Decide, adapterVars
<1>3. QED
  BY <1>1, <1>2

LEMMA StepReplies == TypeOK /\ RepliesOnRecord /\ [Next]_vars => RepliesOnRecord'
<1> SUFFICES ASSUME TypeOK, RepliesOnRecord, [Next]_vars PROVE RepliesOnRecord'
  OBVIOUS
<1> USE DEF orderVars, outboxVars, adapterVars, workerVars
<1>a. \A w \in Workers : AdapterOf[w] \in Adapters
  BY OutboxAssumption
<1>1. ASSUME NEW o \in Orders, PlaceOrder(o) PROVE RepliesOnRecord'
  BY <1>1 DEF PlaceOrder, RepliesOnRecord, Holds
<1>2. ASSUME NEW a \in Adapters, NEW o \in Orders, LateCommit(a, o)
      PROVE  RepliesOnRecord'
  <2>1. \A b \in Adapters, p \in Orders :
          receipt[b][p] # Pending => receipt'[b][p] = receipt[b][p]
    BY <1>2, DecideKeeps DEF LateCommit
  <2>2. QED
    BY <1>2, <1>a, <2>1 DEF LateCommit, RepliesOnRecord, Holds
<1>3. ASSUME NEW w \in Workers, WorkerStep(w) PROVE RepliesOnRecord'
  <2>1. CASE Poll(w) \/ Restart(w)
    BY <2>1 DEF Poll, Restart, RepliesOnRecord, Holds, TypeOK
  <2>2. CASE Claim(w)
    <3>1. /\ UNCHANGED <<reply, receipt>> /\ pc[w] = "claiming"
          /\ \A v \in Workers : v # w => pc'[v] = pc[v] /\ held'[v] = held[v]
      BY <2>2 DEF Claim, TakeBatch, TypeOK
    <3>2. QED
      BY <3>1 DEF RepliesOnRecord, Holds
  <2>3. ASSUME NEW o \in Orders, Answer(w, o) PROVE RepliesOnRecord'
    <3>1. PICK result \in FinalResults :
            /\ Decide(AdapterOf[w], o, result)
            /\ reply' = [reply EXCEPT ![w] = [reply[w] EXCEPT ![o] = result]]
      BY <2>3 DEF Answer
    <3>2. /\ receipt'[AdapterOf[w]][o] = result
          /\ \A b \in Adapters, p \in Orders :
               receipt[b][p] # Pending => receipt'[b][p] = receipt[b][p]
      BY <1>a, <3>1, DecideKeeps
    <3>3. \A v \in Workers, p \in Orders :
            reply'[v][p] = IF v = w /\ p = o THEN result ELSE reply[v][p]
      BY <3>1 DEF TypeOK
    <3>4. QED
      BY <1>a, <2>3, <3>2, <3>3 DEF Answer, Calling, RepliesOnRecord, Holds
  <2>4. ASSUME NEW o \in Orders,
               RetryLater(w, o) \/ ApplyResult(w, o) \/ ApplyReplayed(w, o)
        PROVE  RepliesOnRecord'
    BY <2>4, FinishItemReplies DEF RetryLater, ApplyResult, ApplyReplayed
  <2>5. ASSUME NEW o \in Orders,
               RetryClaimLost(w, o) \/ ApplyClaimLost(w, o) \/ ApplyConflict(w, o)
        PROVE  RepliesOnRecord'
    BY <2>5, StopReplies DEF RetryClaimLost, ApplyClaimLost, ApplyConflict
  <2>6. QED
    BY <1>3, <2>1, <2>2, <2>3, <2>4, <2>5 DEF WorkerStep
<1>4. ASSUME NEW w \in Workers, Crash(w) PROVE RepliesOnRecord'
  BY <1>4, StopReplies DEF Crash
<1>5. CASE Tick
  BY <1>5 DEF Tick, RepliesOnRecord, Holds
<1>6. CASE UNCHANGED vars
  BY <1>6 DEF vars, RepliesOnRecord, Holds
<1>7. QED
  BY <1>1, <1>2, <1>3, <1>4, <1>5, <1>6 DEF Next

-----------------------------------------------------------------------------
(* Leases.  LeaseProtects is not inductive: that an unexpired claim is still *)
(* the row's claim needs that the row's lock and the worker's clock are of   *)
(* the same age, and that no two workers hold the same token of a row.       *)

HeldWhileCalling ==
  \A w \in Workers, o \in Orders : Holds(w, o) => pc[w] = "calling"

SameAge ==
  \A w \in Workers, o \in Orders :
    Holds(w, o) /\ OwnsClaim(w, o) => lock_age[o] = elapsed[w]

TokensDistinct ==
  \A v, w \in Workers, o \in Orders :
    Holds(v, o) /\ held[v][o] = held[w][o] => v = w

LeaseInv == HeldWhileCalling /\ SameAge /\ TokensDistinct /\ LeaseProtects

(* A step after which every worker holds at most what it held, with the same *)
(* clock, and after which each row is unchanged or held by nobody with a     *)
(* valid claim, keeps the invariant.                                        *)
LEMMA LeaseFrame ==
  ASSUME LeaseInv,
         \A v \in Workers, p \in Orders :
           Holds(v, p)' =>
             /\ Holds(v, p)
             /\ held'[v][p] = held[v][p]
             /\ pc'[v] = pc[v]
             /\ elapsed'[v] = elapsed[v]
             /\ \/ /\ published'[p] = published[p]
                   /\ claim_token'[p] = claim_token[p]
                   /\ lock_age'[p] = lock_age[p]
                \/ ~OwnsClaim(v, p) /\ ~OwnsClaim(v, p)'
  PROVE  LeaseInv'
<1>1. HeldWhileCalling'
  BY DEF LeaseInv, HeldWhileCalling
<1>2. SameAge'
  BY DEF LeaseInv, SameAge, OwnsClaim
<1>3. TokensDistinct'
  BY DEF LeaseInv, TokensDistinct, Holds
<1>4. LeaseProtects'
  BY DEF LeaseInv, LeaseProtects, OwnsClaim
<1>5. QED
  BY <1>1, <1>2, <1>3, <1>4 DEF LeaseInv

(* Claiming takes free rows and rows whose lease has run out, never the row *)
(* of an unexpired claim, and puts a token on them that nobody holds.       *)
LEMMA ClaimLease ==
  ASSUME TypeOK, LeaseInv, NEW w \in Workers, Claim(w)
  PROVE  LeaseInv'
<1>1. PICK skipped \in SUBSET (Claimable(w) \cap MaybeLocked(w)) :
        \E batch \in Batches(Claimable(w) \ skipped) :
        \E tokens \in [batch -> Tokens] :
          /\ \A o \in batch : FreshFor(o, tokens[o])
          /\ TakeBatch(w, batch, tokens)
  BY DEF Claim
<1>2. PICK batch \in Batches(Claimable(w) \ skipped) :
        \E tokens \in [batch -> Tokens] :
          /\ \A o \in batch : FreshFor(o, tokens[o])
          /\ TakeBatch(w, batch, tokens)
  BY <1>1
<1>3. PICK tokens \in [batch -> Tokens] :
          /\ \A o \in batch : FreshFor(o, tokens[o])
          /\ TakeBatch(w, batch, tokens)
  BY <1>2
<1>4. batch \subseteq Claimable(w) /\ batch \subseteq Orders
  BY DEF Batches, Claimable
<1>5. \A o \in Orders : ~Holds(w, o)
  BY DEF LeaseInv, HeldWhileCalling, Claim
<1>6. ASSUME NEW v \in Workers, NEW o \in Orders
      PROVE  /\ held'[v][o] = IF v # w THEN held[v][o]
                              ELSE IF o \in batch THEN tokens[o] ELSE NoToken
             /\ claim_token'[o] = IF o \in batch THEN tokens[o] ELSE claim_token[o]
             /\ lock_age'[o] = IF o \in batch THEN elapsed[w] ELSE lock_age[o]
             /\ published'[o] = published[o]
             /\ v # w => pc'[v] = pc[v] /\ elapsed'[v] = elapsed[v]
             /\ batch # {} => pc'[w] = "calling" /\ elapsed'[w] = elapsed[w]
  BY <1>3 DEF TakeBatch, Claim, TypeOK
<1>7. \A v \in Workers, o \in batch : tokens[o] # NoToken /\ held[v][o] # tokens[o]
  BY <1>3, OutboxAssumption DEF FreshFor
<1>8. HeldWhileCalling'
  BY <1>6, <1>4 DEF LeaseInv, HeldWhileCalling, Holds
<1>9. TokensDistinct'
  <2> SUFFICES ASSUME NEW v \in Workers, NEW u \in Workers, NEW o \in Orders,
                      Holds(v, o)', held'[v][o] = held'[u][o]
               PROVE  v = u
    BY DEF TokensDistinct
  <2>1. CASE v = w /\ u # w
    BY <2>1, <1>6, <1>7 DEF Holds
  <2>2. CASE v # w /\ u = w
    BY <2>2, <1>6, <1>7 DEF Holds
  <2>3. CASE v # w /\ u # w
    BY <2>3, <1>6 DEF Holds, LeaseInv, TokensDistinct
  <2>4. QED
    BY <2>1, <2>2, <2>3
<1>10. SameAge'
  <2> SUFFICES ASSUME NEW v \in Workers, NEW o \in Orders,
                      Holds(v, o)', OwnsClaim(v, o)'
               PROVE  lock_age'[o] = elapsed'[v]
    BY DEF SameAge
  <2>1. CASE v = w
    BY <2>1, <1>6 DEF Holds
  <2>2. CASE v # w
    <3>1. o \notin batch
      BY <2>2, <1>6, <1>7 DEF OwnsClaim
    <3>2. QED
      BY <2>2, <3>1, <1>6 DEF Holds, OwnsClaim, LeaseInv, SameAge
  <2>3. QED
    BY <2>1, <2>2
<1>11. LeaseProtects'
  <2> SUFFICES ASSUME NEW v \in Workers, NEW o \in Orders,
                      Holds(v, o)', elapsed'[v] < Lease
               PROVE  OwnsClaim(v, o)'
    BY DEF LeaseProtects
  <2>1. CASE v = w
    BY <2>1, <1>4, <1>6 DEF Holds, OwnsClaim, Claimable
  <2>2. CASE v # w
    <3>1. Holds(v, o) /\ elapsed[v] < Lease /\ held'[v][o] = held[v][o]
      BY <2>2, <1>6 DEF Holds
    <3>2. OwnsClaim(v, o) /\ lock_age[o] = elapsed[v]
      BY <3>1 DEF LeaseInv, LeaseProtects, SameAge
    <3>3. elapsed[w] \in Nat /\ elapsed[v] \in Nat /\ Lease \in Nat
      BY OutboxAssumption DEF TypeOK
    <3>4. o \notin batch
      BY <3>1, <3>2, <3>3, <1>4 DEF Claimable, OwnsClaim, Holds
    <3>5. QED
      BY <3>1, <3>2, <3>4, <1>6 DEF OwnsClaim
  <2>3. QED
    BY <2>1, <2>2
<1>12. QED
  BY <1>8, <1>9, <1>10, <1>11 DEF LeaseInv

(* Time passes at the same rate for a claim and for the worker that has it. *)
LEMMA TickLease ==
  ASSUME TypeOK, LeaseInv, Tick
  PROVE  LeaseInv'
<1>1. ASSUME NEW v \in Workers, NEW o \in Orders, Holds(v, o)
      PROVE  /\ pc[v] = "calling"
             /\ elapsed'[v] = elapsed[v] + 1
             /\ elapsed[v] \in Nat /\ elapsed[v] < MaxBatchTime
  BY <1>1 DEF LeaseInv, HeldWhileCalling, Tick, Busy, TypeOK
<1>2. held' = held /\ pc' = pc /\ published' = published /\ claim_token' = claim_token
  BY DEF Tick
<1>3. HeldWhileCalling' /\ TokensDistinct'
  BY <1>2 DEF LeaseInv, HeldWhileCalling, TokensDistinct, Holds
<1>4. SameAge'
  <2> SUFFICES ASSUME NEW v \in Workers, NEW o \in Orders,
                      Holds(v, o), OwnsClaim(v, o)
               PROVE  lock_age'[o] = elapsed'[v]
    BY <1>2 DEF SameAge, Holds, OwnsClaim
  <2>1. lock_age[o] = elapsed[v]
    BY DEF LeaseInv, SameAge
  <2>2. lock_age'[o] = Smaller(lock_age[o] + 1, AgeCap)
    BY DEF Tick, Holds, OwnsClaim
  <2>3. QED
    BY <1>1, <2>1, <2>2, AgeCapFact, OutboxAssumption DEF Smaller
<1>5. LeaseProtects'
  <2> SUFFICES ASSUME NEW v \in Workers, NEW o \in Orders,
                      Holds(v, o), elapsed'[v] < Lease
               PROVE  OwnsClaim(v, o)
    BY <1>2 DEF LeaseProtects, Holds, OwnsClaim
  <2>1. elapsed[v] < Lease
    BY <1>1, OutboxAssumption
  <2>2. QED
    BY <2>1 DEF LeaseInv, LeaseProtects
<1>6. QED
  BY <1>3, <1>4, <1>5 DEF LeaseInv

(* Releasing or publishing a row ends the one valid claim on it. *)
LEMMA ClearedLease ==
  ASSUME TypeOK, LeaseInv, NEW w \in Workers, NEW o \in Orders,
         pc[w] = "calling", Holds(w, o), OwnsClaim(w, o), FinishItem(w, o),
         claim_token' = [claim_token EXCEPT ![o] = NoToken],
         lock_age' = [lock_age EXCEPT ![o] = 0],
         \A p \in Orders \ {o} : published'[p] = published[p]
  PROVE  LeaseInv'
<1> SUFFICES ASSUME NEW v \in Workers, NEW p \in Orders, Holds(v, p)'
             PROVE  /\ Holds(v, p)
                    /\ held'[v][p] = held[v][p]
                    /\ pc'[v] = pc[v]
                    /\ elapsed'[v] = elapsed[v]
                    /\ \/ /\ published'[p] = published[p]
                          /\ claim_token'[p] = claim_token[p]
                          /\ lock_age'[p] = lock_age[p]
                       \/ ~OwnsClaim(v, p) /\ ~OwnsClaim(v, p)'
  BY LeaseFrame
<1>1. /\ Holds(v, p) /\ held'[v][p] = held[v][p]
      /\ pc'[v] = pc[v] /\ elapsed'[v] = elapsed[v]
      /\ v = w => p # o
  BY FinishItemHeld
<1>2. CASE p # o
  BY <1>1, <1>2 DEF TypeOK
<1>3. CASE p = o
  <2>1. v # w /\ claim_token'[p] = NoToken
    BY <1>1, <1>3 DEF TypeOK
  <2>2. ~OwnsClaim(v, p)
    BY <1>1, <1>3, <2>1 DEF LeaseInv, TokensDistinct, OwnsClaim
  <2>3. ~OwnsClaim(v, p)'
    BY <2>1 DEF OwnsClaim, Holds
  <2>4. QED
    BY <1>1, <2>2, <2>3
<1>4. QED
  BY <1>2, <1>3

LEMMA StepLease ==
  TypeOK /\ RepliesOnRecord /\ LeaseInv /\ [Next]_vars => LeaseInv'
<1> SUFFICES ASSUME TypeOK, RepliesOnRecord, LeaseInv, [Next]_vars PROVE LeaseInv'
  OBVIOUS
<1> USE DEF orderVars, outboxVars, adapterVars, workerVars
<1>1. ASSUME NEW o \in Orders, PlaceOrder(o) PROVE LeaseInv'
  BY <1>1 DEF PlaceOrder, LeaseInv, HeldWhileCalling, SameAge, TokensDistinct,
              LeaseProtects, OwnsClaim, Holds
<1>2. ASSUME NEW a \in Adapters, NEW o \in Orders, LateCommit(a, o) PROVE LeaseInv'
  BY <1>2 DEF LateCommit, LeaseInv, HeldWhileCalling, SameAge, TokensDistinct,
              LeaseProtects, OwnsClaim, Holds
<1>3. ASSUME NEW w \in Workers, WorkerStep(w) PROVE LeaseInv'
  <2>1. CASE Poll(w) \/ Restart(w)
    <3>1. /\ \A o \in Orders : ~Holds(w, o)
          /\ \A v \in Workers : v # w => pc'[v] = pc[v]
          /\ UNCHANGED <<held, elapsed, published, claim_token, lock_age>>
      BY <2>1 DEF Poll, Restart, LeaseInv, HeldWhileCalling, TypeOK
    <3>2. QED
      BY <3>1, LeaseFrame DEF Holds
  <2>2. CASE Claim(w)
    BY <2>2, ClaimLease
  <2>3. ASSUME NEW o \in Orders, Answer(w, o) PROVE LeaseInv'
    BY <2>3 DEF Answer, LeaseInv, HeldWhileCalling, SameAge, TokensDistinct,
                LeaseProtects, OwnsClaim, Holds
  <2>4. ASSUME NEW o \in Orders, RetryLater(w, o) PROVE LeaseInv'
    BY <2>4, ClearedLease DEF RetryLater, Release, Calling
  <2>5. ASSUME NEW o \in Orders, ApplyResult(w, o) PROVE LeaseInv'
    <3>1. \A p \in Orders \ {o} : published'[p] = published[p]
      BY <2>5 DEF ApplyResult, Record, TypeOK
    <3>2. Holds(w, o)
      BY <2>5 DEF ApplyResult, Answered, RepliesOnRecord
    <3>3. QED
      BY <2>5, <3>1, <3>2, ClearedLease DEF ApplyResult, Record, Answered
  <2>6. ASSUME NEW o \in Orders, ApplyReplayed(w, o) PROVE LeaseInv'
    BY <2>6, FinishItemHeld, LeaseFrame DEF ApplyReplayed, Answered
  <2>7. ASSUME NEW o \in Orders,
               RetryClaimLost(w, o) \/ ApplyClaimLost(w, o) \/ ApplyConflict(w, o)
        PROVE  LeaseInv'
    <3>1. Stop(w) /\ UNCHANGED outboxVars
      BY <2>7 DEF RetryClaimLost, ApplyClaimLost, ApplyConflict
    <3>2. QED
      BY <3>1, StopHeld, LeaseFrame
  <2>8. QED
    BY <1>3, <2>1, <2>2, <2>3, <2>4, <2>5, <2>6, <2>7 DEF WorkerStep
<1>4. ASSUME NEW w \in Workers, Crash(w) PROVE LeaseInv'
  <2>1. Stop(w) /\ UNCHANGED outboxVars
    BY <1>4 DEF Crash
  <2>2. QED
    BY <2>1, StopHeld, LeaseFrame
<1>5. CASE Tick
  BY <1>5, TickLease
<1>6. CASE UNCHANGED vars
  BY <1>6 DEF vars, LeaseInv, HeldWhileCalling, SameAge, TokensDistinct,
              LeaseProtects, OwnsClaim, Holds
<1>7. QED
  BY <1>1, <1>2, <1>3, <1>4, <1>5, <1>6 DEF Next

-----------------------------------------------------------------------------
(* Tables and decisions.                                                   *)

(* With a durable adapter a decision on record is the adapter's. *)
DecisionsOnRecord ==
  ~Fake => \A w \in Workers, o \in Orders :
    operation[o] # Pending => receipt[AdapterOf[w]][o] = operation[o]

(* Only ApplyResult changes the tables of an order that exists. *)
LEMMA StepTables == TypeOK /\ TablesAgree /\ [Next]_vars => TablesAgree'
<1> SUFFICES ASSUME TypeOK, TablesAgree, [Next]_vars PROVE TablesAgree'
  OBVIOUS
<1> USE DEF orderVars, outboxVars, adapterVars, workerVars
<1>1. ASSUME NEW o \in Orders, PlaceOrder(o) PROVE TablesAgree'
  BY <1>1 DEF PlaceOrder, TablesAgree, TypeOK
<1>2. ASSUME NEW w \in Workers, NEW o \in Orders, ApplyResult(w, o)
      PROVE  TablesAgree'
  <2>1. /\ reply[w][o] \in FinalResults
        /\ reply[w][o].status \in FinalStatus
    BY <1>2 DEF ApplyResult, Answered, TypeOK, FinalResults
  <2>2. \A p \in Orders :
          /\ operation'[p] = IF p = o THEN reply[w][o] ELSE operation[p]
          /\ published'[p] = IF p = o THEN TRUE ELSE published[p]
    BY <1>2 DEF ApplyResult, Record, TypeOK
  <2>3. \A p \in Orders :
          /\ p # o => order'[p] = order[p] /\ fulfillment'[p] = fulfillment[p]
          /\ reply[w][o].status = "COMMITTED" =>
               order'[o] = "CONFIRMED" /\ fulfillment'[o] = TRUE
          /\ reply[w][o].status # "COMMITTED" =>
               order'[o] = "REJECTED" /\ fulfillment'[o] = fulfillment[o]
    BY <1>2 DEF ApplyResult, Record, TypeOK
  <2>4. order[o] = "SUBMITTED" /\ operation[o] = Pending
    BY <1>2 DEF ApplyResult
  <2>5. QED
    BY <2>1, <2>2, <2>3, <2>4, PendingNotFinal DEF TablesAgree, Pending
<1>3. CASE UNCHANGED <<orderVars, published>>
  BY <1>3 DEF TablesAgree
<1>4. QED
  BY <1>1, <1>2, <1>3
  DEF Next, vars, WorkerStep, LateCommit, Poll, Claim, Restart, Answer, RetryLater,
      RetryClaimLost, ApplyReplayed, ApplyClaimLost, ApplyConflict, Crash, Tick

LEMMA StepDecisions ==
  /\ TypeOK /\ RepliesOnRecord /\ DecisionsOnRecord /\ [Next]_vars
  => DecisionsOnRecord'
<1> SUFFICES ASSUME TypeOK, RepliesOnRecord, DecisionsOnRecord, [Next]_vars, ~Fake,
                    NEW v \in Workers, NEW p \in Orders, operation'[p] # Pending
             PROVE  receipt'[AdapterOf[v]][p] = operation'[p]
  BY DEF DecisionsOnRecord
<1> USE DEF orderVars, outboxVars, adapterVars, workerVars
<1>a. \A w \in Workers : AdapterOf[w] \in Adapters /\ AdapterOf[w] = AdapterOf[v]
  BY OutboxAssumption
<1>1. ASSUME NEW w \in Workers, NEW o \in Orders, ApplyResult(w, o)
      PROVE  receipt'[AdapterOf[v]][p] = operation'[p]
  <2>1. operation'[p] = IF p = o THEN reply[w][o] ELSE operation[p]
    BY <1>1 DEF ApplyResult, Record, TypeOK
  <2>2. reply[w][o] = receipt[AdapterOf[v]][o] /\ UNCHANGED receipt
    BY <1>1, <1>a DEF ApplyResult, Answered, RepliesOnRecord
  <2>3. QED
    BY <2>1, <2>2 DEF DecisionsOnRecord
<1>2. CASE /\ UNCHANGED operation
           /\ \A b \in Adapters, q \in Orders :
                receipt[b][q] # Pending => receipt'[b][q] = receipt[b][q]
  BY <1>2, <1>a DEF DecisionsOnRecord
<1>3. ASSUME NEW w \in Workers, Stop(w) PROVE UNCHANGED receipt
  BY <1>3 DEF Stop
<1>4. ASSUME NEW a \in Adapters, NEW o \in Orders, LateCommit(a, o)
      PROVE  \A b \in Adapters, q \in Orders :
               receipt[b][q] # Pending => receipt'[b][q] = receipt[b][q]
  BY <1>4, DecideKeeps DEF LateCommit
<1>5. ASSUME NEW w \in Workers, NEW o \in Orders, Answer(w, o)
      PROVE  \A b \in Adapters, q \in Orders :
               receipt[b][q] # Pending => receipt'[b][q] = receipt[b][q]
  BY <1>5, <1>a, DecideKeeps DEF Answer
<1>6. ASSUME NEW w \in Workers, WorkerStep(w)
      PROVE  receipt'[AdapterOf[v]][p] = operation'[p]
  BY <1>1, <1>2, <1>3, <1>5, <1>6
  DEF WorkerStep, Poll, Claim, Restart, Answer, RetryLater, RetryClaimLost,
      ApplyReplayed, ApplyClaimLost, ApplyConflict
<1>7. ASSUME NEW w \in Workers, Crash(w)
      PROVE  receipt'[AdapterOf[v]][p] = operation'[p]
  BY <1>2, <1>3, <1>7 DEF Crash
<1>8. CASE Tick \/ UNCHANGED vars \/ \E o \in Orders : PlaceOrder(o)
  BY <1>2, <1>8 DEF Tick, vars, PlaceOrder
<1>9. ASSUME NEW a \in Adapters, NEW o \in Orders, LateCommit(a, o)
      PROVE  receipt'[AdapterOf[v]][p] = operation'[p]
  BY <1>2, <1>4, <1>9 DEF LateCommit
<1>10. QED
  BY <1>6, <1>7, <1>8, <1>9 DEF Next

-----------------------------------------------------------------------------
(* The stock.                                                              *)

(* The stock has gone down once for exactly the orders of which the one     *)
(* durable adapter keeps a COMMITTED result; requests given up on are on    *)
(* their way to that adapter; and there are no decisions without workers.  *)
DeductedOnRecord ==
  ~Fake =>
    /\ \A a \in Adapters, o \in Orders :
         <<a, o>> \in inFlight => \E w \in Workers : a = AdapterOf[w]
    /\ \A o \in Orders :
         deducted[o] = IF \E w \in Workers :
                             receipt[AdapterOf[w]][o].status = "COMMITTED"
                       THEN 1 ELSE 0
    /\ \A o \in Orders : operation[o] # Pending => Workers # {}

LEMMA DecideDeducts ==
  ASSUME TypeOK, DeductedOnRecord, NEW w \in Workers, NEW o \in Orders,
         NEW result \in FinalResults, Decide(AdapterOf[w], o, result)
  PROVE  DeductedOnRecord'
<1> SUFFICES ASSUME ~Fake PROVE DeductedOnRecord'
  BY DEF DeductedOnRecord
<1>a. /\ AdapterOf[w] \in Adapters
      /\ \A v \in Workers : AdapterOf[v] = AdapterOf[w]
  BY OutboxAssumption
<1>1. CASE receipt[AdapterOf[w]][o] # Pending
  BY <1>1 DEF Decide, adapterVars, DeductedOnRecord
<1>2. CASE receipt[AdapterOf[w]][o] = Pending
  <2>1. /\ receipt' = [receipt EXCEPT ![AdapterOf[w]] =
                         [receipt[AdapterOf[w]] EXCEPT ![o] = result]]
        /\ inFlight' \subseteq inFlight
        /\ Deduct(o, result)
    BY <1>2 DEF Decide
  <2>2. \A v \in Workers, p \in Orders :
          receipt'[AdapterOf[v]][p] = IF p = o THEN result ELSE receipt[AdapterOf[v]][p]
    BY <1>a, <2>1 DEF TypeOK
  <2>3. deducted[o] = 0
    BY <1>a, <1>2 DEF DeductedOnRecord, Pending
  <2>4. \A p \in Orders :
          deducted'[p] = IF p = o
                         THEN IF result.status = "COMMITTED" THEN 1 ELSE 0
                         ELSE deducted[p]
    BY <2>1, <2>3 DEF Deduct, TypeOK
  <2>5. ASSUME NEW p \in Orders
        PROVE  deducted'[p] = IF \E v \in Workers :
                                    receipt'[AdapterOf[v]][p].status = "COMMITTED"
                              THEN 1 ELSE 0
    BY <2>2, <2>4 DEF DeductedOnRecord
  <2>6. QED
    BY <2>1, <2>5 DEF DeductedOnRecord
<1>3. QED
  BY <1>1, <1>2

LEMMA StepDeducted ==
  TypeOK /\ DeductedOnRecord /\ [Next]_vars => DeductedOnRecord'
<1> SUFFICES ASSUME TypeOK, DeductedOnRecord, [Next]_vars PROVE DeductedOnRecord'
  OBVIOUS
<1> USE DEF orderVars, outboxVars, adapterVars, workerVars
<1>1. ASSUME NEW w \in Workers, NEW o \in Orders, Answer(w, o)
      PROVE  DeductedOnRecord'
  BY <1>1, DecideDeducts DEF Answer
<1>2. ASSUME NEW a \in Adapters, NEW o \in Orders, LateCommit(a, o), ~Fake
      PROVE  DeductedOnRecord'
  BY <1>2, DecideDeducts DEF LateCommit, DeductedOnRecord
<1>3. ASSUME NEW w \in Workers, NEW o \in Orders, Abandon(w, o),
             UNCHANGED <<receipt, deducted>>
      PROVE  DeductedOnRecord'
  BY <1>3 DEF Abandon, DeductedOnRecord
<1>4. ASSUME NEW w \in Workers, Stop(w), ~Fake
      PROVE  UNCHANGED receipt
  BY <1>4 DEF Stop
<1>5. CASE /\ UNCHANGED <<receipt, deducted, inFlight>>
           /\ Workers # {} \/ UNCHANGED operation
  BY <1>5 DEF DeductedOnRecord
<1>6. CASE Fake
  BY <1>6 DEF DeductedOnRecord
<1>7. ASSUME NEW w \in Workers, WorkerStep(w), ~Fake PROVE DeductedOnRecord'
  BY <1>1, <1>3, <1>4, <1>5, <1>7
  DEF WorkerStep, Poll, Claim, Restart, RetryLater, RetryClaimLost, ApplyResult,
      ApplyReplayed, ApplyClaimLost, ApplyConflict
<1>8. ASSUME NEW w \in Workers, Crash(w), ~Fake PROVE DeductedOnRecord'
  BY <1>3, <1>4, <1>5, <1>8 DEF Crash
<1>9. QED
  BY <1>2, <1>5, <1>6, <1>7, <1>8 DEF Next, vars, PlaceOrder, Tick

-----------------------------------------------------------------------------
(* The theorems.                                                           *)

IInv ==
  /\ TypeOK
  /\ RepliesOnRecord
  /\ LeaseInv
  /\ TablesAgree
  /\ DecisionsOnRecord
  /\ DeductedOnRecord

LEMMA InitIInv == Init => IInv
<1> SUFFICES ASSUME Init PROVE IInv
  OBVIOUS
<1>1. TypeOK
  BY InitType
<1>2. \A w \in Workers, o \in Orders : ~Holds(w, o) /\ reply[w][o] = Pending
  BY DEF Init, Holds, NothingHeld, NoReply
<1>3. RepliesOnRecord /\ LeaseInv
  BY <1>2 DEF RepliesOnRecord, LeaseInv, HeldWhileCalling, SameAge, TokensDistinct,
              LeaseProtects
<1>4. TablesAgree /\ DecisionsOnRecord
  BY DEF Init, TablesAgree, DecisionsOnRecord, Pending
<1>5. DeductedOnRecord
  BY OutboxAssumption DEF Init, DeductedOnRecord, NoReply, Pending
<1>6. QED
  BY <1>1, <1>3, <1>4, <1>5 DEF IInv

THEOREM Invariance == Spec => []IInv
<1>1. IInv /\ [Next]_vars => IInv'
  BY StepType, StepReplies, StepLease, StepTables, StepDecisions,
     StepDeducted DEF IInv
<1>2. QED
  BY InitIInv, <1>1, PTL DEF Spec

(* An unexpired claim is never lost, for every lease, batch time and number *)
(* of workers: ErrClaimLost needs a batch slower than the lease.            *)
THEOREM LeasesHold == Spec => []LeaseProtects
<1>1. IInv => LeaseProtects
  BY DEF IInv, LeaseInv
<1>2. QED
  BY <1>1, Invariance, PTL

(* The order, operation, outbox and fulfillment tables agree. *)
THEOREM TablesStayInAgreement == Spec => []TablesAgree
<1>1. IInv => TablesAgree
  BY DEF IInv
<1>2. QED
  BY <1>1, Invariance, PTL

(* With a durable adapter there is one decision per order. *)
THEOREM OneDecisionPerOrder == Spec => []OneDecision
<1>1. IInv => OneDecision
  BY OutboxAssumption DEF IInv, OneDecision, RepliesOnRecord, DecisionsOnRecord
<1>2. QED
  BY <1>1, Invariance, PTL

(* Between the databases of the two services: a confirmed order has been    *)
(* taken from the stock once, a rejected one never, and no order twice,    *)
(* whatever was lost, late or repeated on the way.                         *)
THEOREM SoldExactlyOnce == Spec => []SoldOnce
<1>1. IInv => SoldOnce
  <2> SUFFICES ASSUME IInv, ~Fake, NEW o \in Orders
               PROVE  /\ deducted[o] <= 1
                      /\ order[o] = "CONFIRMED" => deducted[o] = 1
                      /\ order[o] = "REJECTED" => deducted[o] = 0
    BY DEF SoldOnce
  <2>1. \A w \in Workers :
          operation[o] # Pending => receipt[AdapterOf[w]][o] = operation[o]
    BY DEF IInv, DecisionsOnRecord
  <2>2. order[o] \in {"CONFIRMED", "REJECTED"} => operation[o] # Pending
    BY DEF IInv, TablesAgree
  <2>3. order[o] = "CONFIRMED" <=> operation[o].status = "COMMITTED"
    BY DEF IInv, TablesAgree
  <2>4. operation[o] # Pending => Workers # {}
    BY DEF IInv, DeductedOnRecord
  <2>5. deducted[o] = IF \E w \in Workers :
                           receipt[AdapterOf[w]][o].status = "COMMITTED"
                      THEN 1 ELSE 0
    BY DEF IInv, DeductedOnRecord
  <2>6. QED
    BY <2>1, <2>2, <2>3, <2>4, <2>5
<1>2. QED
  BY <1>1, Invariance, PTL

(* A decision on record never changes, whatever the adapters answer later. *)
THEOREM DecisionsAreFinal == Spec => DecisionFinal
<1> DEFINE Kept ==
      \A o \in Orders : operation[o] # Pending =>
        /\ operation'[o] = operation[o]
        /\ order'[o] = order[o]
        /\ fulfillment'[o] = fulfillment[o]
<1>1. ASSUME IInv, [Next]_vars PROVE Kept
  <2> USE DEF orderVars, outboxVars, adapterVars, workerVars
  <2>1. ASSUME NEW w \in Workers, NEW p \in Orders, ApplyResult(w, p) PROVE Kept
    BY <1>1, <2>1 DEF IInv, ApplyResult, Record, TypeOK
  <2>2. ASSUME NEW p \in Orders, PlaceOrder(p) PROVE Kept
    BY <1>1, <2>2 DEF IInv, PlaceOrder, TypeOK, TablesAgree
  <2>3. CASE UNCHANGED orderVars
    BY <2>3
  <2>4. QED
    BY <1>1, <2>1, <2>2, <2>3
    DEF Next, vars, WorkerStep, LateCommit, Poll, Claim, Restart, Answer, RetryLater,
        RetryClaimLost, ApplyReplayed, ApplyClaimLost, ApplyConflict, Crash, Tick
<1>2. IInv /\ [Next]_vars => [Kept]_vars
  BY <1>1
<1>3. QED
  BY <1>2, Invariance, PTL DEF Spec, DecisionFinal

-----------------------------------------------------------------------------
(* Refinement.                                                             *)

(* Claims and abandoned requests belong to orders that exist. *)
WorkHasOrder ==
  /\ \A w \in Workers, o \in Orders : Holds(w, o) => order[o] # "NONE"
  /\ \A a \in Adapters, o \in Orders : <<a, o>> \in inFlight => order[o] # "NONE"

LEMMA AbandonOrders ==
  ASSUME TypeOK, WorkHasOrder, UNCHANGED order,
         NEW w \in Workers, NEW o \in Orders, Holds(w, o), Abandon(w, o),
         NEW a \in Adapters, NEW p \in Orders, <<a, p>> \in inFlight'
  PROVE  order'[p] # "NONE"
BY DEF WorkHasOrder, Abandon

LEMMA DecideOrders ==
  ASSUME TypeOK, NEW a \in Adapters, NEW o \in Orders,
         NEW result \in FinalResults, Decide(a, o, result)
  PROVE  inFlight' \subseteq inFlight
BY DEF Decide, adapterVars

LEMMA StepWork == IInv /\ WorkHasOrder /\ [Next]_vars => WorkHasOrder'
<1> SUFFICES ASSUME IInv, WorkHasOrder, [Next]_vars PROVE WorkHasOrder'
  OBVIOUS
<1> USE DEF orderVars, outboxVars, adapterVars, workerVars
<1>a. TypeOK
  BY DEF IInv
<1>b. \A w \in Workers : AdapterOf[w] \in Adapters
  BY OutboxAssumption
<1>1. \A o \in Orders : order[o] # "NONE" => order'[o] # "NONE"
  <2>1. ASSUME NEW w \in Workers, NEW p \in Orders, ApplyResult(w, p)
        PROVE  \A o \in Orders : order[o] # "NONE" => order'[o] # "NONE"
    BY <1>a, <2>1 DEF ApplyResult, Record, TypeOK
  <2>2. ASSUME NEW p \in Orders, PlaceOrder(p)
        PROVE  \A o \in Orders : order[o] # "NONE" => order'[o] # "NONE"
    BY <1>a, <2>2 DEF PlaceOrder, TypeOK
  <2>3. CASE UNCHANGED order
    BY <2>3
  <2>4. QED
    BY <2>1, <2>2, <2>3
    DEF Next, vars, WorkerStep, LateCommit, Poll, Claim, Restart, Answer, RetryLater,
        RetryClaimLost, ApplyReplayed, ApplyClaimLost, ApplyConflict, Crash, Tick
<1>2. ASSUME NEW w \in Workers, NEW o \in Orders, Holds(w, o)' PROVE order'[o] # "NONE"
  <2>1. CASE Holds(w, o)
    BY <1>1, <2>1 DEF WorkHasOrder
  <2>2. ASSUME NEW v \in Workers, Claim(v) PROVE order'[o] # "NONE"
    <3>1. PICK skipped \in SUBSET (Claimable(v) \cap MaybeLocked(v)) :
            \E batch \in Batches(Claimable(v) \ skipped) :
            \E tokens \in [batch -> Tokens] : TakeBatch(v, batch, tokens)
      BY <2>2 DEF Claim
    <3>2. PICK batch \in Batches(Claimable(v) \ skipped) :
            \E tokens \in [batch -> Tokens] : TakeBatch(v, batch, tokens)
      BY <3>1
    <3>3. o \in batch \/ Holds(w, o)
      BY <1>a, <1>2, <3>2 DEF TakeBatch, TypeOK, Holds
    <3>4. batch \subseteq Claimable(v)
      BY DEF Batches
    <3>5. QED
      BY <1>1, <3>3, <3>4 DEF Claimable, WorkHasOrder
  <2>3. ASSUME NEW v \in Workers, NEW p \in Orders, FinishItem(v, p)
        PROVE  Holds(w, o)
    BY <1>a, <1>2, <2>3 DEF FinishItem, TypeOK, Holds
  <2>4. ASSUME NEW v \in Workers, Stop(v) PROVE Holds(w, o)
    BY <1>a, <1>2, <2>4, StopHeld
  <2>5. CASE UNCHANGED held
    BY <1>2, <2>1, <2>5 DEF Holds
  <2>6. QED
    BY <2>1, <2>2, <2>3, <2>4, <2>5
    DEF Next, vars, WorkerStep, PlaceOrder, LateCommit, Poll, Restart, Answer,
        RetryLater, RetryClaimLost, ApplyResult, ApplyReplayed, ApplyClaimLost,
        ApplyConflict, Crash, Tick
<1>3. ASSUME NEW a \in Adapters, NEW o \in Orders, <<a, o>> \in inFlight'
      PROVE  order'[o] # "NONE"
  <2>1. CASE <<a, o>> \in inFlight
    BY <1>1, <2>1 DEF WorkHasOrder
  <2>2. ASSUME NEW w \in Workers, NEW p \in Orders,
               Calling(w, p), Abandon(w, p), UNCHANGED order
        PROVE  order'[o] # "NONE"
    BY <1>a, <1>3, <2>2, AbandonOrders DEF Calling
  <2>3. ASSUME NEW b \in Adapters, NEW p \in Orders, NEW result \in FinalResults,
               Decide(b, p, result)
        PROVE  <<a, o>> \in inFlight
    BY <1>a, <1>3, <2>3, DecideOrders
  <2>4. CASE UNCHANGED inFlight
    BY <1>3, <2>1, <2>4
  <2>5. ASSUME NEW w \in Workers, Crash(w) PROVE order'[o] # "NONE"
    BY <2>2, <2>4, <2>5 DEF Crash
  <2>6. ASSUME NEW w \in Workers, NEW p \in Orders, Answer(w, p)
        PROVE  <<a, o>> \in inFlight
    BY <1>b, <2>3, <2>6 DEF Answer
  <2>7. QED
    BY <2>1, <2>2, <2>3, <2>4, <2>5, <2>6
    DEF Next, vars, WorkerStep, PlaceOrder, LateCommit, Poll, Claim, Restart,
        RetryLater, RetryClaimLost, ApplyResult, ApplyReplayed, ApplyClaimLost,
        ApplyConflict, Tick
<1>4. QED
  BY <1>2, <1>3 DEF WorkHasOrder

LEMMA DecideRefines ==
  ASSUME TypeOK, NEW a \in Adapters, NEW o \in Orders, order[o] # "NONE",
         NEW result \in FinalResults, Decide(a, o, result), UNCHANGED orderVars
  PROVE  [Saga!Next]_(Saga!vars)
<1>1. CASE receipt[a][o] = Pending
  <2>1. receipt' = [receipt EXCEPT ![a] = [receipt[a] EXCEPT ![o] = result]]
    BY <1>1 DEF Decide
  <2>2. Saga!Decide(a, o)
    BY <1>1, <2>1 DEF Saga!Decide, orderVars
  <2>3. QED
    BY <2>2 DEF Saga!Next
<1>2. CASE receipt[a][o] # Pending
  BY <1>2 DEF Decide, adapterVars, orderVars, Saga!vars
<1>3. QED
  BY <1>1, <1>2

LEMMA StopRefines ==
  ASSUME NEW w \in Workers, Stop(w), UNCHANGED orderVars
  PROVE  [Saga!Next]_(Saga!vars)
<1>1. CASE Fake
  <2>1. Saga!Forget(AdapterOf[w])
    BY <1>1 DEF Stop, Saga!Forget, orderVars, NoReply
  <2>2. QED
    BY <2>1, OutboxAssumption DEF Saga!Next
<1>2. CASE ~Fake
  BY <1>2 DEF Stop, orderVars, Saga!vars
<1>3. QED
  BY <1>1, <1>2

(* Every step of the workers is a step of the saga or leaves it alone. *)
LEMMA StepRefines == IInv /\ WorkHasOrder /\ [Next]_vars => [Saga!Next]_(Saga!vars)
<1> SUFFICES ASSUME IInv, WorkHasOrder, [Next]_vars PROVE [Saga!Next]_(Saga!vars)
  OBVIOUS
<1> USE DEF orderVars, outboxVars, adapterVars, workerVars
<1>a. TypeOK
  BY DEF IInv
<1>b. \A w \in Workers : AdapterOf[w] \in Adapters
  BY OutboxAssumption
<1>1. ASSUME NEW o \in Orders, PlaceOrder(o) PROVE Saga!Submit(o)
  BY <1>1 DEF PlaceOrder, Saga!Submit
<1>2. ASSUME NEW a \in Adapters, NEW o \in Orders, LateCommit(a, o)
      PROVE  [Saga!Next]_(Saga!vars)
  BY <1>a, <1>2, DecideRefines DEF LateCommit, WorkHasOrder
<1>3. ASSUME NEW w \in Workers, NEW o \in Orders, Answer(w, o)
      PROVE  [Saga!Next]_(Saga!vars)
  BY <1>a, <1>b, <1>3, DecideRefines DEF Answer, Calling, WorkHasOrder
<1>4. ASSUME NEW w \in Workers, NEW o \in Orders, ApplyResult(w, o)
      PROVE  [Saga!Next]_(Saga!vars)
  <2>1. reply[w][o] # Pending /\ reply[w][o] = receipt[AdapterOf[w]][o]
    BY <1>4 DEF IInv, RepliesOnRecord, ApplyResult, Answered
  <2>2. Saga!Settle(AdapterOf[w], o)
    BY <1>4, <2>1 DEF ApplyResult, Record, Saga!Settle
  <2>3. QED
    BY <1>b, <2>2 DEF Saga!Next
<1>5. ASSUME NEW w \in Workers, Stop(w), UNCHANGED orderVars
      PROVE  [Saga!Next]_(Saga!vars)
  BY <1>5, StopRefines
<1>6. CASE UNCHANGED <<orderVars, receipt>>
  BY <1>6 DEF Saga!vars
<1>7. ASSUME NEW o \in Orders, PlaceOrder(o) PROVE Saga!Next
  BY <1>1, <1>7 DEF Saga!Next
<1>8. QED
  BY <1>2, <1>3, <1>4, <1>5, <1>6, <1>7
  DEF Next, vars, WorkerStep, Poll, Claim, Restart, RetryLater, RetryClaimLost,
      ApplyReplayed, ApplyClaimLost, ApplyConflict, Crash, Tick

(* The outbox workers implement the order saga. *)
THEOREM ImplementsSaga == Spec => SagaSpec
<1>1. Init => Saga!Init
  BY DEF Init, Saga!Init, NoReply
<1>2. Init => WorkHasOrder
  BY DEF Init, WorkHasOrder, Holds, NothingHeld
<1>3. Spec => []WorkHasOrder
  BY <1>2, StepWork, Invariance, PTL DEF Spec
<1>4. QED
  BY <1>1, <1>3, StepRefines, Invariance, PTL DEF Spec, SagaSpec, Saga!Spec

=============================================================================
