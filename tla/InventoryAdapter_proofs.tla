------------------------ MODULE InventoryAdapter_proofs ------------------------
(***************************************************************************)
(* Proofs about InventoryAdapter for every number of calls, operations and *)
(* items, every recipe and every number of tries.                          *)
(***************************************************************************)
EXTENDS InventoryAdapter, FiniteSetTheorems, FunctionTheorems, TLAPS

-----------------------------------------------------------------------------
(* What an order makes of the stock                                        *)

IsOrder(order) ==
  /\ DOMAIN order \subseteq Items
  /\ \A p \in DOMAIN order : order[p] \in Nat \ {0}

(* The parts of a product are items, and a part is needed in a number. *)
LEMMA NeedType ==
  ASSUME NEW order, IsOrder(order), NEW p \in DOMAIN order
  PROVE  /\ Parts(p) \subseteq Items
         /\ \A i \in Parts(p) : Need(p, order[p], i) \in Int
<1>1. p \in Items /\ order[p] \in Nat
  BY DEF IsOrder
<1>2. Parts(p) \subseteq Items
  BY <1>1, ItemsAssumption DEF Parts
<1>3. ASSUME NEW i \in Parts(p)
      PROVE  Need(p, order[p], i) \in Int
  <2>1. CASE Kind[p] = "physical"
    BY <2>1, <1>1 DEF Need
  <2>2. CASE Kind[p] # "physical"
    <3>1. Kind[p] = "composite"
      BY <2>2, <1>1, <1>3, ItemsAssumption DEF Parts
    <3>2. Recipe[p][i] \in Nat /\ Scale \in Nat /\ Scale > 0
      BY <3>1, <1>1, <1>3, ItemsAssumption DEF Parts
    <3>3. Recipe[p][i] * order[p] \in Nat
      BY <3>2, <1>1
    <3>4. Ceiling(Recipe[p][i] * order[p]) \in Int
      BY <3>2, <3>3 DEF Ceiling
    <3>5. QED
      BY <3>4, <2>2 DEF Need
  <2>3. QED
    BY <2>1, <2>2
<1>4. QED
  BY <1>2, <1>3

(* An order takes a finite number of units of an item. *)
LEMMA DemandType ==
  ASSUME NEW order, IsOrder(order), NEW on, NEW i
  PROVE  /\ IsFiniteSet(Units(order, on, i))
         /\ Demand(order, on, i) \in Nat
<1> DEFINE P == {x \in Sold(order, on) : i \in Parts(x)}
           T(p) == {p} \X (1 .. Need(p, order[p], i))
           F == [p \in P |-> T(p)]
           U == {T(p) : p \in P}
<1>1. P \subseteq Items /\ P \subseteq DOMAIN order
  BY DEF IsOrder, Sold
<1>2. IsFiniteSet(P)
  BY <1>1, ItemsAssumption, FS_Subset
<1>3. F \in Surjection(P, U)
  <2> HIDE DEF T, P
  <2> QED
    BY DEF Surjection
<1>4. IsFiniteSet(U)
  BY <1>2, <1>3, FS_Surjection
<1>5. ASSUME NEW p \in P
      PROVE  IsFiniteSet(T(p))
  <2>1. Need(p, order[p], i) \in Int
    BY <1>1, NeedType
  <2>2. IsFiniteSet(1 .. Need(p, order[p], i))
    BY <2>1, FS_Interval
  <2>3. IsFiniteSet({p})
    BY FS_Singleton
  <2>4. QED
    BY <2>2, <2>3, FS_Product
<1>6. IsFiniteSet(UNION U)
  <2>1. \A x \in U : IsFiniteSet(x)
    BY <1>5
  <2>2. QED
    BY <2>1, <1>4, FS_UNION
<1>7. UNION U = Units(order, on, i)
  BY DEF Units
<1>8. QED
  BY <1>6, <1>7, FS_CardinalityType DEF Demand

(* What an order takes something of is part of a product that is on sale. *)
LEMMA DemandHasLine ==
  ASSUME NEW order, IsOrder(order), NEW on, NEW i,
         Demand(order, on, i) # 0
  PROVE  \E p \in Sold(order, on) : i \in Parts(p)
<1>1. Units(order, on, i) # {}
  BY FS_EmptySet DEF Demand
<1>2. QED
  BY <1>1 DEF Units

(* A committed order finds what it takes. *)
LEMMA CommittedIsCovered ==
  ASSUME NEW order, IsOrder(order), NEW on, NEW level, NEW i,
         Status(order, on, level) = "COMMITTED",
         Demand(order, on, i) # 0
  PROVE  level[i] >= Demand(order, on, i)
<1>1. PICK p \in Sold(order, on) : i \in Parts(p)
  BY DemandHasLine
<1>2. p \in DOMAIN order /\ p \notin Unavailable(order, on, level)
  BY <1>1 DEF Status, Sold
<1>3. Covered(order, on, level, i)
  BY <1>1, <1>2 DEF Unavailable
<1>4. QED
  BY <1>3 DEF Covered

(* Nothing but the relevant items has a say in the decision. *)
LEMMA DecisionDependsOnRelevant ==
  ASSUME NEW order, NEW on, NEW on2, NEW level, NEW level2,
         \A i \in Relevant(order, on) : on2[i] = on[i] /\ level2[i] = level[i]
  PROVE  /\ Sold(order, on2) = Sold(order, on)
         /\ \A i : Demand(order, on2, i) = Demand(order, on, i)
         /\ Unavailable(order, on2, level2) = Unavailable(order, on, level)
         /\ Status(order, on2, level2) = Status(order, on, level)
         /\ UnavailableItems(order, on2, level2) = UnavailableItems(order, on, level)
<1>1. \A p \in DOMAIN order : on2[p] = on[p] /\ level2[p] = level[p]
  BY DEF Relevant
<1>2. Sold(order, on2) = Sold(order, on)
  BY <1>1 DEF Sold
<1>3. \A i : Demand(order, on2, i) = Demand(order, on, i)
  BY <1>2 DEF Demand, Units
<1>4. ASSUME NEW p \in DOMAIN order, on[p], NEW i \in Parts(p)
      PROVE  Covered(order, on2, level2, i) <=> Covered(order, on, level, i)
  <2>1. i \in Relevant(order, on)
    BY <1>4 DEF Relevant, Sold
  <2>2. QED
    BY <2>1, <1>3 DEF Covered
<1>5. ASSUME NEW p \in DOMAIN order
      PROVE  p \in Unavailable(order, on2, level2)
               <=> p \in Unavailable(order, on, level)
  <2>1. CASE on[p]
    BY <2>1, <1>1, <1>4 DEF Unavailable
  <2>2. CASE ~ on[p]
    BY <2>2, <1>1 DEF Unavailable
  <2>3. QED
    BY <2>1, <2>2
<1>6. Unavailable(order, on2, level2) = Unavailable(order, on, level)
  BY <1>5 DEF Unavailable
<1>7. \A p \in DOMAIN order :
        AvailableQuantity(p, on2, level2) = AvailableQuantity(p, on, level)
  BY <1>1 DEF AvailableQuantity
<1>8. \A p \in Unavailable(order, on, level) : p \in DOMAIN order
  BY DEF Unavailable
<1>9. UnavailableItems(order, on2, level2) = UnavailableItems(order, on, level)
  BY <1>6, <1>7, <1>8 DEF UnavailableItems
<1>10. QED
  BY <1>2, <1>3, <1>6, <1>9 DEF Status

-----------------------------------------------------------------------------
(* The inductive invariant                                                 *)

(* A call has a command, an answer and locks only while it should. *)
Phases ==
  \A c \in Calls :
    /\ At(c, "idle") <=> command[c] = NoCommand
    /\ ~ At(c, "done") => answer[c] = NoAnswer
    /\ ~ Inside(c) => wanted[c] = {} /\ locked[c] = {}

(* Rows, operations and events are locked by one transaction at a time. *)
Exclusive ==
  \A c, d \in Calls : c # d =>
    /\ locked[c] \cap locked[d] = {}
    /\ Inside(c) /\ Inside(d) => Operation(c) # Operation(d)
    /\ At(c, "commit") /\ At(d, "commit") => command[c].event # command[d].event

(* No row is locked that was missed, and what is to be locked contains what *)
(* the decision depends on, except for the parts of a product that was      *)
(* missed and hence cannot be locked.                                      *)
NothingStale ==
  \A c \in Calls : Inside(c) =>
    /\ locked[c] \cap missed[c] = {}
    /\ DOMAIN Order(c) \subseteq wanted[c]
    /\ \A p \in DOMAIN Order(c) :
         p \notin missed[c] /\ active[p] => Parts(p) \subseteq wanted[c]

(* A decision about to be committed is that of the current stock, and is    *)
(* the first for its operation and event.                                  *)
Ready ==
  \A c \in Calls : At(c, "commit") =>
    /\ wanted[c] \subseteq locked[c]
    /\ decision[c] = Result(c)
    /\ \A r \in receipts : /\ r.command.operation # Operation(c)
                           /\ r.command.event # command[c].event

IInv ==
  /\ TypeOK
  /\ NoOversell
  /\ OneResult
  /\ RepeatsAgree
  /\ Phases
  /\ Exclusive
  /\ NothingStale
  /\ Ready

-----------------------------------------------------------------------------
(* The steps preserve it                                                   *)

LEMMA CommandType ==
  ASSUME TypeOK, Phases, NEW c \in Calls, ~ At(c, "idle")
  PROVE  /\ command[c] \in Commands
         /\ Operation(c) \in Operations
         /\ IsOrder(Order(c))
BY AdapterAssumption DEF TypeOK, Phases, Operation, Order, IsOrder

LEMMA ResultType ==
  ASSUME TypeOK, NEW c \in Calls, IsOrder(Order(c))
  PROVE  Result(c) \in Results
<1>1. Unavailable(Order(c), active, stock) \subseteq Items
  BY DEF Unavailable, IsOrder
<1>2. \A p \in Items : AvailableQuantity(p, active, stock) \in Nat
  BY DEF AvailableQuantity, TypeOK
<1>3. UnavailableItems(Order(c), active, stock)
        \in SUBSET [product : Items, available : Nat]
  BY <1>1, <1>2 DEF UnavailableItems
<1>4. Status(Order(c), active, stock) \in {"COMMITTED", "ITEMS_UNAVAILABLE"}
  BY DEF Status
<1>5. QED
  BY <1>3, <1>4 DEF Result, Results

(* A failure is no result, and no call is answered before it is answered. *)
LEMMA AnswerKinds ==
  /\ NoAnswer \notin Results
  /\ \A x \in {"CONFLICT", "UNAVAILABLE"} :
       /\ Failure(x) \in Answers
       /\ Failure(x) \notin Results
       /\ Failure(x) # NoAnswer
  /\ Failure("CONFLICT") # Failure("UNAVAILABLE")
  /\ \A x \in Results : x \in Answers /\ x # Failure("CONFLICT")
<1>1. \A x \in Results : x.status \in {"COMMITTED", "ITEMS_UNAVAILABLE"}
  BY DEF Results
<1>2. \A x : Failure(x).status = x
  BY DEF Failure
<1>3. QED
  BY <1>1, <1>2, AdapterAssumption DEF Answers

(* All the rows a decision rests on are locked when it is committed. *)
LEMMA RelevantLocked ==
  ASSUME IInv, NEW c \in Calls, At(c, "commit")
  PROVE  Relevant(Order(c), active) \subseteq locked[c]
<1>1. /\ wanted[c] \subseteq locked[c]
      /\ locked[c] \cap missed[c] = {}
      /\ DOMAIN Order(c) \subseteq wanted[c]
      /\ \A p \in DOMAIN Order(c) :
           p \notin missed[c] /\ active[p] => Parts(p) \subseteq wanted[c]
  BY DEF IInv, Ready, NothingStale, Inside, At
<1>2. \A p \in Sold(Order(c), active) : Parts(p) \subseteq locked[c]
  BY <1>1 DEF Sold
<1>3. QED
  BY <1>1, <1>2 DEF Relevant

(* What a transaction takes is locked by it, and there. *)
LEMMA TakenLocked ==
  ASSUME IInv, NEW c \in Calls, At(c, "commit"), NEW i \in Taken(c)
  PROVE  /\ i \in locked[c]
         /\ Demand(Order(c), active, i) \in Nat
         /\ stock[i] >= Demand(Order(c), active, i)
<1>1. IsOrder(Order(c)) /\ decision[c] = Result(c)
  BY CommandType DEF IInv, Ready, At
<1>2. /\ Status(Order(c), active, stock) = "COMMITTED"
      /\ i \in Items
      /\ Demand(Order(c), active, i) > 0
  BY <1>1 DEF Taken, Result
<1>3. Demand(Order(c), active, i) \in Nat
  BY <1>1, DemandType
<1>4. PICK p \in Sold(Order(c), active) : i \in Parts(p)
  BY <1>1, <1>2, <1>3, DemandHasLine
<1>5. i \in locked[c]
  BY <1>4, RelevantLocked DEF Relevant
<1>6. stock[i] >= Demand(Order(c), active, i)
  BY <1>1, <1>2, <1>3, CommittedIsCovered
<1>7. QED
  BY <1>3, <1>5, <1>6

LEMMA InitIInv == Init => IInv
<1> SUFFICES ASSUME Init PROVE IInv
  OBVIOUS
<1>0. Levels \subseteq Nat /\ 1 \in 1 .. MaxTries
  BY AdapterAssumption
<1>1. TypeOK
  <2>1. stock \in [Items -> Int]
    <3>1. stock \in [Items -> Levels]
      BY DEF Init
    <3>2. \A n \in Levels : n \in Int
      BY <1>0
    <3>3. QED
      BY <3>1, <3>2
  <2>2. tries \in [Calls -> 1 .. MaxTries]
    BY <1>0 DEF Init
  <2>3. QED
    BY <2>1, <2>2 DEF Init, TypeOK
<1>2. NoOversell
  <2>1. \A i \in Items : stock[i] \in Nat
    BY <1>0 DEF Init
  <2>2. QED
    BY <2>1 DEF NoOversell
<1>3. OneResult /\ RepeatsAgree
  BY AnswerKinds DEF Init, OneResult, RepeatsAgree, Decided
<1>4. Phases /\ Exclusive
  BY DEF Init, Phases, Exclusive, At, Inside
<1>5. NothingStale /\ Ready
  BY DEF Init, NothingStale, Ready, At, Inside
<1>6. QED
  BY <1>1, <1>2, <1>3, <1>4, <1>5 DEF IInv

(* The end of a transaction that commits nothing. *)
Ends(c) ==
  /\ pc[c] \notin {"idle", "done"}
  /\ Release(c)
  /\ UNCHANGED <<shared, command>>
  /\ \/ TryAgain(c)
     \/ Give(c, Failure("UNAVAILABLE"))
     \/ \E r \in receipts : r.command = command[c] /\ Give(c, r.result)
     \/ /\ Give(c, Failure("CONFLICT"))
        /\ \E r \in receipts :
             /\ r.command # command[c]
             /\ \/ r.command.operation = Operation(c)
                \/ r.command.event = command[c].event

LEMMA EndsKeepsIInv ==
  ASSUME IInv, NEW c \in Calls, Ends(c)
  PROVE  IInv'
<1>0. TypeOK /\ NoOversell /\ OneResult /\ RepeatsAgree /\ Phases /\ Exclusive
        /\ NothingStale /\ Ready
  BY DEF IInv
<1>1. /\ pc[c] \notin {"idle", "done"}
      /\ missed' = [missed EXCEPT ![c] = {}]
      /\ wanted' = [wanted EXCEPT ![c] = {}]
      /\ locked' = [locked EXCEPT ![c] = {}]
      /\ decision' = [decision EXCEPT ![c] = NoAnswer]
      /\ stock' = stock /\ active' = active /\ receipts' = receipts
      /\ command' = command
  BY DEF Ends, Release, shared
<1>2. PICK a \in Answers \cup {NoAnswer} :
        /\ answer' = [answer EXCEPT ![c] = a]
        /\ \/ a = NoAnswer /\ pc' = [pc EXCEPT ![c] = "begin"]
           \/ a # NoAnswer /\ pc' = [pc EXCEPT ![c] = "done"]
        /\ tries' \in [Calls -> 1 .. MaxTries]
        /\ a \in Results => [command |-> command[c], result |-> a] \in receipts
        /\ a = Failure("CONFLICT") =>
             \E r \in receipts :
               /\ r.command # command[c]
               /\ \/ r.command.operation = Operation(c)
                  \/ r.command.event = command[c].event
  <2>1. CASE TryAgain(c) /\ tries[c] < MaxTries
    <3>1. tries[c] \in 1 .. MaxTries /\ MaxTries \in Nat /\ answer[c] = NoAnswer
      BY <1>0, <1>1, AdapterAssumption DEF TypeOK, Phases, At
    <3>2. tries[c] + 1 \in 1 .. MaxTries
      BY <2>1, <3>1
    <3>3. /\ tries' = [tries EXCEPT ![c] = tries[c] + 1]
          /\ pc' = [pc EXCEPT ![c] = "begin"]
          /\ answer' = answer
      BY <2>1 DEF TryAgain, Goto
    <3>4. tries' \in [Calls -> 1 .. MaxTries]
      BY <3>2, <3>3, <1>0 DEF TypeOK
    <3>5. answer' = [answer EXCEPT ![c] = NoAnswer]
      BY <3>1, <3>3, <1>0 DEF TypeOK
    <3>6. QED
      BY <3>3, <3>4, <3>5, AnswerKinds
  <2>2. CASE \/ Give(c, Failure("UNAVAILABLE"))
             \/ TryAgain(c) /\ ~ (tries[c] < MaxTries)
    <3>1. Give(c, Failure("UNAVAILABLE"))
      BY <2>2 DEF TryAgain
    <3>2. QED
      BY <3>1, <1>0, AnswerKinds DEF Give, Goto, TypeOK
  <2>3. CASE \E r \in receipts : r.command = command[c] /\ Give(c, r.result)
    <3>1. PICK r \in receipts : r.command = command[c] /\ Give(c, r.result)
      BY <2>3
    <3>2. r \in [command : Commands, result : Results]
      BY <1>0 DEF TypeOK
    <3>3. r = [command |-> command[c], result |-> r.result] /\ r.result \in Results
      BY <3>1, <3>2
    <3>4. QED
      BY <3>1, <3>3, <1>0, AnswerKinds, AdapterAssumption DEF Give, Goto, TypeOK
  <2>4. CASE /\ Give(c, Failure("CONFLICT"))
             /\ \E r \in receipts :
                  /\ r.command # command[c]
                  /\ \/ r.command.operation = Operation(c)
                     \/ r.command.event = command[c].event
    BY <2>4, <1>0, AnswerKinds DEF Give, Goto, TypeOK
  <2>5. QED
    BY <2>1, <2>2, <2>3, <2>4 DEF Ends
<1>3. \A d \in Calls :
        /\ d # c => /\ pc'[d] = pc[d] /\ answer'[d] = answer[d]
                    /\ missed'[d] = missed[d] /\ wanted'[d] = wanted[d]
                    /\ locked'[d] = locked[d] /\ decision'[d] = decision[d]
        /\ d = c => /\ pc'[d] \in {"begin", "done"} /\ answer'[d] = a
                    /\ missed'[d] = {} /\ wanted'[d] = {} /\ locked'[d] = {}
                    /\ pc'[d] = "begin" <=> a = NoAnswer
  BY <1>0, <1>1, <1>2 DEF TypeOK
<1>4. TypeOK'
  BY <1>0, <1>1, <1>2 DEF TypeOK
<1>5. NoOversell'
  BY <1>0, <1>1 DEF NoOversell
<1>6. OneResult'
  BY <1>0, <1>1, <1>2, <1>3 DEF OneResult, Decided
<1>7. RepeatsAgree'
  BY <1>0, <1>1, <1>2, <1>3 DEF RepeatsAgree, Operation
<1>8. Phases'
  BY <1>0, <1>1, <1>2, <1>3 DEF Phases, At, Inside
<1>9. Exclusive'
  BY <1>0, <1>1, <1>3 DEF Exclusive, At, Inside, Operation
<1>10. NothingStale'
  BY <1>0, <1>1, <1>3 DEF NothingStale, Inside, Order
<1>11. Ready'
  BY <1>0, <1>1, <1>3 DEF Ready, At, Result, Order, Operation
<1>12. QED
  BY <1>4, <1>5, <1>6, <1>7, <1>8, <1>9, <1>10, <1>11 DEF IInv

(* A change of an item that nobody has locked. *)
LEMMA TillKeepsIInv ==
  ASSUME IInv, NEW i \in Items, Till(i)
  PROVE  IInv'
<1>0. TypeOK /\ NoOversell /\ OneResult /\ RepeatsAgree /\ Phases /\ Exclusive
        /\ NothingStale /\ Ready
  BY DEF IInv
<1>1. /\ Free(i)
      /\ missed' = [d \in Calls |-> MissedBy({i}, d)]
      /\ receipts' = receipts /\ command' = command /\ answer' = answer
      /\ pc' = pc /\ tries' = tries /\ wanted' = wanted /\ locked' = locked
      /\ decision' = decision
  BY DEF Till
<1>2. /\ stock' \in [Items -> Int] /\ active' \in [Items -> BOOLEAN]
      /\ \A j \in Items : stock'[j] >= 0
      /\ \A j \in Items : j # i => stock'[j] = stock[j] /\ active'[j] = active[j]
  <2>1. \A n \in Levels : n \in Int /\ n >= 0
    BY AdapterAssumption
  <2>2. CASE \E n \in Levels : stock' = [stock EXCEPT ![i] = n] /\ active' = active
    BY <2>1, <2>2, <1>0 DEF TypeOK, NoOversell
  <2>3. CASE active' = [active EXCEPT ![i] = ~ active[i]] /\ stock' = stock
    BY <2>3, <1>0 DEF TypeOK, NoOversell
  <2>4. QED
    BY <2>2, <2>3 DEF Till
<1>3. \A d \in Calls : i \notin locked[d]
  BY <1>1 DEF Free
<1>4. \A d \in Calls :
        /\ missed'[d] \in SUBSET (Items \cup Operations)
        /\ missed[d] \subseteq missed'[d]
        /\ missed'[d] \subseteq missed[d] \cup {i}
        /\ Inside(d) => i \in missed'[d]
  BY <1>0, <1>1 DEF MissedBy, TypeOK, InTransaction, Inside
<1>5. TypeOK'
  <2>1. missed' \in [Calls -> SUBSET (Items \cup Operations)]
    BY <1>1, <1>4
  <2>2. QED
    BY <2>1, <1>0, <1>1, <1>2 DEF TypeOK
<1>6. NoOversell'
  BY <1>2 DEF NoOversell
<1>7. OneResult' /\ RepeatsAgree'
  BY <1>0, <1>1 DEF OneResult, RepeatsAgree, Decided, Operation
<1>8. Phases' /\ Exclusive'
  BY <1>0, <1>1 DEF Phases, Exclusive, At, Inside, Operation
<1>9. NothingStale'
  <2> SUFFICES ASSUME NEW d \in Calls, Inside(d)
               PROVE  /\ locked[d] \cap missed'[d] = {}
                      /\ DOMAIN Order(d) \subseteq wanted[d]
                      /\ \A p \in DOMAIN Order(d) :
                           p \notin missed'[d] /\ active'[p] => Parts(p) \subseteq wanted[d]
    BY <1>1 DEF NothingStale, Inside, Order
  <2>1. \A p \in DOMAIN Order(d) : p \in Items
    BY <1>0, CommandType DEF Inside, At, IsOrder
  <2>2. QED
    BY <2>1, <1>0, <1>2, <1>3, <1>4 DEF NothingStale
<1>10. Ready'
  <2> SUFFICES ASSUME NEW d \in Calls, At(d, "commit")
               PROVE  Result(d)' = Result(d)
    BY <1>0, <1>1 DEF Ready, At, Operation
  <2>1. \A j \in Relevant(Order(d), active) :
          active'[j] = active[j] /\ stock'[j] = stock[j]
    <3>1. Relevant(Order(d), active) \subseteq locked[d]
      BY RelevantLocked
    <3>2. locked[d] \subseteq Items /\ i \notin locked[d]
      BY <1>0, <1>3 DEF TypeOK
    <3>3. QED
      BY <3>1, <3>2, <1>2
  <2>2. /\ Status(Order(d), active', stock') = Status(Order(d), active, stock)
        /\ UnavailableItems(Order(d), active', stock')
             = UnavailableItems(Order(d), active, stock)
    <3> DEFINE o == Order(d)
    <3>1. \A on, on2, level, level2 :
            (\A j \in Relevant(o, on) : on2[j] = on[j] /\ level2[j] = level[j])
              => /\ Status(o, on2, level2) = Status(o, on, level)
                 /\ UnavailableItems(o, on2, level2) = UnavailableItems(o, on, level)
      BY DecisionDependsOnRelevant
    <3> HIDE DEF o
    <3>2. QED
      BY <2>1, <3>1 DEF o
  <2>3. QED
    BY <2>2, <1>1 DEF Result, Order
<1>11. QED
  BY <1>5, <1>6, <1>7, <1>8, <1>9, <1>10 DEF IInv

(* A call that takes or looks up something, and ends nothing. *)
LEMMA GoingOnKeepsIInv ==
  ASSUME IInv, NEW c \in Calls,
         \/ Call(c)
         \/ Begin(c)
         \/ /\ LockOperation(c)
            /\ Receipts(c) = {}
         \/ /\ LockRow(c)
            /\ locked' # [locked EXCEPT ![c] = {}]
         \/ /\ Decide(c)
            /\ At(c, "commit")'
  PROVE  IInv'
<1>0. TypeOK /\ NoOversell /\ OneResult /\ RepeatsAgree /\ Phases /\ Exclusive
        /\ NothingStale /\ Ready
  BY DEF IInv
<1>1. CASE Call(c)
  <2>1. PICK m \in Commands :
          /\ At(c, "idle")
          /\ command' = [command EXCEPT ![c] = m]
          /\ pc' = [pc EXCEPT ![c] = "begin"]
          /\ stock' = stock /\ active' = active /\ receipts' = receipts
          /\ UNCHANGED <<answer, tries, missed, wanted, locked, decision>>
    BY <1>1 DEF Call, Goto, shared
  <2>2. m # NoCommand
    BY AdapterAssumption
  <2>3. answer[c] = NoAnswer
    BY <2>1, <1>0 DEF Phases, At
  <2>4. /\ pc'[c] = "begin" /\ command'[c] = m /\ pc[c] = "idle"
        /\ \A d \in Calls : d # c => pc'[d] = pc[d] /\ command'[d] = command[d]
    BY <2>1, <1>0 DEF TypeOK, At
  <2>5. TypeOK'
    BY <2>1, <1>0 DEF TypeOK
  <2>6. NoOversell'
    BY <2>1, <1>0 DEF NoOversell
  <2>7. OneResult' /\ RepeatsAgree'
    BY <2>1, <2>3, <2>4, <1>0, AnswerKinds DEF OneResult, RepeatsAgree, Decided, Operation
  <2>8. Phases' /\ Exclusive'
    BY <2>1, <2>2, <2>3, <2>4, <1>0 DEF Phases, Exclusive, At, Inside, Operation
  <2>9. NothingStale' /\ Ready'
    BY <2>1, <2>4, <1>0 DEF NothingStale, Ready, At, Inside, Order, Operation, Result
  <2>10. QED
    BY <2>5, <2>6, <2>7, <2>8, <2>9 DEF IInv
<1>2. CASE Begin(c)
  <2>1. /\ pc' = [pc EXCEPT ![c] = "operation"] /\ pc[c] = "begin"
        /\ stock' = stock /\ active' = active /\ receipts' = receipts
        /\ UNCHANGED <<command, answer, tries, missed, wanted, locked, decision>>
    BY <1>2 DEF Begin, Goto, At, shared
  <2>2. pc'[c] = "operation" /\ \A d \in Calls : d # c => pc'[d] = pc[d]
    BY <2>1, <1>0 DEF TypeOK
  <2>3. TypeOK'
    BY <2>1, <1>0 DEF TypeOK
  <2>4. NoOversell' /\ OneResult' /\ RepeatsAgree'
    BY <2>1, <1>0 DEF NoOversell, OneResult, RepeatsAgree, Decided, Operation
  <2>5. Phases' /\ Exclusive'
    BY <2>1, <2>2, <1>0 DEF Phases, Exclusive, At, Inside, Operation
  <2>6. NothingStale' /\ Ready'
    BY <2>1, <2>2, <1>0 DEF NothingStale, Ready, At, Inside, Order, Operation, Result
  <2>7. QED
    BY <2>3, <2>4, <2>5, <2>6 DEF IInv
<1>3. CASE LockOperation(c) /\ Receipts(c) = {}
  <2>1. /\ wanted' = [wanted EXCEPT ![c] = Relevant(Order(c), active)]
        /\ pc' = [pc EXCEPT ![c] = "rows"] /\ pc[c] = "operation"
        /\ \A d \in Calls : Inside(d) => Operation(d) # Operation(c)
        /\ stock' = stock /\ active' = active /\ receipts' = receipts
        /\ UNCHANGED <<command, answer, tries, missed, locked, decision>>
    BY <1>3 DEF LockOperation, Goto, At, shared
  <2>2. /\ pc'[c] = "rows" /\ wanted'[c] = Relevant(Order(c), active)
        /\ \A d \in Calls : d # c => pc'[d] = pc[d] /\ wanted'[d] = wanted[d]
    BY <2>1, <1>0 DEF TypeOK
  <2>3. Relevant(Order(c), active) \subseteq Items
    <3>1. IsOrder(Order(c))
      BY <2>1, <1>0, CommandType DEF At
    <3>2. \A p \in DOMAIN Order(c) : Parts(p) \subseteq Items
      BY <3>1, NeedType
    <3>3. QED
      BY <3>1, <3>2 DEF Relevant, Sold, IsOrder
  <2>4. locked[c] = {}
    BY <2>1, <1>0 DEF Phases, Inside
  <2>5. TypeOK'
    BY <2>1, <2>3, <1>0 DEF TypeOK
  <2>6. NoOversell' /\ OneResult' /\ RepeatsAgree'
    BY <2>1, <1>0 DEF NoOversell, OneResult, RepeatsAgree, Decided, Operation
  <2>7. Phases' /\ Exclusive'
    BY <2>1, <2>2, <1>0 DEF Phases, Exclusive, At, Inside, Operation
  <2>8. NothingStale'
    BY <2>1, <2>2, <2>4, <1>0 DEF NothingStale, Inside, Order, Relevant, Sold
  <2>9. Ready'
    BY <2>1, <2>2, <1>0 DEF Ready, At, Order, Operation, Result
  <2>10. QED
    BY <2>5, <2>6, <2>7, <2>8, <2>9 DEF IInv
<1>4. CASE LockRow(c) /\ locked' # [locked EXCEPT ![c] = {}]
  <2>1. PICK i \in Items :
          /\ pc[c] = "rows"
          /\ Free(i)
          /\ i \notin missed[c]
          /\ locked' = [locked EXCEPT ![c] = locked[c] \cup {i}]
          /\ stock' = stock /\ active' = active /\ receipts' = receipts
          /\ UNCHANGED <<command, answer, pc, tries, missed, wanted, decision>>
    BY <1>4 DEF LockRow, At, Release, shared
  <2>2. /\ locked'[c] = locked[c] \cup {i}
        /\ \A d \in Calls : d # c => locked'[d] = locked[d]
        /\ \A d \in Calls : i \notin locked[d]
    BY <2>1, <1>0 DEF TypeOK, Free
  <2>3. TypeOK'
    BY <2>1, <1>0 DEF TypeOK
  <2>4. NoOversell' /\ OneResult' /\ RepeatsAgree'
    BY <2>1, <1>0 DEF NoOversell, OneResult, RepeatsAgree, Decided, Operation
  <2>5. Phases' /\ Exclusive'
    BY <2>1, <2>2, <1>0 DEF Phases, Exclusive, At, Inside, Operation
  <2>6. NothingStale'
    BY <2>1, <2>2, <1>0 DEF NothingStale, Inside, Order
  <2>7. Ready'
    BY <2>1, <2>2, <1>0 DEF Ready, At, Order, Operation, Result
  <2>8. QED
    BY <2>3, <2>4, <2>5, <2>6, <2>7 DEF IInv
<1>5. CASE Decide(c) /\ At(c, "commit")'
  <2>1. /\ decision' = [decision EXCEPT ![c] = Result(c)]
        /\ pc' = [pc EXCEPT ![c] = "commit"] /\ pc[c] = "rows"
        /\ wanted[c] \subseteq locked[c]
        /\ \A d \in Calls : At(d, "commit") => command[d].event # command[c].event
        /\ \A r \in receipts : /\ r.command.operation # Operation(c)
                               /\ r.command.event # command[c].event
        /\ stock' = stock /\ active' = active /\ receipts' = receipts
        /\ UNCHANGED <<command, answer, tries, missed, wanted, locked>>
    BY <1>5, <1>0 DEF Decide, TryAgain, Give, Goto, At, TypeOK, shared
  <2>2. /\ pc'[c] = "commit" /\ decision'[c] = Result(c)
        /\ \A d \in Calls : d # c => pc'[d] = pc[d] /\ decision'[d] = decision[d]
    BY <2>1, <1>0 DEF TypeOK
  <2>3. Result(c) \in Results
    BY <2>1, <1>0, CommandType, ResultType DEF At
  <2>4. TypeOK'
    BY <2>1, <2>3, <1>0 DEF TypeOK
  <2>5. NoOversell' /\ OneResult' /\ RepeatsAgree'
    BY <2>1, <1>0 DEF NoOversell, OneResult, RepeatsAgree, Decided, Operation
  <2>6. Phases' /\ Exclusive'
    BY <2>1, <2>2, <1>0 DEF Phases, Exclusive, At, Inside, Operation
  <2>7. NothingStale'
    BY <2>1, <2>2, <1>0 DEF NothingStale, Inside, Order
  <2>8. Ready'
    BY <2>1, <2>2, <1>0 DEF Ready, At, Order, Operation, Result
  <2>9. QED
    BY <2>4, <2>5, <2>6, <2>7, <2>8 DEF IInv
<1>6. QED
  BY <1>1, <1>2, <1>3, <1>4, <1>5

(* What a commit changes, call by call. *)
LEMMA CommitTxEffect ==
  ASSUME IInv, NEW c \in Calls, CommitTx(c)
  PROVE  /\ pc[c] = "commit" /\ decision[c] = Result(c) /\ decision[c] \in Results
         /\ command[c] \in Commands /\ Operation(c) \in Operations
         /\ Taken(c) \subseteq locked[c]
         /\ receipts' = receipts \cup
                           {[command |-> command[c], result |-> decision[c]]}
         /\ stock' \in [Items -> Int] /\ active' = active /\ command' = command
         /\ \A i \in Items : /\ stock'[i] >= 0
                             /\ i \notin Taken(c) => stock'[i] = stock[i]
         /\ pc' = [pc EXCEPT ![c] = "done"] /\ tries' = tries
         /\ missed' \in [Calls -> SUBSET (Items \cup Operations)]
         /\ \A d \in Calls : d # c =>
              /\ missed[d] \subseteq missed'[d]
              /\ missed'[d] \subseteq missed[d] \cup Taken(c) \cup {Operation(c)}
         /\ wanted' = [wanted EXCEPT ![c] = {}]
         /\ locked' = [locked EXCEPT ![c] = {}]
         /\ decision' = [decision EXCEPT ![c] = NoAnswer]
         /\ \E a \in {decision[c], Failure("UNAVAILABLE")} :
              answer' = [answer EXCEPT ![c] = a]
<1>0. TypeOK /\ NoOversell /\ Phases /\ Exclusive /\ NothingStale /\ Ready
  BY DEF IInv
<1>1. At(c, "commit") /\ Write(c) /\ Unlock(c) /\ command' = command
  BY DEF CommitTx
<1>2. /\ command[c] \in Commands /\ Operation(c) \in Operations
      /\ IsOrder(Order(c))
  BY <1>0, <1>1, CommandType DEF At
<1>3. decision[c] = Result(c) /\ Result(c) \in Results
  BY <1>0, <1>1, <1>2, ResultType DEF Ready
<1>4. \A i \in Taken(c) : /\ i \in locked[c]
                          /\ Demand(Order(c), active, i) \in Nat
                          /\ stock[i] >= Demand(Order(c), active, i)
  BY <1>1, TakenLocked
<1>5. /\ receipts' = receipts \cup
                        {[command |-> command[c], result |-> decision[c]]}
      /\ active' = active
      /\ stock' = [i \in Items |->
                     IF i \in Taken(c) THEN stock[i] - Demand(Order(c), active, i)
                                       ELSE stock[i]]
      /\ missed' = [d \in Calls |->
                      IF d = c THEN {}
                               ELSE MissedBy(Taken(c) \cup {Operation(c)}, d)]
  BY <1>1 DEF Write
<1>6. \A i \in Items : stock[i] \in Int /\ stock[i] >= 0
  BY <1>0 DEF TypeOK, NoOversell
<1>7. \A i \in Items : /\ stock'[i] \in Int /\ stock'[i] >= 0
                       /\ i \notin Taken(c) => stock'[i] = stock[i]
  <2> SUFFICES ASSUME NEW i \in Items
               PROVE  /\ stock'[i] \in Int /\ stock'[i] >= 0
                      /\ i \notin Taken(c) => stock'[i] = stock[i]
    OBVIOUS
  <2>1. CASE i \in Taken(c)
    <3>1. stock'[i] = stock[i] - Demand(Order(c), active, i)
      BY <2>1, <1>5
    <3>2. QED
      BY <3>1, <2>1, <1>4, <1>6
  <2>2. CASE i \notin Taken(c)
    BY <2>2, <1>5, <1>6
  <2>3. QED
    BY <2>1, <2>2
<1>8. stock' \in [Items -> Int]
  <2> DEFINE left(i) == IF i \in Taken(c) THEN stock[i] - Demand(Order(c), active, i)
                                         ELSE stock[i]
  <2>1. stock' = [i \in Items |-> left(i)]
    BY <1>5
  <2>2. \A i \in Items : left(i) \in Int
    BY <1>4, <1>6
  <2> HIDE DEF left
  <2>3. QED
    BY <2>1, <2>2
<1>9. Taken(c) \subseteq Items
  BY DEF Taken
<1>10. \A d \in Calls : missed'[d] \in SUBSET (Items \cup Operations)
  BY <1>0, <1>2, <1>5, <1>9 DEF MissedBy, TypeOK
<1>11. missed' \in [Calls -> SUBSET (Items \cup Operations)]
  BY <1>5, <1>10
<1>12. \A d \in Calls : d # c =>
         /\ missed[d] \subseteq missed'[d]
         /\ missed'[d] \subseteq missed[d] \cup Taken(c) \cup {Operation(c)}
  BY <1>5 DEF MissedBy
<1>13. /\ pc' = [pc EXCEPT ![c] = "done"] /\ tries' = tries
       /\ \E a \in {decision[c], Failure("UNAVAILABLE")} :
            answer' = [answer EXCEPT ![c] = a]
  BY DEF CommitTx, Give, Goto
<1>14. QED
  BY <1>1, <1>2, <1>3, <1>4, <1>5, <1>7, <1>8, <1>11, <1>12, <1>13 DEF Unlock, At

LEMMA CommitTxKeepsIInv ==
  ASSUME IInv, NEW c \in Calls, CommitTx(c)
  PROVE  IInv'
<1>0. TypeOK /\ NoOversell /\ OneResult /\ RepeatsAgree /\ Phases /\ Exclusive
        /\ NothingStale /\ Ready
  BY DEF IInv
<1>1. /\ pc[c] = "commit" /\ decision[c] \in Results
      /\ command[c] \in Commands /\ Operation(c) \in Operations
      /\ Taken(c) \subseteq locked[c]
      /\ receipts' = receipts \cup
                        {[command |-> command[c], result |-> decision[c]]}
      /\ stock' \in [Items -> Int] /\ active' = active /\ command' = command
      /\ pc' = [pc EXCEPT ![c] = "done"] /\ tries' = tries
      /\ missed' \in [Calls -> SUBSET (Items \cup Operations)]
      /\ wanted' = [wanted EXCEPT ![c] = {}]
      /\ locked' = [locked EXCEPT ![c] = {}]
      /\ decision' = [decision EXCEPT ![c] = NoAnswer]
  BY CommitTxEffect
<1>2. \A d \in Calls : d # c =>
        /\ missed[d] \subseteq missed'[d]
        /\ missed'[d] \subseteq missed[d] \cup Taken(c) \cup {Operation(c)}
  BY CommitTxEffect
<1>2a. \A i \in Items : /\ stock'[i] >= 0
                        /\ i \notin Taken(c) => stock'[i] = stock[i]
  BY CommitTxEffect
<1>3. PICK a \in {decision[c], Failure("UNAVAILABLE")} :
        answer' = [answer EXCEPT ![c] = a]
  BY CommitTxEffect
<1>4. a \in Answers /\ a # NoAnswer /\ a # Failure("CONFLICT")
        /\ (a \in Results => a = decision[c])
  BY <1>1, <1>3, AnswerKinds
<1>5. \A d \in Calls :
        /\ d # c => /\ pc'[d] = pc[d] /\ answer'[d] = answer[d]
                    /\ wanted'[d] = wanted[d] /\ locked'[d] = locked[d]
                    /\ decision'[d] = decision[d]
        /\ d = c => /\ pc'[d] = "done" /\ answer'[d] = a
                    /\ wanted'[d] = {} /\ locked'[d] = {}
  BY <1>0, <1>1, <1>3 DEF TypeOK
<1>6. /\ locked[c] \subseteq Items
      /\ \A r \in receipts : /\ r.command.operation # Operation(c)
                             /\ r.command.event # command[c].event
  BY <1>0, <1>1 DEF TypeOK, Ready, At
<1>7. TypeOK'
  <2>1. [command |-> command[c], result |-> decision[c]]
          \in [command : Commands, result : Results]
    BY <1>1
  <2>2. receipts' \subseteq [command : Commands, result : Results]
    BY <2>1, <1>0, <1>1 DEF TypeOK
  <2>3. QED
    BY <2>2, <1>0, <1>1, <1>3, <1>4 DEF TypeOK
<1>8. NoOversell'
  BY <1>2a DEF NoOversell
<1>9. OneResult'
  BY <1>0, <1>1, <1>3, <1>4, <1>5, <1>6 DEF OneResult, Decided, Operation
<1>10. RepeatsAgree'
  BY <1>0, <1>1, <1>4, <1>5 DEF RepeatsAgree, Operation
<1>11. Phases'
  BY <1>0, <1>1, <1>4, <1>5 DEF Phases, At, Inside
<1>12. Exclusive'
  BY <1>0, <1>1, <1>5 DEF Exclusive, At, Inside, Operation
<1>13. NothingStale'
  <2> SUFFICES ASSUME NEW d \in Calls, d # c, Inside(d)
               PROVE  /\ locked[d] \cap missed'[d] = {}
                      /\ DOMAIN Order(d) \subseteq wanted[d]
                      /\ \A p \in DOMAIN Order(d) :
                           p \notin missed'[d] /\ active[p] => Parts(p) \subseteq wanted[d]
    BY <1>1, <1>5 DEF NothingStale, Inside, Order
  <2>1. locked[d] \cap missed[d] = {} /\ locked[d] \cap locked[c] = {}
        /\ locked[d] \subseteq Items
    BY <1>0 DEF NothingStale, Exclusive, TypeOK
  <2>2. Operation(c) \notin Items
    BY <1>1, AdapterAssumption
  <2>3. locked[d] \cap missed'[d] = {}
    BY <2>1, <2>2, <1>1, <1>2
  <2>4. QED
    BY <2>3, <1>0, <1>2 DEF NothingStale
<1>14. Ready'
  <2> SUFFICES ASSUME NEW d \in Calls, d # c, At(d, "commit")
               PROVE  /\ Result(d)' = Result(d)
                      /\ Operation(c) # Operation(d)
                      /\ command[c].event # command[d].event
    BY <1>0, <1>1, <1>5 DEF Ready, At, Operation
  <2>1. Operation(c) # Operation(d) /\ command[c].event # command[d].event
    BY <1>0, <1>1 DEF Exclusive, At, Inside
  <2>2. \A j \in Relevant(Order(d), active) :
          active'[j] = active[j] /\ stock'[j] = stock[j]
    <3>1. Relevant(Order(d), active) \subseteq locked[d]
      BY RelevantLocked
    <3>2. locked[d] \cap locked[c] = {} /\ locked[d] \subseteq Items
      BY <1>0 DEF Exclusive, TypeOK
    <3>3. QED
      BY <3>1, <3>2, <1>1, <1>2a
  <2>3. /\ Status(Order(d), active', stock') = Status(Order(d), active, stock)
        /\ UnavailableItems(Order(d), active', stock')
             = UnavailableItems(Order(d), active, stock)
    <3> DEFINE o == Order(d)
    <3>1. \A on, on2, level, level2 :
            (\A j \in Relevant(o, on) : on2[j] = on[j] /\ level2[j] = level[j])
              => /\ Status(o, on2, level2) = Status(o, on, level)
                 /\ UnavailableItems(o, on2, level2) = UnavailableItems(o, on, level)
      BY DecisionDependsOnRelevant
    <3> HIDE DEF o
    <3>2. QED
      BY <2>2, <3>1 DEF o
  <2>4. QED
    BY <2>1, <2>3, <1>1 DEF Result, Order
<1>15. QED
  BY <1>7, <1>8, <1>9, <1>10, <1>11, <1>12, <1>13, <1>14 DEF IInv

(* Every step of a call goes on, ends or commits. *)
LEMMA StepKinds ==
  ASSUME IInv, NEW c \in Calls, Step(c) \/ Break(c)
  PROVE  \/ Begin(c)
         \/ LockOperation(c) /\ Receipts(c) = {}
         \/ LockRow(c) /\ locked' # [locked EXCEPT ![c] = {}]
         \/ Decide(c) /\ At(c, "commit")'
         \/ Ends(c)
         \/ CommitTx(c)
<1>0. TypeOK /\ Phases
  BY DEF IInv
<1>1. CASE LockOperation(c) /\ Receipts(c) # {}
  <2>1. PICK r \in Receipts(c) :
          Give(c, IF r.command = command[c] THEN r.result ELSE Failure("CONFLICT"))
    BY <1>1 DEF LockOperation, Replay
  <2>2. /\ pc[c] \notin {"idle", "done"} /\ Release(c)
        /\ UNCHANGED <<shared, command>>
    BY <1>1 DEF LockOperation, At
  <2>3. r \in receipts /\ r.command.operation = Operation(c)
    BY DEF Receipts
  <2>4. QED
    BY <2>1, <2>2, <2>3 DEF Ends
<1>2. CASE LockRow(c) /\ locked' = [locked EXCEPT ![c] = {}]
  <2>1. PICK i \in Items :
          \/ TryAgain(c) /\ Release(c)
          \/ locked' = [locked EXCEPT ![c] = locked[c] \cup {i}]
    BY <1>2 DEF LockRow
  <2>2. ~ (locked' = [locked EXCEPT ![c] = locked[c] \cup {i}])
    BY <1>2, <1>0 DEF TypeOK
  <2>3. QED
    BY <2>1, <2>2, <1>2 DEF Ends, LockRow, At
<1>3. CASE Decide(c) /\ ~ At(c, "commit")'
  <2>1. /\ pc[c] = "rows"
        /\ UNCHANGED <<shared, command>>
    BY <1>3 DEF Decide, At
  <2>2. ~ Goto(c, "commit")
    BY <1>3, <1>0 DEF Goto, At, TypeOK
  <2>3. CASE TryAgain(c) /\ Release(c)
    BY <2>1, <2>3 DEF Ends
  <2>4. CASE /\ \A r \in receipts : r.command.operation # Operation(c)
             /\ \E r \in receipts : r.command.event = command[c].event
             /\ Give(c, Failure("CONFLICT"))
             /\ Release(c)
    BY <2>1, <2>4 DEF Ends, Operation
  <2>5. QED
    BY <1>3, <2>2, <2>3, <2>4 DEF Decide
<1>4. CASE Break(c)
  BY <1>4 DEF Break, Ends
<1>5. QED
  BY <1>1, <1>2, <1>3, <1>4 DEF Step

LEMMA NextKeepsIInv == IInv /\ [Next]_vars => IInv'
<1> SUFFICES ASSUME IInv, [Next]_vars
             PROVE  IInv'
  OBVIOUS
<1>1. CASE \E i \in Items : Till(i)
  BY <1>1, TillKeepsIInv
<1>2. CASE \E c \in Calls : Call(c)
  BY <1>2, GoingOnKeepsIInv
<1>3. CASE \E c \in Calls : Step(c) \/ Break(c)
  BY <1>3, StepKinds, GoingOnKeepsIInv, EndsKeepsIInv, CommitTxKeepsIInv
<1>4. CASE UNCHANGED vars
  BY <1>4 DEF vars, IInv, TypeOK, NoOversell, OneResult, RepeatsAgree, Phases,
     Exclusive, NothingStale, Ready, Decided, At, Inside, Operation, Order, Result
<1>5. QED
  BY <1>1, <1>2, <1>3, <1>4 DEF Next

LEMMA Invariance == Spec => []IInv
<1>1. QED
  BY InitIInv, NextKeepsIInv, PTL DEF Spec

-----------------------------------------------------------------------------
(* Theorems                                                                *)

(* Every variable of Commit keeps its type, and no call runs more           *)
(* transactions than maxSerializableTries.                                 *)
THEOREM AdapterTypeCorrect == Spec => []TypeOK
<1>1. IInv => TypeOK
  BY DEF IInv
<1>2. QED
  BY <1>1, Invariance, PTL

(* However many calls and tills there are, stock never drops below zero:    *)
(* the rows that a decision read are locked until it is deducted.          *)
THEOREM StockIsNotOversold == Spec => []NoOversell
<1>1. IInv => NoOversell
  BY DEF IInv
<1>2. QED
  BY <1>1, Invariance, PTL

(* An operation has at most one receipt, and every call answered with a     *)
(* result was answered with the one on record for its own command.         *)
THEOREM OneResultPerOperation == Spec => []OneResult
<1>1. IInv => OneResult
  BY DEF IInv
<1>2. QED
  BY <1>1, Invariance, PTL

(* A call refused with a conflict had another command in its way.           *)
THEOREM RepeatsDoNotConflict == Spec => []RepeatsAgree
<1>1. IInv => RepeatsAgree
  BY DEF IInv
<1>2. QED
  BY <1>1, Invariance, PTL

-----------------------------------------------------------------------------
(* The refinement                                                          *)

(* Both modules compute the decision in the same way. *)
LEMMA SameDecision ==
  /\ \A order, on, level :
       /\ Atomic!Status(order, on, level) = Status(order, on, level)
       /\ Atomic!UnavailableItems(order, on, level) = UnavailableItems(order, on, level)
  /\ \A order, on, i : Atomic!Demand(order, on, i) = Demand(order, on, i)
  /\ \A c : Atomic!Result(c) = Result(c)
  /\ \A x : Atomic!Failure(x) = Failure(x)
<1>1. \A p : Atomic!Parts(p) = Parts(p)
  BY DEF Parts, Atomic!Parts
<1>2. \A p, q, i : Atomic!Need(p, q, i) = Need(p, q, i)
  BY DEF Need, Atomic!Need, Ceiling, Atomic!Ceiling
<1>3. \A order, on : Atomic!Sold(order, on) = Sold(order, on)
  BY DEF Sold, Atomic!Sold
<1>4. \A order, on, i : Atomic!Units(order, on, i) = Units(order, on, i)
  BY <1>1, <1>2, <1>3 DEF Units, Atomic!Units
<1>5. \A order, on, i : Atomic!Demand(order, on, i) = Demand(order, on, i)
  BY <1>4 DEF Demand, Atomic!Demand, Cardinality, Atomic!Cardinality
<1>6. \A order, on, level, i :
        Atomic!Covered(order, on, level, i) <=> Covered(order, on, level, i)
  BY <1>5 DEF Covered, Atomic!Covered
<1>7. \A order, on, level :
        Atomic!Unavailable(order, on, level) = Unavailable(order, on, level)
  BY <1>1, <1>6 DEF Unavailable, Atomic!Unavailable
<1>8. \A p, on, level :
        Atomic!AvailableQuantity(p, on, level) = AvailableQuantity(p, on, level)
  BY DEF AvailableQuantity, Atomic!AvailableQuantity
<1>9. \A order, on, level :
        /\ Atomic!Status(order, on, level) = Status(order, on, level)
        /\ Atomic!UnavailableItems(order, on, level) = UnavailableItems(order, on, level)
  BY <1>7, <1>8 DEF Status, Atomic!Status, UnavailableItems, Atomic!UnavailableItems
<1>10. \A c : Atomic!Result(c) = Result(c)
  BY <1>9, Zenon DEF Result, Atomic!Result, Order
<1>11. \A x : Atomic!Failure(x) = Failure(x)
  BY DEF Failure, Atomic!Failure
<1>12. QED
  BY <1>5, <1>9, <1>10, <1>11

(* The end of a transaction without a commit is a failure, a replay or a    *)
(* conflict, or nothing that a caller sees.                                *)
LEMMA EndsRefines ==
  ASSUME IInv, NEW c \in Calls, Ends(c)
  PROVE  [Atomic!Next]_Atomic!vars
<1>1. Atomic!Open(c)
  BY DEF Ends, IInv, Phases, At, Atomic!Open
<1>2. UNCHANGED <<stock, active, receipts, command>>
  BY DEF Ends, shared
<1>3. CASE TryAgain(c) /\ tries[c] < MaxTries
  BY <1>2, <1>3 DEF TryAgain, Atomic!vars
<1>4. CASE \/ Give(c, Failure("UNAVAILABLE"))
           \/ TryAgain(c) /\ ~ (tries[c] < MaxTries)
  <2>1. Atomic!Fail(c)
    BY <1>1, <1>2, <1>4, SameDecision DEF TryAgain, Give, Atomic!Fail, Atomic!Give
  <2>2. QED
    BY <2>1 DEF Atomic!Next
<1>5. CASE \E r \in receipts : r.command = command[c] /\ Give(c, r.result)
  <2>1. Atomic!Replay(c)
    BY <1>1, <1>2, <1>5 DEF Give, Atomic!Replay, Atomic!Give
  <2>2. QED
    BY <2>1 DEF Atomic!Next
<1>6. CASE /\ Give(c, Failure("CONFLICT"))
           /\ \E r \in receipts :
                /\ r.command # command[c]
                /\ \/ r.command.operation = Operation(c)
                   \/ r.command.event = command[c].event
  <2>1. Atomic!Conflict(c)
    BY <1>1, <1>2, <1>6, SameDecision
       DEF Give, Operation, Atomic!Conflict, Atomic!Give
  <2>2. QED
    BY <2>1 DEF Atomic!Next
<1>7. QED
  BY <1>3, <1>4, <1>5, <1>6 DEF Ends

(* The commit of a transaction is the moment of its decision. *)
LEMMA CommitTxRefines ==
  ASSUME IInv, NEW c \in Calls, CommitTx(c)
  PROVE  Atomic!Decide(c)
<1>1. At(c, "commit") /\ Write(c) /\ command' = command
  BY DEF CommitTx
<1>2. /\ decision[c] = Result(c)
      /\ \A r \in receipts : r.command.operation # Operation(c)
  BY <1>1 DEF IInv, Ready
<1>3. Atomic!Open(c)
  BY <1>1 DEF IInv, Phases, At, Atomic!Open
<1>4. IsOrder(Order(c))
  BY <1>1, CommandType DEF IInv, At
<1>5. \A i \in Items : /\ stock[i] \in Int
                       /\ Demand(Order(c), active, i) \in Nat
  BY <1>4, DemandType DEF IInv, TypeOK
<1>6. stock' = IF Result(c).status = "COMMITTED"
               THEN [i \in Items |-> stock[i] - Demand(Order(c), active, i)]
               ELSE stock
  <2> DEFINE d(i) == Demand(Order(c), active, i)
  <2>1. stock' = [i \in Items |-> IF i \in Taken(c) THEN stock[i] - d(i) ELSE stock[i]]
    BY <1>1 DEF Write
  <2>2. CASE Result(c).status = "COMMITTED"
    <3>1. Taken(c) = {i \in Items : d(i) > 0}
      BY <2>2, <1>2 DEF Taken
    <3>2. \A i \in Items : d(i) \in Nat /\ stock[i] \in Int
      BY <1>5
    <3> HIDE DEF d
    <3>3. \A i \in Items :
            (IF i \in Taken(c) THEN stock[i] - d(i) ELSE stock[i]) = stock[i] - d(i)
      BY <3>1, <3>2
    <3>4. stock' = [i \in Items |-> stock[i] - d(i)]
      BY <2>1, <3>3
    <3>5. QED
      BY <3>4, <2>2 DEF d
  <2>3. CASE Result(c).status # "COMMITTED"
    <3>1. Taken(c) = {}
      BY <2>3, <1>2 DEF Taken
    <3>2. stock' = [i \in Items |-> stock[i]]
      BY <2>1, <3>1
    <3>3. QED
      BY <3>2, <2>3 DEF IInv, TypeOK
  <2>4. QED
    BY <2>2, <2>3
<1>7. receipts' = receipts \cup {[command |-> command[c], result |-> Result(c)]}
        /\ active' = active
  BY <1>1, <1>2 DEF Write
<1>8. \/ answer' = [answer EXCEPT ![c] = Result(c)]
      \/ answer' = [answer EXCEPT ![c] = Failure("UNAVAILABLE")]
  BY <1>2 DEF CommitTx, Give
<1>9. Atomic!Deducted(command[c].order, active, stock)
        = [i \in Items |-> stock[i] - Demand(Order(c), active, i)]
  BY SameDecision DEF Atomic!Deducted, Order
<1>10. QED
  BY <1>1, <1>2, <1>3, <1>6, <1>7, <1>8, <1>9, SameDecision
     DEF Atomic!Decide, Atomic!Give, Operation

LEMMA NextRefines == IInv /\ [Next]_vars => [Atomic!Next]_Atomic!vars
<1> SUFFICES ASSUME IInv, [Next]_vars
             PROVE  [Atomic!Next]_Atomic!vars
  OBVIOUS
<1>1. CASE \E i \in Items : Till(i)
  <2>1. Atomic!Till
    BY <1>1 DEF Till, Atomic!Till
  <2>2. QED
    BY <2>1 DEF Atomic!Next
<1>2. ASSUME NEW c \in Calls, Call(c)
      PROVE  [Atomic!Next]_Atomic!vars
  <2>1. Atomic!Call(c)
    BY <1>2 DEF Call, Atomic!Call, IInv, Phases, shared
  <2>2. QED
    BY <2>1 DEF Atomic!Next
<1>3. ASSUME NEW c \in Calls, Step(c) \/ Break(c)
      PROVE  [Atomic!Next]_Atomic!vars
  <2>1. CASE Ends(c)
    BY <2>1, EndsRefines
  <2>2. CASE CommitTx(c)
    BY <2>2, CommitTxRefines DEF Atomic!Next
  <2>3. CASE Begin(c)
    BY <2>3 DEF Begin, shared, Atomic!vars
  <2>4. CASE LockOperation(c) /\ Receipts(c) = {}
    BY <2>4 DEF LockOperation, shared, Atomic!vars
  <2>5. CASE LockRow(c) /\ locked' # [locked EXCEPT ![c] = {}]
    BY <2>5 DEF LockRow, Release, shared, Atomic!vars
  <2>6. CASE Decide(c) /\ At(c, "commit")'
    <3>1. pc \in [Calls -> {"idle", "begin", "operation", "rows", "commit", "done"}]
      BY DEF IInv, TypeOK
    <3>2. QED
      BY <3>1, <2>6 DEF Decide, TryAgain, Give, Goto, At, shared, Atomic!vars
  <2>7. QED
    BY <1>3, <2>1, <2>2, <2>3, <2>4, <2>5, <2>6, StepKinds
<1>4. CASE UNCHANGED vars
  BY <1>4 DEF vars, Atomic!vars
<1>5. QED
  BY <1>1, <1>2, <1>3, <1>4 DEF Next

(* The transactions of Commit implement AtomicInventory: every operation is *)
(* decided once, at one moment, from the stock of that moment.             *)
THEOREM ImplementsAtomicInventory == Spec => AtomicSpec
<1>1. Init => Atomic!Init
  BY DEF Init, Atomic!Init
<1>2. QED
  BY <1>1, Invariance, NextRefines, PTL DEF Spec, AtomicSpec, Atomic!Spec

=============================================================================
