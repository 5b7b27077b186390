---------------------------- MODULE InventoryAdapter ----------------------------
(***************************************************************************)
(* Store.Commit of the inventory adapter (adapters/postgres/store.go):     *)
(* concurrent calls, for the same or for different operations, against     *)
(* items that the tills change at the same time.                           *)
(*                                                                         *)
(* A call runs SERIALIZABLE transactions, at most MaxTries.  The snapshot  *)
(* of a transaction is taken by its first statement, BEFORE that statement *)
(* gets the lock it waits for; "missed" is what has been committed since,  *)
(* which the transaction cannot see.  Locking a missed row is a            *)
(* serialization failure, and so is inserting a receipt whose operation    *)
(* has a missed receipt, because every transaction has looked for one.     *)
(***************************************************************************)
EXTENDS StockDecision

CONSTANTS
  Calls,       \* calls of Commit; also the event id of the result it decides
  Operations,
  Events,
  Commands,    \* the commands calls may carry
  Levels,      \* stock levels that the tills and the inventory leave
  MaxTries,    \* maxSerializableTries
  NoCommand,
  NoAnswer

Failure(status) == [status |-> status]

Results ==
  [event : Calls, status : {"COMMITTED", "ITEMS_UNAVAILABLE"},
   items : SUBSET [product : Items, available : Nat]]

Answers == Results \cup {Failure("CONFLICT"), Failure("UNAVAILABLE")}

ASSUME AdapterAssumption ==
  /\ \A m \in Commands :
       /\ m.operation \in Operations
       /\ m.event \in Events
       /\ DOMAIN m.order \subseteq Items
       /\ \A p \in DOMAIN m.order : m.order[p] \in Nat \ {0}
  /\ Operations \cap Items = {}
  /\ Levels \subseteq Nat
  /\ MaxTries \in Nat \ {0}
  /\ NoCommand \notin Commands
  /\ NoAnswer \notin Answers

VARIABLES
  stock,      \* of each item
  active,     \* is an item on sale?
  receipts,   \* inventory_commit_receipts: commands and their results
  command,    \* what each call asks for
  answer,     \* what each call was answered
  pc,         \* where each call is
  tries,      \* the transaction it is in
  missed,     \* items and operations changed since its snapshot
  wanted,     \* the rows it locks
  locked,     \* the rows it has locked
  decision    \* the result it is about to commit

vars == <<stock, active, receipts, command, answer, pc, tries, missed, wanted,
          locked, decision>>

shared == <<stock, active, receipts>>

-----------------------------------------------------------------------------

At(c, step) == pc[c] = step

Goto(c, step) == pc' = [pc EXCEPT ![c] = step]

Order(c) == command[c].order

Operation(c) == command[c].operation

(* Transactions that have the advisory lock of their operation. *)
Inside(c) == pc[c] \in {"rows", "commit"}

InTransaction(c) == pc[c] \in {"operation", "rows", "commit"}

Free(i) == \A c \in Calls : i \notin locked[c]

(* Mutant: items are locked in no particular order. *)
NextRow_AnyOrder(c, i) == i \in wanted[c] \ locked[c]

(* ORDER BY "Id" FOR UPDATE *)
NextRow(c, i) ==
  /\ i \in wanted[c] \ locked[c]
  /\ \A j \in wanted[c] \ locked[c] : i <= j

Result(c) ==
  [event |-> c,
   status |-> Status(Order(c), active, stock),
   items |-> UnavailableItems(Order(c), active, stock)]

(* The end of a transaction gives its locks back. *)
Release(c) ==
  /\ missed' = [missed EXCEPT ![c] = {}]
  /\ wanted' = [wanted EXCEPT ![c] = {}]
  /\ locked' = [locked EXCEPT ![c] = {}]
  /\ decision' = [decision EXCEPT ![c] = NoAnswer]

Give(c, a) ==
  /\ answer' = [answer EXCEPT ![c] = a]
  /\ Goto(c, "done")
  /\ UNCHANGED tries

(* A serialization failure (40001). *)
TryAgain(c) ==
  IF tries[c] < MaxTries
  THEN /\ tries' = [tries EXCEPT ![c] = tries[c] + 1]
       /\ Goto(c, "begin")
       /\ UNCHANGED answer
  ELSE Give(c, Failure("UNAVAILABLE"))

Init ==
  /\ stock \in [Items -> Levels]
  /\ active \in [Items -> BOOLEAN]
  /\ receipts = {}
  /\ command = [c \in Calls |-> NoCommand]
  /\ answer = [c \in Calls |-> NoAnswer]
  /\ pc = [c \in Calls |-> "idle"]
  /\ tries = [c \in Calls |-> 1]
  /\ missed = [c \in Calls |-> {}]
  /\ wanted = [c \in Calls |-> {}]
  /\ locked = [c \in Calls |-> {}]
  /\ decision = [c \in Calls |-> NoAnswer]

-----------------------------------------------------------------------------

(* The changes that a transaction commits are missed by those that run.     *)
MissedBy(changes, d) ==
  IF InTransaction(d) THEN missed[d] \cup changes ELSE missed[d]

(* A till sells, or somebody counts; an item is taken off sale or put back. *)
Till(i) ==
  /\ Free(i)
  /\ \/ /\ Kind[i] = "physical"
        /\ \E n \in Levels \ {stock[i]} : stock' = [stock EXCEPT ![i] = n]
        /\ UNCHANGED active
     \/ /\ active' = [active EXCEPT ![i] = ~ active[i]]
        /\ UNCHANGED stock
  /\ missed' = [d \in Calls |-> MissedBy({i}, d)]
  /\ UNCHANGED <<receipts, command, answer, pc, tries, wanted, locked, decision>>

Call(c) ==
  /\ At(c, "idle")
  /\ \E m \in Commands : command' = [command EXCEPT ![c] = m]
  /\ Goto(c, "begin")
  /\ UNCHANGED <<shared, answer, tries, missed, wanted, locked, decision>>

(* The first statement takes the snapshot, then waits. *)
Begin(c) ==
  /\ At(c, "begin")
  /\ Goto(c, "operation")
  /\ UNCHANGED <<shared, command, answer, tries, missed, wanted, locked, decision>>

(* The receipt of the operation, if the snapshot has it. *)
Receipts(c) ==
  {r \in receipts : r.command.operation = Operation(c)
                    /\ Operation(c) \notin missed[c]}

Replay(c) ==
  \E r \in Receipts(c) :
    Give(c, IF r.command = command[c] THEN r.result ELSE Failure("CONFLICT"))

(* pg_advisory_xact_lock, loadReceipt, and what to lock.  A row that was    *)
(* missed cannot be locked, so what the snapshot says of it is as good as   *)
(* what it says now.                                                       *)
LockOperation(c) ==
  /\ At(c, "operation")
  /\ \A d \in Calls : Inside(d) => Operation(d) # Operation(c)
  /\ \/ /\ Receipts(c) # {}
        /\ Replay(c)
        /\ Release(c)
     \/ /\ Receipts(c) = {}
        /\ wanted' = [wanted EXCEPT ![c] = Relevant(Order(c), active)]
        /\ Goto(c, "rows")
        /\ UNCHANGED <<answer, tries, missed, locked, decision>>
  /\ UNCHANGED <<shared, command>>

(* Mutant: SELECT without FOR UPDATE. *)
LockRow_NoLock(c) ==
  /\ At(c, "rows")
  /\ \E i \in Items :
       /\ NextRow(c, i)
       /\ wanted' = [wanted EXCEPT ![c] = @ \ {i}]
  /\ UNCHANGED <<shared, command, answer, pc, tries, missed, locked, decision>>

(* Mutant: READ COMMITTED locks what it finds. *)
LockRow_ReadCommitted(c) ==
  /\ At(c, "rows")
  /\ \E i \in Items :
       /\ NextRow(c, i)
       /\ Free(i)
       /\ locked' = [locked EXCEPT ![c] = @ \cup {i}]
  /\ UNCHANGED <<shared, command, answer, pc, tries, missed, wanted, decision>>

(* FOR UPDATE: waits for the row, then fails if it missed a change of it. *)
LockRow(c) ==
  /\ At(c, "rows")
  /\ \E i \in Items :
       /\ NextRow(c, i)
       /\ Free(i)
       /\ \/ /\ i \in missed[c]
             /\ TryAgain(c)
             /\ Release(c)
          \/ /\ i \notin missed[c]
             /\ locked' = [locked EXCEPT ![c] = @ \cup {i}]
             /\ UNCHANGED <<answer, pc, tries, missed, wanted, decision>>
  /\ UNCHANGED <<shared, command>>

(* All rows are locked: decide, deduct, insert the movements and, last, the *)
(* receipt, which waits for a transaction that has inserted the same event. *)
Decide(c) ==
  /\ At(c, "rows")
  /\ wanted[c] \subseteq locked[c]
  /\ \A d \in Calls : At(d, "commit") => command[d].event # command[c].event
  /\ \/ /\ \E r \in receipts : r.command.operation = Operation(c)
        /\ TryAgain(c)
        /\ Release(c)
     \/ /\ \A r \in receipts : r.command.operation # Operation(c)
        /\ \E r \in receipts : r.command.event = command[c].event
        /\ Give(c, Failure("CONFLICT"))
        /\ Release(c)
     \/ /\ \A r \in receipts : /\ r.command.operation # Operation(c)
                               /\ r.command.event # command[c].event
        /\ decision' = [decision EXCEPT ![c] = Result(c)]
        /\ Goto(c, "commit")
        /\ UNCHANGED <<answer, tries, missed, wanted, locked>>
  /\ UNCHANGED <<shared, command>>

(* What the transaction of c changes when it commits. *)
Taken(c) ==
  IF decision[c].status = "COMMITTED"
  THEN {i \in Items : Demand(Order(c), active, i) > 0}
  ELSE {}

Write(c) ==
  /\ receipts' = receipts \cup {[command |-> command[c], result |-> decision[c]]}
  /\ stock' = [i \in Items |->
                 IF i \in Taken(c) THEN stock[i] - Demand(Order(c), active, i)
                                   ELSE stock[i]]
  /\ missed' = [d \in Calls |->
                  IF d = c THEN {} ELSE MissedBy(Taken(c) \cup {Operation(c)}, d)]
  /\ UNCHANGED active

Unlock(c) ==
  /\ wanted' = [wanted EXCEPT ![c] = {}]
  /\ locked' = [locked EXCEPT ![c] = {}]
  /\ decision' = [decision EXCEPT ![c] = NoAnswer]

(* The answer to COMMIT may get lost. *)
CommitTx(c) ==
  /\ At(c, "commit")
  /\ Write(c)
  /\ Unlock(c)
  /\ Give(c, decision[c]) \/ Give(c, Failure("UNAVAILABLE"))
  /\ UNCHANGED command

(* Any other failure rolls back; a serialization failure can come at any    *)
(* statement, and is tried again.                                          *)
Break(c) ==
  /\ pc[c] \notin {"idle", "done"}
  /\ Give(c, Failure("UNAVAILABLE")) \/ (InTransaction(c) /\ TryAgain(c))
  /\ Release(c)
  /\ UNCHANGED <<shared, command>>

-----------------------------------------------------------------------------

Step(c) == Begin(c) \/ LockOperation(c) \/ LockRow(c) \/ Decide(c) \/ CommitTx(c)

Next ==
  \/ \E i \in Items : Till(i)
  \/ \E c \in Calls : Call(c) \/ Step(c) \/ Break(c)

Spec == Init /\ [][Next]_vars

(* A transaction that can go on goes on. *)
FairSpec == Spec /\ \A c \in Calls : WF_vars(Step(c))

-----------------------------------------------------------------------------
(* Properties                                                              *)

(* Everything has its type; a call never runs more than MaxTries            *)
(* transactions.                                                           *)
TypeOK ==
  /\ stock \in [Items -> Int]
  /\ active \in [Items -> BOOLEAN]
  /\ receipts \subseteq [command : Commands, result : Results]
  /\ command \in [Calls -> Commands \cup {NoCommand}]
  /\ answer \in [Calls -> Answers \cup {NoAnswer}]
  /\ pc \in [Calls -> {"idle", "begin", "operation", "rows", "commit", "done"}]
  /\ tries \in [Calls -> 1 .. MaxTries]
  /\ missed \in [Calls -> SUBSET (Items \cup Operations)]
  /\ wanted \in [Calls -> SUBSET Items]
  /\ locked \in [Calls -> SUBSET Items]
  /\ decision \in [Calls -> Results \cup {NoAnswer}]

(* Orders and tills together never take more of an item than there is.      *)
NoOversell == \A i \in Items : stock[i] >= 0

Decided(c) == answer[c] \in Results

(* All calls that are answered with a result of an operation are answered   *)
(* with the same one, asked for with the same command; it is the one on     *)
(* record.  (contracts/README.md, operation_id)                            *)
OneResult ==
  /\ \A r, s \in receipts :
       r.command.operation = s.command.operation => r = s
  /\ \A c \in Calls :
       Decided(c) => [command |-> command[c], result |-> answer[c]] \in receipts

(* A command that is repeated is never refused as a conflict with itself,   *)
(* however its calls overlap.                                              *)
RepeatsAgree ==
  \A c \in Calls :
    answer[c] = Failure("CONFLICT") =>
      \E r \in receipts :
        /\ r.command # command[c]
        /\ \/ r.command.operation = Operation(c)
           \/ r.command.event = command[c].event

(* The transactions implement AtomicInventory. *)
Atomic == INSTANCE AtomicInventory
AtomicSpec == Atomic!Spec

(* Calls do not wait for each other in a circle: every one is answered.     *)
EventuallyAnswered ==
  \A c \in Calls : command[c] # NoCommand ~> answer[c] # NoAnswer

=============================================================================
