---------------------------- MODULE AtomicInventory ----------------------------
(***************************************************************************)
(* What the inventory adapter promises, without transactions: an operation *)
(* is decided once, at one moment, for all of its lines, from the stock of *)
(* that moment; the stock goes down with the decision and never again for  *)
(* the operation; whoever repeats the command gets the decision on record. *)
(***************************************************************************)
EXTENDS StockDecision

CONSTANTS Calls, Commands, Levels, NoCommand, NoAnswer

VARIABLES
  stock,      \* of each item
  active,     \* is an item on sale?
  receipts,   \* decided commands and their results
  command,    \* what each call asks for
  answer      \* what each call was answered

vars == <<stock, active, receipts, command, answer>>

Failure(status) == [status |-> status]

Open(c) == command[c] # NoCommand /\ answer[c] = NoAnswer

Give(c, a) == answer' = [answer EXCEPT ![c] = a]

Result(c) ==
  [event |-> c,
   status |-> Status(command[c].order, active, stock),
   items |-> UnavailableItems(command[c].order, active, stock)]

Init ==
  /\ stock \in [Items -> Levels]
  /\ active \in [Items -> BOOLEAN]
  /\ receipts = {}
  /\ command = [c \in Calls |-> NoCommand]
  /\ answer = [c \in Calls |-> NoAnswer]

(* A till sells, or somebody counts; an item is taken off sale or put back. *)
Till ==
  /\ \E i \in Items :
       \/ /\ \E n \in Levels : stock' = [stock EXCEPT ![i] = n]
          /\ UNCHANGED active
       \/ /\ active' = [active EXCEPT ![i] = ~ active[i]]
          /\ UNCHANGED stock
  /\ UNCHANGED <<receipts, command, answer>>

Call(c) ==
  /\ command[c] = NoCommand
  /\ \E m \in Commands : command' = [command EXCEPT ![c] = m]
  /\ UNCHANGED <<stock, active, receipts, answer>>

(* The caller may not live to see its result. *)
Decide(c) ==
  /\ Open(c)
  /\ \A r \in receipts : r.command.operation # command[c].operation
  /\ receipts' = receipts \cup {[command |-> command[c], result |-> Result(c)]}
  /\ stock' = IF Result(c).status = "COMMITTED"
              THEN Deducted(command[c].order, active, stock)
              ELSE stock
  /\ Give(c, Result(c)) \/ Give(c, Failure("UNAVAILABLE"))
  /\ UNCHANGED <<active, command>>

Replay(c) ==
  /\ Open(c)
  /\ \E r \in receipts : r.command = command[c] /\ Give(c, r.result)
  /\ UNCHANGED <<stock, active, receipts, command>>

(* Another command has used the operation or the event. *)
Conflict(c) ==
  /\ Open(c)
  /\ \E r \in receipts :
       /\ r.command # command[c]
       /\ \/ r.command.operation = command[c].operation
          \/ r.command.event = command[c].event
  /\ Give(c, Failure("CONFLICT"))
  /\ UNCHANGED <<stock, active, receipts, command>>

Fail(c) ==
  /\ Open(c)
  /\ Give(c, Failure("UNAVAILABLE"))
  /\ UNCHANGED <<stock, active, receipts, command>>

Next ==
  Till \/ \E c \in Calls : Call(c) \/ Decide(c) \/ Replay(c) \/ Conflict(c) \/ Fail(c)

Spec == Init /\ [][Next]_vars

=============================================================================
