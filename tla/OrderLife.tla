-------------------------------- MODULE OrderLife --------------------------------
(***************************************************************************)
(* What an order goes through for those who look at it, with no request,   *)
(* transaction, clock or process in it: the four states its customer is    *)
(* shown, the queue of the cashiers, who read it once, and what the        *)
(* customer is told, which is never ahead of what there is to see.         *)
(***************************************************************************)
CONSTANTS Orders

VARIABLES
  state,   \* as the customer is shown it
  queue,   \* as the cashiers are: "out", "unread" or "read"
  told     \* what the customer has been told, which may be repeated

vars == <<state, queue, told>>

Kinds == {"ORDER_ON_THE_WAY", "ORDER_DELIVERED"}

Init ==
  /\ state = [o \in Orders |-> "NONE"]
  /\ queue = [o \in Orders |-> "out"]
  /\ told = {}

Enter(o) ==
  /\ state[o] = "NONE"
  /\ state' = [state EXCEPT ![o] = "PREPARING"]
  /\ UNCHANGED <<queue, told>>

Reject(o) ==
  /\ state[o] = "PREPARING" /\ queue[o] = "out"
  /\ state' = [state EXCEPT ![o] = "REJECTED"]
  /\ UNCHANGED <<queue, told>>

Accept(o) ==
  /\ state[o] = "PREPARING" /\ queue[o] = "out"
  /\ queue' = [queue EXCEPT ![o] = "unread"]
  /\ UNCHANGED <<state, told>>

Read(o) ==
  /\ queue[o] = "unread"
  /\ queue' = [queue EXCEPT ![o] = "read"]
  /\ UNCHANGED <<state, told>>

Leave(o) ==
  /\ state[o] = "PREPARING" /\ queue[o] # "out"
  /\ state' = [state EXCEPT ![o] = "ON_THE_WAY"]
  /\ UNCHANGED <<queue, told>>

Arrive(o) ==
  /\ state[o] = "ON_THE_WAY"
  /\ state' = [state EXCEPT ![o] = "DELIVERED"]
  /\ UNCHANGED <<queue, told>>

Tell(o) ==
  /\ \E kind \in Kinds :
       /\ state[o] \in (IF kind = "ORDER_DELIVERED" THEN {"DELIVERED"}
                        ELSE {"ON_THE_WAY", "DELIVERED"})
       /\ told' = told \cup {<<o, kind>>}
  /\ UNCHANGED <<state, queue>>

Next ==
  \E o \in Orders :
    Enter(o) \/ Reject(o) \/ Accept(o) \/ Read(o) \/ Leave(o) \/ Arrive(o) \/ Tell(o)

Spec == Init /\ [][Next]_vars

=============================================================================
