--------------------------- MODULE MCInventoryAdapter ---------------------------
(* Small instances of InventoryAdapter.                                     *)
EXTENDS InventoryAdapter, TLC

CONSTANTS opA, opB, ev1, ev2

(* A bundle, number 1, with half a unit of item 2. *)
MCKind == <<"composite", "physical">>
MCRecipe == <<2 :> 1, [x \in {} |-> 1]>>

Asks(op, ev, order) == [operation |-> op, event |-> ev, order |-> order]

(* Two orders that share items, and one that reuses the other's operation. *)
MCCommands ==
  {Asks(opA, ev1, (1 :> 1) @@ (2 :> 1)), Asks(opB, ev2, 1 :> 2),
   Asks(opA, ev2, 2 :> 1)}

=============================================================================
