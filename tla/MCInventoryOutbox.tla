--------------------------- MODULE MCInventoryOutbox ---------------------------
(* Instances of InventoryOutbox for TLC, with the delays of RetryBackoff.   *)
EXTENDS InventoryOutbox, TLC

CONSTANTS RetryBase, RetryMax, a1, w1, w2

Backoff == INSTANCE RetryBackoff WITH Width <- 8

MCRetryDelay ==
  [n \in 0..MaxAttempt |-> Backoff!retryDelay(RetryBase, RetryMax, n)]

(* One HTTP adapter for everybody. *)
SharedAdapter == [w \in Workers |-> a1]

(* A fake adapter inside each process. *)
OwnAdapter == [w \in Workers |-> w]

Symmetry ==
  Permutations(Orders) \cup Permutations(Tokens) \cup Permutations(ResultEvents)

=============================================================================
