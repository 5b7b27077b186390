------------------------------- MODULE FixedWidth -------------------------------
(***************************************************************************)
(* Signed integers of Width bits: an int64 or a time.Duration of the code, *)
(* with fewer bits so that every value can be tried.                       *)
(***************************************************************************)
EXTENDS Integers

CONSTANT Width

ASSUME WidthAssumption == Width \in Nat \ {0}

(* 2^n, by the equation that a proof can use. *)
PowerOfTwo[n \in Nat] == IF n = 0 THEN 1 ELSE 2 * PowerOfTwo[n - 1]

Half == PowerOfTwo[Width - 1]

MaxInt == Half - 1

(* The value of an arithmetic result that may not fit. *)
Wrapped(n) == ((n + Half) % (2 * Half)) - Half

=============================================================================
