----------------------------- MODULE RetryBackoff -----------------------------
(***************************************************************************)
(* Worker.retryDelay (application/worker.go): how long a failed inventory  *)
(* event waits before its next attempt.  A time.Duration may overflow.     *)
(***************************************************************************)
EXTENDS FixedWidth

(* Mutant: doubled first, compared with the maximum afterwards. *)
DelayAfter_Overflowing(base, max) ==
  LET delay[n \in Nat] ==
        IF n <= 1 THEN base
        ELSE LET d == delay[n - 1]
             IN IF d >= max THEN d ELSE Wrapped(2 * d)
  IN delay

(* delay after the loop `for current := 1; current < attempt ..', with the  *)
(* early return when doubling would pass the maximum.                      *)
DelayAfter(base, max) ==
  LET delay[n \in Nat] ==
        IF n <= 1 THEN base
        ELSE LET d == delay[n - 1]
             IN IF d >= max THEN d
                ELSE IF d > max \div 2 THEN max
                ELSE Wrapped(2 * d)
  IN delay

(* An attempt below 1 counts as 1: DelayAfter gives base for it. *)
retryDelay(base, max, attempt) ==
  LET delay == DelayAfter(base, max)[attempt]
  IN IF delay > max THEN max ELSE delay

=============================================================================
