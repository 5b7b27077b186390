----------------------------- MODULE CheckoutTotals -----------------------------
(***************************************************************************)
(* The subtotal of a cart (Service.PlaceOrder, application/service.go), in *)
(* centavos, which may overflow.                                           *)
(***************************************************************************)
EXTENDS FixedWidth, Sequences

Invalid == -1   \* ErrInvalidInput; a subtotal is never negative

(* Mutant: the line is checked, the sum is not. *)
AddLine_SumUnchecked(subtotal, line) ==
  IF subtotal = Invalid \/ line.price > MaxInt \div line.quantity
  THEN Invalid
  ELSE Wrapped(subtotal + Wrapped(line.price * line.quantity))

(* A line is refused when its own total or the sum would not fit. *)
AddLine(subtotal, line) ==
  IF \/ subtotal = Invalid
     \/ line.price > MaxInt \div line.quantity
     \/ subtotal > MaxInt - Wrapped(line.price * line.quantity)
  THEN Invalid
  ELSE Wrapped(subtotal + Wrapped(line.price * line.quantity))

(* The loop over the lines. *)
Subtotal(lines) ==
  LET subtotal[n \in 0 .. Len(lines)] ==
        IF n = 0 THEN 0 ELSE AddLine(subtotal[n - 1], lines[n])
  IN subtotal[Len(lines)]

=============================================================================
