------------------------------ MODULE MCCheckout ------------------------------
(* Instances of Checkout for TLC: the configurations name their customers,  *)
(* requests, checkouts, products and prices as model values and numbers.   *)
EXTENDS Checkout

=============================================================================
