----------------------------- MODULE MCCheckout -----------------------------
(* Instances of Checkout for TLC. *)
EXTENDS Checkout, TLC

CONSTANTS p1, p2

PriceByProduct == (p1 :> 1) @@ (p2 :> 1)
StockByProduct == (p1 :> 1) @@ (p2 :> 1)

=============================================================================
