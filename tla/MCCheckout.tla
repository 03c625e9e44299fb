----------------------------- MODULE MCCheckout -----------------------------
(* Checkout on a small instance: reza, whose Carts row is seeded, and the  *)
(* fresh user mina; two books, so that an order can be half written: b1    *)
(* comes with sales and a notice of one, as book-001 does, b2 with none.   *)
EXTENDS Checkout, TLC

CONSTANTS reza, mina, b1, b2

MCUser == {reza, mina}
MCSeeded == {reza}
MCBook == {b1, b2}

MCSeededSales == (b1 :> 2) @@ (b2 :> 0)
MCSeededNotices == (b1 :> 1) @@ (b2 :> 0)

\* The runs with failing statements have one user.
MCOneUser == {reza}
=============================================================================
