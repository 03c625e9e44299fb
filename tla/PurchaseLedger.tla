--------------------------- MODULE PurchaseLedger ---------------------------
(***************************************************************************)
(* What a checkout promises about the database file: an order, the items   *)
(* of the order and the sales counters of its books appear together or not *)
(* at all.  Checkout.tla implements this with a transaction, and crashes   *)
(* in every step of it.                                                    *)
(***************************************************************************)
EXTENDS Naturals

CONSTANTS
  User, Book,
  SeededSales   \* Books.totalSales of the sample data

VARIABLES
  orders,   \* number of completed orders of each user
  bought,   \* number of order items of each user for each book
  sales     \* Books.totalSales

vars == <<orders, bought, sales>>

\* f with one added on every element of S.
Bump(f, S) == [x \in DOMAIN f |-> IF x \in S THEN f[x] + 1 ELSE f[x]]

Init ==
  /\ orders = [u \in User |-> 0]
  /\ bought = [u \in User |-> [b \in Book |-> 0]]
  /\ sales = SeededSales

Purchase(u, B) ==
  /\ orders' = Bump(orders, {u})
  /\ bought' = [bought EXCEPT ![u] = Bump(bought[u], B)]
  /\ sales' = Bump(sales, B)

\* A publisher rewrites his book, which starts its counter again.
Rewrite(b) ==
  /\ sales' = [sales EXCEPT ![b] = 0]
  /\ UNCHANGED <<orders, bought>>

Next ==
  \/ \E u \in User, B \in (SUBSET Book) \ {{}} : Purchase(u, B)
  \/ \E b \in Book : Rewrite(b)

Spec == Init /\ [][Next]_vars
=============================================================================
