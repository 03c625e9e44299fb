--------------------------- MODULE CheckoutProofs ---------------------------
(***************************************************************************)
(* Proofs about Checkout, for any users, books and bound: how often a book *)
(* can be bought, that a confirmed purchase lasts, that the database file  *)
(* goes through purchases that are atomic, and that the counters of sales  *)
(* and the notices to publishers go with the items sold.                   *)
(***************************************************************************)
EXTENDS Checkout, FiniteSetTheorems, TLAPS

\* The shape of a running checkout: which of its variables are in use, and
\* that only an open transaction separates db from disk.
RunShape ==
  /\ pc = "idle" => order = {} /\ todo = {}
  /\ pc # "idle" => order # {}
  /\ pc \in {"idle", "clear", "notify"} => ~ inTx
  /\ ~ inTx \/ pc = "order" => db = disk
  /\ pc \in {"order", "items", "sales", "commit", "clear"} => order = cart[customer]

\* A transaction only adds items.
OnlyAdds ==
  \A u \in User, b \in Book : disk.bought[u][b] <= db.bought[u][b]

\* The order of u has put an item for b in db that the cart still holds too.
Served(u, b) ==
  /\ u = customer
  /\ \/ pc \in {"sales", "commit", "clear"}
     \/ pc = "items" /\ b \notin todo

\* What a cart holds may be bought once more.
CartBuyable ==
  \A u \in User : \A b \in cart[u] :
    /\ ~ Served(u, b) => db.bought[u][b] <= leftover[u]
    /\ inTx => disk.bought[u][b] <= leftover[u]

AllBounded ==
  \A u \in User, b \in Book : db.bought[u][b] <= 1 + leftover[u]

CopiesInv == TypeOK /\ RunShape /\ OnlyAdds /\ CartBuyable /\ AllBounded

-----------------------------------------------------------------------------
(* What the statements do to the tables.                                   *)

LEMMA AddOrderFacts ==
  ASSUME NEW t \in Tables, NEW u \in User
  PROVE  /\ AddOrder(t, u) \in Tables
         /\ AddOrder(t, u).bought = t.bought
         /\ AddOrder(t, u).sales = t.sales
         /\ AddOrder(t, u).orders = [t.orders EXCEPT ![u] = @ + 1]
  BY DEF AddOrder, Tables

LEMMA AddItemFacts ==
  ASSUME NEW t \in Tables, NEW u \in User, NEW b \in Book
  PROVE  /\ AddItem(t, u, b) \in Tables
         /\ AddItem(t, u, b).orders = t.orders
         /\ AddItem(t, u, b).sales = t.sales
         /\ \A v \in User, c \in Book :
              AddItem(t, u, b).bought[v][c] =
                IF v = u /\ c = b THEN t.bought[v][c] + 1 ELSE t.bought[v][c]
<1> DEFINE row == [t.bought[u] EXCEPT ![b] = @ + 1]
<1>1. t.orders \in [User -> Nat] /\ t.bought \in [User -> [Book -> Nat]]
      /\ t.sales \in [Book -> Nat]
  BY DEF Tables
<1>2. row \in [Book -> Nat] /\ \A c \in Book :
        row[c] = IF c = b THEN t.bought[u][c] + 1 ELSE t.bought[u][c]
  BY <1>1
<1>3. AddItem(t, u, b) = [orders |-> t.orders, sales |-> t.sales,
                          bought |-> [t.bought EXCEPT ![u] = row]]
  BY DEF AddItem
<1> HIDE DEF row
<1>4. [t.bought EXCEPT ![u] = row] \in [User -> [Book -> Nat]]
  BY <1>1, <1>2
<1> QED
  BY <1>1, <1>2, <1>3, <1>4 DEF Tables

LEMMA AddSaleFacts ==
  ASSUME NEW t \in Tables, NEW b \in Book
  PROVE  /\ AddSale(t, b) \in Tables
         /\ AddSale(t, b).orders = t.orders
         /\ AddSale(t, b).bought = t.bought
         /\ AddSale(t, b).sales = [t.sales EXCEPT ![b] = @ + 1]
  BY DEF AddSale, Tables

LEMMA ResetSalesFacts ==
  ASSUME NEW t \in Tables, NEW b \in Book
  PROVE  /\ ResetSales(t, b) \in Tables
         /\ ResetSales(t, b).orders = t.orders
         /\ ResetSales(t, b).bought = t.bought
         /\ ResetSales(t, b).sales = [t.sales EXCEPT ![b] = 0]
  BY DEF ResetSales, Tables

-----------------------------------------------------------------------------
(* Initial states.                                                         *)

LEMMA InitCopiesInv == Init => CopiesInv
<1> SUFFICES ASSUME Init PROVE CopiesInv
  OBVIOUS
<1>1. db \in Tables /\ \A u \in User, b \in Book : db.bought[u][b] = 0
  BY CheckoutAssumption DEF Init, Tables
<1>2. TypeOK
  BY <1>1, CheckoutAssumption DEF Init, TypeOK, Steps
<1>3. RunShape
  BY DEF Init, RunShape
<1>4. OnlyAdds /\ CartBuyable /\ AllBounded
  BY <1>1 DEF Init, OnlyAdds, CartBuyable, AllBounded
<1> QED
  BY <1>2, <1>3, <1>4 DEF CopiesInv

(* Type correctness.                                                       *)

LEMMA CustomerIsUser == TypeOK /\ pc # "idle" => customer \in User
  BY DEF TypeOK

LEMMA TypeStep == TypeOK /\ [Next]_vars => TypeOK'
<1> SUFFICES ASSUME TypeOK, [Next]_vars PROVE TypeOK'
  OBVIOUS
<1> USE CheckoutAssumption DEF TypeOK, Steps
<1>1. ASSUME NEW u \in User, GetCart(u) PROVE TypeOK'
  BY <1>1 DEF GetCart, OpenCart, CartOnly, runVars, histVars
<1>2. ASSUME NEW u \in User, ClearCart(u) PROVE TypeOK'
  BY <1>2 DEF ClearCart, CartOnly, runVars, histVars
<1>3. ASSUME NEW u \in User, StartCheckout(u) PROVE TypeOK'
  BY <1>3 DEF StartCheckout, StartIn, OpenCart, histVars
<1>4. ASSUME NEW u \in User, NEW b \in Book, AddToCart(u, b) PROVE TypeOK'
  BY <1>4 DEF AddToCart, PutInCart, OpenCart, CartOnly, runVars, histVars
<1>5. ASSUME NEW u \in User, NEW b \in Book, RemoveFromCart(u, b) PROVE TypeOK'
  BY <1>5 DEF RemoveFromCart, OpenCart, CartOnly, runVars, histVars
<1>6. ASSUME NEW b \in Book, UpdateBook(b) PROVE TypeOK'
  BY <1>6, ResetSalesFacts DEF UpdateBook, BookOnly, cartVars, runVars
<1>7. ASSUME NEW b \in Book, NEW on \in BOOLEAN, SetActive(b, on) PROVE TypeOK'
  BY <1>7 DEF SetActive, BookOnly, cartVars, runVars
<1>8. ASSUME NEW b \in Book, SaveItem(b) PROVE TypeOK'
  <2>1. customer \in User /\ pc = "items"
    BY <1>8, CustomerIsUser DEF SaveItem
  <2>2. AddItem(db, customer, b) \in Tables
    BY <2>1, AddItemFacts
  <2>3. db' \in Tables /\ disk' \in Tables
    BY <1>8, <2>2 DEF SaveItem, Statement
  <2> QED
    BY <1>8, <2>1, <2>3 DEF SaveItem, Visit, cartVars, histVars
<1>9. ASSUME NEW b \in Book, BumpSales(b) PROVE TypeOK'
  <2>1. customer \in User /\ pc = "sales"
    BY <1>9, CustomerIsUser DEF BumpSales
  <2>2. AddSale(db, b) \in Tables
    BY <2>1, AddSaleFacts
  <2>3. db' \in Tables /\ disk' \in Tables
    BY <1>9, <2>2 DEF BumpSales, Statement
  <2> QED
    BY <1>9, <2>1, <2>3 DEF BumpSales, Visit, cartVars, histVars
<1>10. ASSUME NEW b \in Book, NotifySale(b) PROVE TypeOK'
  <2>1. notices' \in [Book -> Nat]
    BY <1>10 DEF NotifySale
  <2>2. CASE todo = {b}
    BY <1>10, <2>1, <2>2 DEF NotifySale, Leave, cartVars, histVars
  <2>3. CASE todo # {b}
    BY <1>10, <2>1, <2>3 DEF NotifySale, cartVars, histVars
  <2> QED
    BY <2>2, <2>3
<1>11. CASE SaveOrder
  <2>1. customer \in User /\ pc = "order"
    BY <1>11, CustomerIsUser DEF SaveOrder
  <2>2. AddOrder(db, customer) \in Tables
    BY <2>1, AddOrderFacts
  <2>3. db' \in Tables /\ disk' \in Tables
    BY <1>11, <2>2 DEF SaveOrder, Statement, RollBack
  <2> QED
    BY <1>11, <2>1, <2>3 DEF SaveOrder, Leave, cartVars, histVars
<1>12. CASE Commit
  BY <1>12 DEF Commit, RollBack, Leave, cartVars, histVars
<1>13. CASE ClearAfterCheckout
  BY <1>13 DEF ClearAfterCheckout
<1>14. CASE Crash
  <2>1. leftover' \in [User -> Nat]
    BY <1>14, CustomerIsUser DEF Crash, OrderOnDisk
  <2> QED
    BY <1>14, <2>1 DEF Crash, RollBack, Leave, cartVars
<1>15. CASE UNCHANGED vars
  BY <1>15 DEF vars, cartVars, runVars, histVars
<1> QED
  BY <1>1, <1>2, <1>3, <1>4, <1>5, <1>6, <1>7, <1>8, <1>9, <1>10, <1>11, <1>12,
     <1>13, <1>14, <1>15 DEF Next, ApplyDiscount

-----------------------------------------------------------------------------
(* How often a book can be bought.                                         *)

LEMMA ShapeStep == TypeOK /\ RunShape /\ [Next]_vars => RunShape'
<1> SUFFICES ASSUME TypeOK, RunShape, [Next]_vars PROVE RunShape'
  OBVIOUS
<1> USE DEF RunShape
<1>1. ASSUME NEW u \in User,
             \/ GetCart(u) \/ ClearCart(u)
             \/ \E b \in Book : AddToCart(u, b) \/ RemoveFromCart(u, b)
      PROVE  RunShape'
  BY <1>1 DEF GetCart, ClearCart, AddToCart, PutInCart, RemoveFromCart, CartOnly, runVars
<1>2. ASSUME NEW u \in User, StartCheckout(u) PROVE RunShape'
  BY <1>2 DEF StartCheckout, StartIn
<1>3. ASSUME NEW b \in Book, UpdateBook(b) PROVE RunShape'
  BY <1>3 DEF UpdateBook, BookOnly, cartVars, runVars
<1>4. ASSUME NEW b \in Book, NEW on \in BOOLEAN, SetActive(b, on) PROVE RunShape'
  BY <1>4 DEF SetActive, BookOnly, cartVars, runVars
<1>5. ASSUME NEW b \in Book, SaveItem(b) PROVE RunShape'
  BY <1>5 DEF SaveItem, Visit, Statement, cartVars
<1>6. ASSUME NEW b \in Book, BumpSales(b) PROVE RunShape'
  BY <1>6 DEF BumpSales, Visit, Statement, cartVars
<1>7. ASSUME NEW b \in Book, NotifySale(b) PROVE RunShape'
  BY <1>7 DEF NotifySale, Leave, cartVars
<1>8. CASE SaveOrder
  BY <1>8 DEF SaveOrder, Statement, RollBack, Leave, cartVars
<1>9. CASE Commit
  BY <1>9 DEF Commit, RollBack, Leave, cartVars
<1>10. CASE ClearAfterCheckout
  BY <1>10 DEF ClearAfterCheckout
<1>11. CASE Crash
  BY <1>11 DEF Crash, RollBack, Leave
<1>12. CASE UNCHANGED vars
  BY <1>12 DEF vars, cartVars, runVars
<1> QED
  BY <1>1, <1>2, <1>3, <1>4, <1>5, <1>6, <1>7, <1>8, <1>9, <1>10, <1>11, <1>12
     DEF Next, ApplyDiscount

LEMMA CopiesStep ==
  CopiesInv /\ [Next]_vars => OnlyAdds' /\ CartBuyable' /\ AllBounded'
<1> DEFINE Goal == OnlyAdds' /\ CartBuyable' /\ AllBounded'
<1> SUFFICES ASSUME CopiesInv, [Next]_vars PROVE Goal
  OBVIOUS
<1> USE DEF OnlyAdds, CartBuyable, AllBounded
<1>a. TypeOK /\ RunShape /\ OnlyAdds /\ CartBuyable /\ AllBounded
  BY DEF CopiesInv
<1>b. /\ db \in Tables /\ disk \in Tables
      /\ \A u \in User, b \in Book : db.bought[u][b] \in Nat /\ disk.bought[u][b] \in Nat
      /\ leftover \in [User -> Nat] /\ cart \in [User -> SUBSET Book]
      /\ order \subseteq Book /\ todo \subseteq order
  BY <1>a DEF TypeOK, Tables
<1>1. ASSUME NEW u \in User,
             \/ GetCart(u) \/ ClearCart(u)
             \/ \E b \in Book : AddToCart(u, b) \/ RemoveFromCart(u, b)
      PROVE  Goal
  <2>1. pc = "idle" /\ UNCHANGED <<db, disk, pc, inTx, leftover>> /\ ~ inTx
    BY <1>1, <1>a DEF RunShape, GetCart, ClearCart, AddToCart, PutInCart,
       RemoveFromCart, CartOnly, runVars, histVars
  <2>2. \A v \in User : \A b \in cart'[v] : b \in Book /\
          (b \in cart[v] \/ db.bought[v][b] <= 0)
    BY <1>1, <1>b DEF GetCart, ClearCart, AddToCart, PutInCart, RemoveFromCart,
       Purchased
  <2> QED
    BY <2>1, <2>2, <1>a, <1>b DEF Served
<1>2. ASSUME NEW u \in User, StartCheckout(u) PROVE Goal
  <2>1. pc = "idle" /\ pc' = "order" /\ UNCHANGED <<db, disk, cart, leftover>>
        /\ db = disk
    BY <1>2, <1>a DEF RunShape, StartCheckout, StartIn, histVars
  <2> QED
    BY <2>1, <1>a, <1>b DEF Served
<1>3. ASSUME NEW b \in Book, UpdateBook(b) PROVE Goal
  <2>1. pc = "idle" /\ ~ inTx /\ db = disk /\ UNCHANGED <<pc, inTx, cart, leftover>>
        /\ db'.bought = db.bought /\ disk'.bought = disk.bought
    BY <1>3, <1>a, <1>b, ResetSalesFacts DEF RunShape, UpdateBook, BookOnly, cartVars,
       runVars
  <2> QED
    BY <2>1, <1>a, <1>b DEF Served
<1>4. ASSUME NEW b \in Book, NEW on \in BOOLEAN, SetActive(b, on) PROVE Goal
  <2>1. UNCHANGED <<db, disk, pc, inTx, customer, todo, cart, leftover>>
    BY <1>4 DEF SetActive, BookOnly, cartVars, runVars
  <2> QED
    BY <2>1, <1>a DEF Served
<1>5. ASSUME NEW b \in Book, SaveItem(b) PROVE Goal
  <2>1. /\ pc = "items" /\ customer \in User /\ b \in todo /\ b \in cart[customer]
        /\ pc' \in {"items", "sales"} /\ (pc' = "items" => todo' = todo \ {b})
        /\ UNCHANGED <<customer, cart, leftover, inTx>>
    BY <1>5, <1>a, <1>b, CustomerIsUser DEF SaveItem, Visit, RunShape, cartVars,
       histVars
  <2>2. db.bought[customer][b] <= leftover[customer]
    BY <2>1, <1>a DEF Served
  <2>3. CASE UNCHANGED <<db, disk>>
    BY <2>1, <2>2, <2>3, <1>a, <1>b DEF Served
  <2>4. CASE Statement(AddItem(db, customer, b))
    <3>1. \A v \in User, c \in Book :
             db'.bought[v][c] = IF v = customer /\ c = b THEN db.bought[v][c] + 1
                                ELSE db.bought[v][c]
      <4>1. db' = AddItem(db, customer, b) /\ customer \in User
        BY <2>1, <2>4 DEF Statement
      <4> QED
        BY <4>1, <1>b, AddItemFacts
    <3>2. disk' = IF inTx THEN disk ELSE db'
      BY <2>4 DEF Statement
    <3>3. OnlyAdds' /\ AllBounded'
      BY <2>1, <2>2, <3>1, <3>2, <1>a, <1>b
    <3>4. CartBuyable'
      BY <2>1, <2>2, <3>1, <3>2, <1>a, <1>b DEF Served
    <3> QED
      BY <3>3, <3>4
  <2> QED
    BY <1>5, <2>3, <2>4 DEF SaveItem
<1>6. ASSUME NEW b \in Book, BumpSales(b) PROVE Goal
  <2>1. /\ pc = "sales" /\ pc' \in {"sales", "commit"}
        /\ UNCHANGED <<customer, cart, leftover, inTx>>
    BY <1>6 DEF BumpSales, Visit, cartVars, histVars
  <2>2. AddSale(db, b).bought = db.bought
    BY <1>b, AddSaleFacts
  <2>3. /\ db'.bought = db.bought
        /\ \/ disk'.bought = disk.bought
           \/ ~ inTx /\ disk'.bought = db.bought
    <3>1. Statement(AddSale(db, b)) \/ UNCHANGED <<db, disk>>
      BY <1>6 DEF BumpSales
    <3> QED
      BY <2>2, <3>1 DEF Statement
  <2> QED
    BY <2>1, <2>3, <1>a, <1>b DEF Served
<1>7. ASSUME NEW b \in Book, NotifySale(b) PROVE Goal
  <2>1. /\ pc = "notify" /\ pc' \in {"notify", "idle"} /\ ~ inTx' /\ ~ inTx
        /\ UNCHANGED <<db, disk, cart, leftover>>
    BY <1>7, <1>a DEF NotifySale, Leave, RunShape, cartVars, histVars
  <2> QED
    BY <2>1, <1>a, <1>b DEF Served
<1>8. CASE SaveOrder
  <2>1. pc = "order" /\ db = disk /\ UNCHANGED <<cart, leftover>> /\ customer \in User
    BY <1>8, <1>a, CustomerIsUser DEF SaveOrder, RunShape, cartVars, histVars
  <2>2. \/ pc' = "items" /\ todo' = order /\ UNCHANGED <<customer, inTx>>
        \/ pc' = "idle" /\ ~ inTx'
    BY <1>8 DEF SaveOrder, Leave
  <2>3. AddOrder(db, customer).bought = db.bought
    BY <1>b, <2>1, AddOrderFacts
  <2>4. db'.bought = db.bought /\ disk'.bought = disk.bought
    BY <1>8, <2>1, <2>3 DEF SaveOrder, Statement, RollBack
  <2>5. order = cart[customer]
    BY <2>1, <1>a DEF RunShape
  <2> QED
    BY <2>1, <2>2, <2>4, <2>5, <1>a, <1>b DEF Served
<1>9. CASE Commit
  <2>1. pc = "commit" /\ UNCHANGED <<cart, leftover>> /\ ~ inTx'
    BY <1>9 DEF Commit, Leave, cartVars, histVars
  <2>2. CASE disk' = db /\ db' = db /\ pc' = "clear" /\ customer' = customer
    BY <2>1, <2>2, <1>a, <1>b DEF Served
  <2>3. CASE inTx /\ disk' = disk /\ db' = disk
    BY <2>1, <2>3, <1>a, <1>b DEF Served
  <2> QED
    BY <1>9, <2>2, <2>3 DEF Commit, RollBack
<1>10. CASE ClearAfterCheckout
  <2>1. pc = "clear" /\ pc' = "notify" /\ UNCHANGED <<db, disk, inTx>> /\ ~ inTx
        /\ customer \in User
    BY <1>10, <1>a, CustomerIsUser DEF ClearAfterCheckout, RunShape
  <2>2. CASE cart' = [cart EXCEPT ![customer] = {}] /\ leftover' = leftover
    BY <2>1, <2>2, <1>a, <1>b DEF Served
  <2>3. CASE leftover' = [leftover EXCEPT ![customer] = @ + 1] /\ cart' = cart
    BY <2>1, <2>3, <1>a, <1>b DEF Served
  <2> QED
    BY <1>10, <2>2, <2>3 DEF ClearAfterCheckout
<1>11. CASE Crash
  <2>1. db' = disk /\ disk' = disk /\ ~ inTx' /\ cart' = cart
    BY <1>11 DEF Crash, RollBack, Leave, cartVars
  <2>2. CASE OrderOnDisk
    <3>1. customer \in User /\ leftover' = [leftover EXCEPT ![customer] = @ + 1]
      BY <1>11, <2>2, <1>a, CustomerIsUser DEF Crash, OrderOnDisk
    <3>2. ~ inTx /\ db = disk
      BY <2>2, <1>a DEF OrderOnDisk, RunShape
    <3> QED
      BY <2>1, <3>1, <3>2, <1>a, <1>b DEF Served
  <2>3. CASE ~ OrderOnDisk
    <3>1. leftover' = leftover
      BY <1>11, <2>3 DEF Crash
    <3>2. \A u \in User : \A b \in cart[u] : disk.bought[u][b] <= leftover[u]
      <4>1. CASE inTx
        BY <4>1, <1>a
      <4>2. CASE ~ inTx
        <5>1. db = disk /\ pc \notin {"items", "sales", "commit", "clear"}
          BY <4>2, <2>3, <1>a DEF RunShape, OrderOnDisk
        <5> QED
          BY <5>1, <1>a DEF Served
      <4> QED
        BY <4>1, <4>2
    <3>3. \A u \in User, b \in Book : disk.bought[u][b] <= 1 + leftover[u]
      BY <1>a, <1>b
    <3> QED
      BY <2>1, <3>1, <3>2, <3>3, <1>b
  <2> QED
    BY <2>2, <2>3
<1>12. CASE UNCHANGED vars
  BY <1>12, <1>a DEF vars, cartVars, runVars, histVars, Served
<1> QED
  BY <1>1, <1>2, <1>3, <1>4, <1>5, <1>6, <1>7, <1>8, <1>9, <1>10, <1>11, <1>12
     DEF Next, ApplyDiscount

-----------------------------------------------------------------------------
(* Theorems.                                                               *)

\* The invariant that carries the proof.
THEOREM SpecCopiesInv == Spec => []CopiesInv
<1>1. CopiesInv /\ [Next]_vars => CopiesInv'
  BY TypeStep, ShapeStep, CopiesStep DEF CopiesInv
<1> QED
  BY InitCopiesInv, <1>1, PTL DEF Spec

\* Every reachable state has the types of TypeOK.
THEOREM TypeCorrect == Spec => []TypeOK
<1>1. CopiesInv => TypeOK
  BY DEF CopiesInv
<1> QED
  BY SpecCopiesInv, <1>1, PTL

\* Whatever fails and whenever the server dies, a user is sold a book again
\* only out of a cart that outlived its order, once for each such cart.
THEOREM BookSoldAgainOnlyFromLeftover == Spec => []DuplicatesOnlyFromLeftovers
<1>1. CopiesInv => DuplicatesOnlyFromLeftovers
  <2> SUFFICES ASSUME CopiesInv, NEW u \in User, NEW b \in Book
               PROVE  disk.bought[u][b] <= 1 + leftover[u]
    BY DEF DuplicatesOnlyFromLeftovers
  <2>1. disk.bought[u][b] \in Nat /\ db.bought[u][b] \in Nat /\ leftover[u] \in Nat
    BY DEF CopiesInv, TypeOK, Tables
  <2>2. disk.bought[u][b] <= db.bought[u][b] /\ db.bought[u][b] <= 1 + leftover[u]
    BY DEF CopiesInv, OnlyAdds, AllBounded
  <2> QED
    BY <2>1, <2>2
<1> QED
  BY SpecCopiesInv, <1>1, PTL

-----------------------------------------------------------------------------
(* When no statement fails: the database file goes through purchases that  *)
(* are atomic, however often the server dies, and a purchase the client    *)
(* was told of is on disk.                                                 *)

InTransaction == pc \in {"order", "items", "sales", "commit"}

\* The books whose item, and whose sales counter, db has and disk has not.
ItemWritten(b) ==
  b \in order /\ (pc \in {"sales", "commit"} \/ (pc = "items" /\ b \notin todo))

SaleWritten(b) ==
  b \in order /\ (pc = "commit" \/ (pc = "sales" /\ b \notin todo))

\* db is disk with the finished part of the order in it.
PartOfOrder ==
  InTransaction =>
    /\ inTx
    /\ \A u \in User :
         db.orders[u] = disk.orders[u] + IF u = customer /\ pc # "order" THEN 1 ELSE 0
    /\ \A u \in User, b \in Book :
         db.bought[u][b] =
           disk.bought[u][b] + IF u = customer /\ ItemWritten(b) THEN 1 ELSE 0
    /\ \A b \in Book :
         db.sales[b] = disk.sales[b] + IF SaleWritten(b) THEN 1 ELSE 0

\* An order that is committed has its items on disk, and so has what the
\* client was told.
OrderKept ==
  /\ pc = "clear" => \A b \in order : disk.bought[customer][b] > 0
  /\ ConfirmedPurchasesDurable

LedgerInv == CopiesInv /\ PartOfOrder /\ OrderKept

LEMMA InitLedgerInv == Init => LedgerInv
<1> SUFFICES ASSUME Init PROVE LedgerInv
  OBVIOUS
<1>1. CopiesInv
  BY InitCopiesInv
<1>2. PartOfOrder /\ OrderKept
  BY DEF Init, PartOfOrder, InTransaction, OrderKept, ConfirmedPurchasesDurable
<1> QED
  BY <1>1, <1>2 DEF LedgerInv

LEMMA Typing ==
  ASSUME CopiesInv
  PROVE  /\ db \in Tables /\ disk \in Tables
         /\ \A u \in User : db.orders[u] \in Nat /\ disk.orders[u] \in Nat
         /\ \A u \in User, b \in Book :
              db.bought[u][b] \in Nat /\ disk.bought[u][b] \in Nat
         /\ \A b \in Book : db.sales[b] \in Nat /\ disk.sales[b] \in Nat
         /\ order \subseteq Book /\ todo \subseteq order
         /\ confirmed \in [User -> SUBSET Book]
         /\ pc # "idle" => customer \in User /\ order # {}
  BY CustomerIsUser DEF CopiesInv, TypeOK, Tables, RunShape

-----------------------------------------------------------------------------
(* The transaction.                                                        *)

LEMMA PartStep ==
  ASSUME ~ Faults
  PROVE  LedgerInv /\ [Next]_vars => PartOfOrder'
<1> SUFFICES ASSUME LedgerInv, [Next]_vars PROVE PartOfOrder'
  OBVIOUS
<1>a. CopiesInv /\ PartOfOrder /\ RunShape
  BY DEF LedgerInv, CopiesInv
<1>b. /\ db \in Tables /\ disk \in Tables
      /\ \A u \in User : db.orders[u] \in Nat /\ disk.orders[u] \in Nat
      /\ \A u \in User, b \in Book :
           db.bought[u][b] \in Nat /\ disk.bought[u][b] \in Nat
      /\ \A b \in Book : db.sales[b] \in Nat /\ disk.sales[b] \in Nat
      /\ order \subseteq Book /\ todo \subseteq order
      /\ pc # "idle" => customer \in User
  BY <1>a, Typing
<1> USE DEF PartOfOrder, InTransaction, ItemWritten, SaleWritten
<1>1. CASE pc' \notin {"order", "items", "sales", "commit"}
  BY <1>1
<1>2. ASSUME NEW u \in User, StartCheckout(u) PROVE PartOfOrder'
  <2>1. pc = "idle" /\ pc' = "order" /\ inTx' = TRUE /\ UNCHANGED <<db, disk>>
    BY <1>2 DEF StartCheckout, StartIn
  <2>2. db = disk
    BY <2>1, <1>a DEF RunShape
  <2> QED
    BY <2>1, <2>2, <1>b
<1>3. ASSUME SaveOrder PROVE PartOfOrder'
  <2>1. /\ pc = "order" /\ pc' = "items" /\ todo' = order /\ customer \in User
        /\ UNCHANGED <<customer, order, inTx>>
        /\ Statement(AddOrder(db, customer))
    BY <1>3, <1>b DEF SaveOrder
  <2>2. db' = AddOrder(db, customer) /\ disk' = disk /\ inTx
    BY <2>1, <1>a DEF Statement
  <2>3. /\ db'.bought = db.bought /\ db'.sales = db.sales
        /\ \A u \in User : db'.orders[u] = db.orders[u] + IF u = customer THEN 1 ELSE 0
    <3>1. db.orders \in [User -> Nat]
      BY <1>b DEF Tables
    <3>2. /\ AddOrder(db, customer).bought = db.bought
          /\ AddOrder(db, customer).sales = db.sales
          /\ AddOrder(db, customer).orders = [db.orders EXCEPT ![customer] = @ + 1]
      BY <2>1, <1>b, AddOrderFacts
    <3> QED
      BY <2>2, <3>1, <3>2, <1>b
  <2> QED
    BY <2>1, <2>2, <2>3, <1>a, <1>b
<1>4. ASSUME NEW b \in Book, SaveItem(b) PROVE PartOfOrder'
  <2>1. /\ pc = "items" /\ customer \in User /\ b \in todo
        /\ todo' = IF todo = {b} THEN order ELSE todo \ {b}
        /\ pc' = IF todo = {b} THEN "sales" ELSE pc
        /\ UNCHANGED <<customer, order, inTx>>
        /\ Statement(AddItem(db, customer, b))
    BY <1>4, <1>b DEF SaveItem, Visit
  <2>2. db' = AddItem(db, customer, b) /\ disk' = disk /\ inTx
    BY <2>1, <1>a DEF Statement
  <2>3. /\ db'.orders = db.orders /\ db'.sales = db.sales
        /\ \A v \in User, c \in Book :
             db'.bought[v][c] = db.bought[v][c] + IF v = customer /\ c = b THEN 1 ELSE 0
    <3>1. db \in Tables /\ customer \in User
      BY <1>b, <2>1
    <3>2. /\ AddItem(db, customer, b).orders = db.orders
          /\ AddItem(db, customer, b).sales = db.sales
          /\ \A v \in User, c \in Book :
               AddItem(db, customer, b).bought[v][c] =
                 IF v = customer /\ c = b THEN db.bought[v][c] + 1 ELSE db.bought[v][c]
      BY <3>1, AddItemFacts
    <3> QED
      BY <2>2, <3>2, <1>b
  <2>4. \A c \in Book : ItemWritten(c)' <=> ItemWritten(c) \/ c = b
    BY <2>1, <1>b
  <2>5. ~ ItemWritten(b) /\ \A c \in Book : ~ SaleWritten(c) /\ ~ SaleWritten(c)'
    BY <2>1
  <2> QED
    BY <2>1, <2>2, <2>3, <2>4, <2>5, <1>a, <1>b
<1>5. ASSUME NEW b \in Book, BumpSales(b) PROVE PartOfOrder'
  <2>1. /\ pc = "sales" /\ customer \in User /\ b \in todo
        /\ todo' = IF todo = {b} THEN order ELSE todo \ {b}
        /\ pc' = IF todo = {b} THEN "commit" ELSE pc
        /\ UNCHANGED <<customer, order, inTx>>
        /\ Statement(AddSale(db, b))
    BY <1>5, <1>b DEF BumpSales, Visit
  <2>2. db' = AddSale(db, b) /\ disk' = disk /\ inTx
    BY <2>1, <1>a DEF Statement
  <2>3. /\ db'.orders = db.orders /\ db'.bought = db.bought
        /\ \A c \in Book : db'.sales[c] = db.sales[c] + IF c = b THEN 1 ELSE 0
    <3>1. db.sales \in [Book -> Nat]
      BY <1>b DEF Tables
    <3>2. /\ AddSale(db, b).orders = db.orders
          /\ AddSale(db, b).bought = db.bought
          /\ AddSale(db, b).sales = [db.sales EXCEPT ![b] = @ + 1]
      BY <1>b, AddSaleFacts
    <3> QED
      BY <2>2, <3>1, <3>2, <1>b
  <2>4. \A c \in Book : SaleWritten(c)' <=> SaleWritten(c) \/ c = b
    BY <2>1, <1>b
  <2>5. ~ SaleWritten(b) /\ \A c \in Book : ItemWritten(c) <=> ItemWritten(c)'
    BY <2>1
  <2> QED
    BY <2>1, <2>2, <2>3, <2>4, <2>5, <1>a, <1>b
<1>6. CASE UNCHANGED vars
  BY <1>6, <1>a DEF vars, runVars
<1>7. \/ \E u \in User : StartCheckout(u)
      \/ SaveOrder
      \/ \E b \in Book : SaveItem(b) \/ BumpSales(b)
      \/ UNCHANGED vars
      \/ pc' \notin {"order", "items", "sales", "commit"}
  BY DEF Next, ApplyDiscount, GetCart, ClearCart, AddToCart, PutInCart, RemoveFromCart,
     CartOnly, UpdateBook, SetActive, BookOnly, NotifySale, Commit, ClearAfterCheckout,
     Crash, Leave, runVars
<1> QED
  BY <1>1, <1>2, <1>3, <1>4, <1>5, <1>6, <1>7

-----------------------------------------------------------------------------
(* What the client was told.                                               *)

\* Items on disk stay there.
LEMMA DiskOnlyGrows ==
  ASSUME CopiesInv, [Next]_vars
  PROVE  \A u \in User, b \in Book : disk'.bought[u][b] >= disk.bought[u][b]
<1> DEFINE Grows == \A u \in User, b \in Book : disk'.bought[u][b] >= disk.bought[u][b]
<1>a. /\ db \in Tables /\ disk \in Tables
      /\ \A u \in User, b \in Book :
           db.bought[u][b] \in Nat /\ disk.bought[u][b] \in Nat
      /\ \A u \in User, b \in Book : disk.bought[u][b] <= db.bought[u][b]
      /\ ~ inTx \/ pc = "order" => db = disk
      /\ pc = "idle" => ~ inTx
      /\ pc # "idle" => customer \in User
      /\ todo \subseteq Book
  BY Typing DEF CopiesInv, OnlyAdds, RunShape
<1>1. CASE disk' = disk
  BY <1>1, <1>a
<1>2. CASE disk' = db
  BY <1>2, <1>a
<1>3. ASSUME NEW b \in Book, UpdateBook(b) PROVE Grows
  <2>1. disk' = ResetSales(db, b)
    BY <1>3 DEF UpdateBook
  <2>2. ResetSales(db, b).bought = db.bought
    BY <1>a, ResetSalesFacts
  <2> QED
    BY <2>1, <2>2, <1>a
<1>4. CASE SaveOrder
  <2>1. customer \in User /\ (disk' = disk \/ disk' = AddOrder(db, customer))
    BY <1>4, <1>a DEF SaveOrder, Statement, RollBack
  <2>2. AddOrder(db, customer).bought = db.bought
    BY <2>1, <1>a, AddOrderFacts
  <2> QED
    BY <2>1, <2>2, <1>a
<1>5. ASSUME NEW b \in Book, SaveItem(b) PROVE Grows
  <2>1. customer \in User /\ (disk' = disk \/ disk' = AddItem(db, customer, b))
    BY <1>5, <1>a DEF SaveItem, Statement
  <2>2. db \in Tables
    BY <1>a
  <2>3. \A v \in User, c \in Book :
          AddItem(db, customer, b).bought[v][c] =
            IF v = customer /\ c = b THEN db.bought[v][c] + 1 ELSE db.bought[v][c]
    BY <2>1, <2>2, AddItemFacts
  <2> QED
    BY <2>1, <2>3, <1>a
<1>6. ASSUME NEW b \in Book, BumpSales(b) PROVE Grows
  <2>1. disk' = disk \/ disk' = AddSale(db, b)
    BY <1>6 DEF BumpSales, Statement
  <2>2. AddSale(db, b).bought = db.bought
    BY <1>a, AddSaleFacts
  <2> QED
    BY <2>1, <2>2, <1>a
<1>7. \/ disk' = disk \/ disk' = db
      \/ \E b \in Book : UpdateBook(b) \/ SaveItem(b) \/ BumpSales(b)
      \/ SaveOrder
  BY DEF Next, ApplyDiscount, GetCart, ClearCart, AddToCart, PutInCart, RemoveFromCart,
     CartOnly, StartCheckout, StartIn, SetActive, NotifySale, Commit,
     ClearAfterCheckout, Crash, RollBack, vars
<1> QED
  BY <1>1, <1>2, <1>3, <1>4, <1>5, <1>6, <1>7

LEMMA KeptStep ==
  ASSUME ~ Faults
  PROVE  LedgerInv /\ [Next]_vars => OrderKept'
<1> SUFFICES ASSUME LedgerInv, [Next]_vars PROVE OrderKept'
  OBVIOUS
<1>a. CopiesInv /\ PartOfOrder /\ OrderKept
  BY DEF LedgerInv
<1>b. /\ \A u \in User, b \in Book :
           db.bought[u][b] \in Nat /\ disk.bought[u][b] \in Nat
      /\ order \subseteq Book
      /\ confirmed \in [User -> SUBSET Book]
      /\ pc # "idle" => customer \in User
  BY <1>a, Typing
<1>c. \A u \in User, b \in Book :
        /\ disk'.bought[u][b] >= disk.bought[u][b]
        /\ disk.bought[u][b] > 0 => disk'.bought[u][b] > 0
  <2>1. CopiesInv'
    BY <1>a, TypeStep, ShapeStep, CopiesStep DEF CopiesInv
  <2>2. \A u \in User, b \in Book : disk'.bought[u][b] \in Nat
    BY <2>1 DEF CopiesInv, TypeOK, Tables
  <2>3. \A u \in User, b \in Book : disk'.bought[u][b] >= disk.bought[u][b]
    BY <1>a, DiskOnlyGrows
  <2> QED
    BY <2>2, <2>3, <1>b
<1>1. CASE Commit
  <2>1. pc = "commit" /\ pc' = "clear" /\ disk' = db
        /\ UNCHANGED <<customer, order, confirmed>> /\ customer \in User
    BY <1>1, <1>b DEF Commit, histVars
  <2>2. \A b \in order : db.bought[customer][b] = disk.bought[customer][b] + 1
    BY <2>1, <1>a, <1>b DEF PartOfOrder, InTransaction, ItemWritten
  <2> QED
    BY <2>1, <2>2, <1>a, <1>b, <1>c DEF OrderKept, ConfirmedPurchasesDurable
<1>2. CASE ClearAfterCheckout
  <2>1. /\ pc = "clear" /\ pc' = "notify" /\ disk' = disk /\ customer \in User
        /\ confirmed' = [confirmed EXCEPT ![customer] = @ \cup order]
    BY <1>2, <1>b DEF ClearAfterCheckout
  <2> QED
    BY <2>1, <1>a, <1>b DEF OrderKept, ConfirmedPurchasesDurable
<1>3. CASE pc' # "clear" /\ confirmed' = confirmed
  BY <1>3, <1>a, <1>b, <1>c DEF OrderKept, ConfirmedPurchasesDurable
<1>4. CASE UNCHANGED vars
  BY <1>4, <1>a DEF OrderKept, ConfirmedPurchasesDurable, vars, runVars, histVars
<1>5. \/ Commit \/ ClearAfterCheckout \/ UNCHANGED vars
      \/ pc' # "clear" /\ confirmed' = confirmed
  BY DEF Next, ApplyDiscount, GetCart, ClearCart, AddToCart, PutInCart, RemoveFromCart,
     CartOnly, StartCheckout, StartIn, UpdateBook, SetActive, BookOnly, SaveOrder,
     SaveItem, BumpSales, Visit, NotifySale, Crash, Leave, runVars, histVars
<1> QED
  BY <1>1, <1>2, <1>3, <1>4, <1>5

-----------------------------------------------------------------------------
(* The refinement.                                                         *)

LEMMA LedgerInit == Init => Ledger!Init
  BY DEF Init, Ledger!Init

\* A commit is the purchase of the whole order; any other step but UpdateBook
\* leaves the database file alone.
LEMMA LedgerStep ==
  ASSUME ~ Faults, LedgerInv, [Next]_vars
  PROVE  [Ledger!Next]_Ledger!vars
<1>a. CopiesInv /\ PartOfOrder
  BY DEF LedgerInv
<1>b. /\ db \in Tables /\ disk \in Tables
      /\ order \subseteq Book
      /\ pc # "idle" => customer \in User /\ order # {}
      /\ pc = "idle" => db = disk
  <2>1. CopiesInv /\ RunShape
    BY <1>a DEF CopiesInv
  <2>2. pc = "idle" => db = disk
    BY <2>1 DEF RunShape
  <2> QED
    BY <2>1, <2>2, Typing
<1>c. /\ db.orders \in [User -> Nat] /\ disk.orders \in [User -> Nat]
      /\ db.bought \in [User -> [Book -> Nat]] /\ disk.bought \in [User -> [Book -> Nat]]
      /\ db.sales \in [Book -> Nat] /\ disk.sales \in [Book -> Nat]
  BY <1>b DEF Tables
<1>1. CASE Commit
  <2>1. pc = "commit" /\ disk' = db /\ customer \in User /\ order # {}
    BY <1>1, <1>b DEF Commit
  <2>a. PartOfOrder /\ InTransaction
    BY <2>1, <1>a DEF InTransaction
  <2>2. db.orders = Ledger!Bump(disk.orders, {customer})
    <3>1. \A u \in User :
            db.orders[u] = IF u \in {customer} THEN disk.orders[u] + 1 ELSE disk.orders[u]
      BY <2>1, <2>a, <1>c DEF PartOfOrder
    <3> QED
      BY <3>1, <1>c DEF Ledger!Bump
  <2>3. db.sales = Ledger!Bump(disk.sales, order)
    <3>1. \A b \in Book :
            db.sales[b] = IF b \in order THEN disk.sales[b] + 1 ELSE disk.sales[b]
      BY <2>1, <2>a, <1>c DEF PartOfOrder, SaleWritten
    <3> QED
      BY <3>1, <1>c DEF Ledger!Bump
  <2>4. db.bought = [disk.bought EXCEPT ![customer] = Ledger!Bump(disk.bought[customer], order)]
    <3> DEFINE new == Ledger!Bump(disk.bought[customer], order)
    <3>1. \A b \in Book : new[b] = db.bought[customer][b]
      BY <2>1, <1>a, <1>c DEF PartOfOrder, InTransaction, ItemWritten, Ledger!Bump
    <3>2. new = db.bought[customer]
      BY <2>1, <3>1, <1>c DEF Ledger!Bump
    <3>3. \A u \in User \ {customer} : db.bought[u] = disk.bought[u]
      <4> SUFFICES ASSUME NEW u \in User \ {customer} PROVE db.bought[u] = disk.bought[u]
        OBVIOUS
      <4>1. \A b \in Book : db.bought[u][b] = disk.bought[u][b]
        BY <2>1, <1>a, <1>c DEF PartOfOrder, InTransaction
      <4>2. db.bought[u] \in [Book -> Nat] /\ disk.bought[u] \in [Book -> Nat]
        BY <1>c
      <4> QED
        BY <4>1, <4>2
    <3> HIDE DEF new
    <3>4. \A u \in User :
            db.bought[u] = [disk.bought EXCEPT ![customer] = new][u]
      BY <2>1, <3>2, <3>3, <1>c
    <3> QED
      BY <3>4, <1>c DEF new
  <2>5. Ledger!Purchase(customer, order)
    BY <2>1, <2>2, <2>3, <2>4 DEF Ledger!Purchase
  <2>6. order \in (SUBSET Book) \ {{}}
    BY <2>1, <1>b
  <2>7. Ledger!Next
    BY <2>1, <2>5, <2>6 DEF Ledger!Next
  <2> QED
    BY <2>7
<1>2. ASSUME NEW b \in Book, UpdateBook(b) PROVE Ledger!Next
  <2>1. disk' = ResetSales(disk, b)
    BY <1>2, <1>b DEF UpdateBook
  <2>2. /\ ResetSales(disk, b).orders = disk.orders
        /\ ResetSales(disk, b).bought = disk.bought
        /\ ResetSales(disk, b).sales = [disk.sales EXCEPT ![b] = 0]
    BY <1>b, ResetSalesFacts
  <2>3. Ledger!Rewrite(b)
    BY <2>1, <2>2 DEF Ledger!Rewrite
  <2> QED
    BY <2>3 DEF Ledger!Next
<1>3. CASE UNCHANGED disk
  BY <1>3 DEF Ledger!vars
<1>4. pc \in {"order", "items", "sales", "commit"} => inTx
  BY <1>a DEF PartOfOrder, InTransaction
<1>5. Commit \/ (\E b \in Book : UpdateBook(b)) \/ UNCHANGED disk
  BY <1>4 DEF Next, ApplyDiscount, GetCart, ClearCart, AddToCart, PutInCart,
     RemoveFromCart, CartOnly, StartCheckout, StartIn, SetActive, SaveOrder, SaveItem,
     BumpSales, Statement, NotifySale, ClearAfterCheckout, Crash, RollBack, vars
<1> QED
  BY <1>1, <1>2, <1>3, <1>5

-----------------------------------------------------------------------------
(* Theorems.                                                               *)

LEMMA SpecLedgerInv ==
  ASSUME ~ Faults
  PROVE  Spec => []LedgerInv
<1>1. LedgerInv /\ [Next]_vars => LedgerInv'
  BY PartStep, KeptStep, TypeStep, ShapeStep, CopiesStep DEF LedgerInv, CopiesInv
<1> QED
  BY InitLedgerInv, <1>1, PTL DEF Spec

\* When no statement fails, what a client was told to have purchased stays on
\* disk through every later crash.
THEOREM ConfirmedPurchasesLast ==
  ASSUME ~ Faults
  PROVE  Spec => []ConfirmedPurchasesDurable
<1>1. LedgerInv => ConfirmedPurchasesDurable
  BY DEF LedgerInv, OrderKept
<1> QED
  BY SpecLedgerInv, <1>1, PTL

\* When no statement fails, the database file only ever goes through atomic
\* purchases and rewrites, wherever the server dies.
THEOREM CheckoutIsAtomic ==
  ASSUME ~ Faults
  PROVE  Spec => PurchasesAreAtomic
<1>1. LedgerInv /\ [Next]_vars => [Ledger!Next]_Ledger!vars
  BY LedgerStep
<1> QED
  BY SpecLedgerInv, LedgerInit, <1>1, PTL DEF Spec, PurchasesAreAtomic, Ledger!Spec

-----------------------------------------------------------------------------
(* Counting.  A sum over all users is the number of rows of a table, which *)
(* a commit makes one larger for each book of the order.                   *)

\* The rows of a table are a finite set at every moment, whether or not there
\* are finitely many users.
RowsFinite == \A b \in Book : IsFiniteSet(ItemRows(b))

\* The books of a committed order whose publishers have still to be told.
Pending(b) == \/ pc = "clear" /\ b \in order
              \/ pc = "notify" /\ b \in todo

\* What was told and what is still to be told are backed by items.
NoticesDue ==
  \A b \in Book :
    notices[b] + (IF Pending(b) THEN 1 ELSE 0) <= SeededNotices[b] + ItemsOf(b)

\* A loop that has ended has set up the next one.
LoopReset == pc \in {"commit", "clear"} => todo = order

CountInv ==
  LedgerInv /\ RowsFinite /\ SalesMatchOrders /\ NoticesDue /\ LoopReset

LEMMA NewRow ==
  ASSUME NEW b \in Book, NEW u \in User, IsFiniteSet(ItemRows(b)),
         \A v \in User : disk.bought[v][b] \in Nat,
         \A v \in User :
           disk'.bought[v][b] = disk.bought[v][b] + IF v = u THEN 1 ELSE 0
  PROVE  IsFiniteSet(ItemRows(b)') /\ ItemsOf(b)' = ItemsOf(b) + 1
<1> DEFINE row == <<u, disk.bought[u][b] + 1>>
<1>1. \A x : x \in ItemRows(b) <=>
        \E v \in User : \E n \in 1 .. disk.bought[v][b] : x = <<v, n>>
  BY DEF ItemRows
<1>2. \A x : x \in ItemRows(b)' <=>
        \E v \in User : \E n \in 1 .. disk'.bought[v][b] : x = <<v, n>>
  BY DEF ItemRows
<1>3. /\ \A v \in User \ {u} : 1 .. disk'.bought[v][b] = 1 .. disk.bought[v][b]
      /\ 1 .. disk'.bought[u][b] = (1 .. disk.bought[u][b]) \cup {disk.bought[u][b] + 1}
      /\ disk.bought[u][b] + 1 \notin 1 .. disk.bought[u][b]
  OBVIOUS
<1>4. ItemRows(b)' = ItemRows(b) \cup {row}
  <2>1. ASSUME NEW v \in User, NEW n \in 1 .. disk'.bought[v][b]
        PROVE  <<v, n>> = row \/ n \in 1 .. disk.bought[v][b]
    BY <1>3
  <2>2. ASSUME NEW v \in User, NEW n \in 1 .. disk.bought[v][b]
        PROVE  n \in 1 .. disk'.bought[v][b]
    BY <1>3
  <2>3. disk.bought[u][b] + 1 \in 1 .. disk'.bought[u][b]
    BY <1>3
  <2> QED
    BY <1>1, <1>2, <2>1, <2>2, <2>3
<1>5. row \notin ItemRows(b)
  BY <1>1, <1>3
<1> HIDE DEF row
<1> QED
  BY <1>4, <1>5, FS_AddElement DEF ItemsOf

LEMMA SameRows ==
  ASSUME NEW b \in Book, \A v \in User : disk'.bought[v][b] = disk.bought[v][b]
  PROVE  ItemRows(b)' = ItemRows(b) /\ ItemsOf(b)' = ItemsOf(b)
<1>1. ItemRows(b)' = ItemRows(b)
  BY DEF ItemRows
<1> QED
  BY <1>1 DEF ItemsOf

LEMMA InitCountInv == Init => CountInv
<1> SUFFICES ASSUME Init PROVE CountInv
  OBVIOUS
<1>1. \A b \in Book :
        /\ disk.sales[b] = SeededSales[b] /\ SeededSales[b] \in Nat
        /\ notices[b] = SeededNotices[b] /\ SeededNotices[b] \in Nat
        /\ \A u \in User : disk.bought[u][b] = 0
  BY CheckoutAssumption DEF Init
<1>2. ASSUME NEW b \in Book PROVE ItemRows(b) = {} /\ ItemsOf(b) = 0
  <2>1. \A u \in User : 1 .. disk.bought[u][b] = {}
    BY <1>1
  <2>2. ItemRows(b) = {}
    BY <2>1 DEF ItemRows
  <2> QED
    BY <2>2, FS_EmptySet DEF ItemsOf
<1>3. RowsFinite /\ SalesMatchOrders
  <2>1. RowsFinite
    <3> SUFFICES ASSUME NEW b \in Book PROVE IsFiniteSet(ItemRows(b))
      BY DEF RowsFinite
    <3>1. ItemRows(b) = {}
      BY <1>2
    <3> QED
      BY <3>1, FS_EmptySet
  <2>2. SalesMatchOrders
    BY <1>1, <1>2 DEF SalesMatchOrders
  <2> QED
    BY <2>1, <2>2
<1>4. NoticesDue /\ LoopReset
  BY <1>1, <1>2 DEF Init, NoticesDue, Pending, LoopReset
<1> QED
  BY <1>3, <1>4, InitLedgerInv DEF CountInv

LEMMA LoopStep == LoopReset /\ [Next]_vars => LoopReset'
<1> USE DEF LoopReset
<1>1. ASSUME LoopReset, Commit PROVE LoopReset'
  BY <1>1 DEF Commit, Leave
<1>2. ASSUME LoopReset, NEW b \in Book, SaveItem(b) \/ BumpSales(b) PROVE LoopReset'
  BY <1>2 DEF SaveItem, BumpSales, Visit
<1>3. ASSUME LoopReset, UNCHANGED runVars PROVE LoopReset'
  BY <1>3 DEF runVars
<1>4. [Next]_vars =>
        \/ Commit \/ (\E b \in Book : SaveItem(b) \/ BumpSales(b))
        \/ UNCHANGED runVars \/ pc' \notin {"commit", "clear"}
  BY DEF Next, ApplyDiscount, GetCart, ClearCart, AddToCart, PutInCart, RemoveFromCart,
     CartOnly, StartCheckout, StartIn, UpdateBook, SetActive, BookOnly, SaveOrder,
     ClearAfterCheckout, NotifySale, Crash, Leave, vars
<1> QED
  BY <1>1, <1>2, <1>3, <1>4

\* Only a commit changes what the two counters are compared with; the update of
\* a book takes its own counter out of the comparison.
LEMMA CountStep ==
  ASSUME ~ Faults, CountInv, [Next]_vars
  PROVE  RowsFinite' /\ SalesMatchOrders' /\ NoticesDue'
<1> DEFINE Goal == RowsFinite' /\ SalesMatchOrders' /\ NoticesDue'
<1>a. LedgerInv /\ RowsFinite /\ SalesMatchOrders /\ NoticesDue /\ LoopReset
      /\ CopiesInv /\ PartOfOrder /\ TypeOK /\ RunShape
  BY DEF CountInv, LedgerInv, CopiesInv
<1>b. /\ db \in Tables /\ disk \in Tables
      /\ \A u \in User, b \in Book :
           db.bought[u][b] \in Nat /\ disk.bought[u][b] \in Nat
      /\ \A b \in Book : db.sales[b] \in Nat /\ disk.sales[b] \in Nat
      /\ order \subseteq Book /\ todo \subseteq order
      /\ pc # "idle" => customer \in User
      /\ notices \in [Book -> Nat]
      /\ \A b \in Book : SeededSales[b] \in Nat /\ SeededNotices[b] \in Nat
  BY <1>a, Typing, CheckoutAssumption DEF TypeOK
<1>c. \A b \in Book : ItemsOf(b) \in Nat
  BY <1>a, FS_CardinalityType DEF RowsFinite, ItemsOf
<1>1. CASE Commit
  <2>1. /\ pc = "commit" /\ pc' = "clear" /\ disk' = db /\ customer \in User
        /\ UNCHANGED <<customer, order, todo, notices, edited>> /\ todo = order
    BY <1>1, <1>a, <1>b DEF Commit, histVars, LoopReset
  <2>2. \A b \in Book :
          /\ db.sales[b] = disk.sales[b] + IF b \in order THEN 1 ELSE 0
          /\ \A u \in User : db.bought[u][b] =
               disk.bought[u][b] + IF u = customer /\ b \in order THEN 1 ELSE 0
    BY <2>1, <1>a DEF PartOfOrder, InTransaction, ItemWritten, SaleWritten
  <2>3. ASSUME NEW b \in order
        PROVE  /\ IsFiniteSet(ItemRows(b)') /\ ItemsOf(b)' = ItemsOf(b) + 1
               /\ disk'.sales[b] = disk.sales[b] + 1
    <3>1. b \in Book /\ IsFiniteSet(ItemRows(b))
      BY <1>a, <1>b DEF RowsFinite
    <3>2. \A v \in User : disk'.bought[v][b] =
             disk.bought[v][b] + IF v = customer THEN 1 ELSE 0
      BY <2>1, <2>2, <3>1
    <3>3. disk'.sales[b] = disk.sales[b] + 1
      BY <2>1, <2>2, <3>1
    <3> QED
      BY <2>1, <3>1, <3>2, <3>3, <1>b, NewRow
  <2>4. ASSUME NEW b \in Book \ order
        PROVE  /\ ItemRows(b)' = ItemRows(b) /\ ItemsOf(b)' = ItemsOf(b)
               /\ disk'.sales[b] = disk.sales[b]
    <3>1. \A v \in User : disk'.bought[v][b] = disk.bought[v][b]
      BY <2>1, <2>2, <1>b
    <3>2. disk'.sales[b] = disk.sales[b]
      BY <2>1, <2>2, <1>b
    <3> QED
      BY <3>1, <3>2, SameRows
  <2>5. RowsFinite'
    BY <2>3, <2>4, <1>a DEF RowsFinite
  <2>6. SalesMatchOrders'
    BY <2>1, <2>3, <2>4, <1>a, <1>b, <1>c DEF SalesMatchOrders
  <2>7. NoticesDue'
    <3>1. \A b \in Book : ~ Pending(b)
      BY <2>1 DEF Pending
    <3>2. \A b \in Book : Pending(b)' <=> b \in order
      BY <2>1 DEF Pending
    <3> QED
      BY <2>1, <2>3, <2>4, <3>1, <3>2, <1>a, <1>b, <1>c DEF NoticesDue
  <2> QED
    BY <2>5, <2>6, <2>7
<1>2. ASSUME UNCHANGED disk, edited \subseteq edited',
             \A b \in Book :
               notices'[b] + (IF Pending(b)' THEN 1 ELSE 0)
                 <= notices[b] + (IF Pending(b) THEN 1 ELSE 0)
      PROVE  Goal
  <2>1. \A b \in Book : ItemRows(b)' = ItemRows(b) /\ ItemsOf(b)' = ItemsOf(b)
    BY <1>2, SameRows
  <2>2. RowsFinite' /\ SalesMatchOrders'
    BY <1>2, <2>1, <1>a DEF RowsFinite, SalesMatchOrders
  <2>3. NoticesDue'
    <3> SUFFICES ASSUME NEW b \in Book
                 PROVE  notices'[b] + (IF Pending(b)' THEN 1 ELSE 0)
                          <= SeededNotices[b] + ItemsOf(b)
      BY <2>1 DEF NoticesDue
    <3>1. notices[b] + (IF Pending(b) THEN 1 ELSE 0) <= SeededNotices[b] + ItemsOf(b)
      BY <1>a DEF NoticesDue
    <3>2. notices'[b] \in Nat
      <4>1. TypeOK'
        BY <1>a, TypeStep
      <4> QED
        BY <4>1 DEF TypeOK
    <3> QED
      BY <1>2, <3>1, <3>2, <1>b, <1>c
  <2> QED
    BY <2>2, <2>3
<1>3. ASSUME NEW b \in Book, UpdateBook(b) PROVE Goal
  <2>1. disk' = ResetSales(disk, b) /\ edited' = edited \cup {b} /\ notices' = notices
        /\ \A c \in Book : Pending(c)' <=> Pending(c)
    BY <1>3, <1>a DEF UpdateBook, BookOnly, runVars, RunShape, Pending
  <2>2. disk'.bought = disk.bought /\ disk'.sales = [disk.sales EXCEPT ![b] = 0]
    BY <2>1, <1>b, ResetSalesFacts
  <2>3. \A c \in Book : ItemRows(c)' = ItemRows(c) /\ ItemsOf(c)' = ItemsOf(c)
    BY <2>2, SameRows
  <2>4. \A c \in Book \ {b} : disk'.sales[c] = disk.sales[c]
    BY <2>2, <1>b DEF Tables
  <2>5. RowsFinite' /\ SalesMatchOrders'
    BY <2>1, <2>3, <2>4, <1>a DEF RowsFinite, SalesMatchOrders
  <2>6. NoticesDue'
    BY <2>1, <2>3, <1>a DEF NoticesDue
  <2> QED
    BY <2>5, <2>6
<1>4. ASSUME NEW b \in Book, NotifySale(b) PROVE Goal
  <2>1. /\ pc = "notify" /\ b \in todo /\ UNCHANGED <<disk, edited>>
        /\ notices' = [notices EXCEPT ![b] = @ + 1]
        /\ \/ pc' = "idle"
           \/ pc' = "notify" /\ todo' = todo \ {b}
    BY <1>4 DEF NotifySale, Leave, histVars
  <2>2. \A c \in Book : notices'[c] = IF c = b THEN notices[c] + 1 ELSE notices[c]
    BY <2>1, <1>b
  <2>3. Pending(b) /\ ~ Pending(b)' /\ \A c \in Book : Pending(c)' => Pending(c)
    BY <2>1 DEF Pending
  <2>4. \A c \in Book :
          notices'[c] + (IF Pending(c)' THEN 1 ELSE 0)
            <= notices[c] + (IF Pending(c) THEN 1 ELSE 0)
    BY <2>2, <2>3, <1>b
  <2> QED
    BY <1>2, <2>1, <2>4
<1>5. CASE UNCHANGED disk /\ UNCHANGED <<notices, edited>>
           /\ (\A b \in Book : Pending(b)' => Pending(b))
  <2>1. \A c \in Book :
          notices'[c] + (IF Pending(c)' THEN 1 ELSE 0)
            <= notices[c] + (IF Pending(c) THEN 1 ELSE 0)
    BY <1>5, <1>b
  <2> QED
    BY <1>2, <1>5, <2>1
<1>6. CASE ClearAfterCheckout
  <2>1. UNCHANGED <<disk, notices, edited, todo>> /\ pc = "clear" /\ pc' = "notify"
        /\ todo = order
    BY <1>6, <1>a DEF ClearAfterCheckout, LoopReset
  <2>2. \A b \in Book : Pending(b)' => Pending(b)
    BY <2>1 DEF Pending
  <2> QED
    BY <1>5, <2>1, <2>2
<1>7. pc \in {"order", "items", "sales", "commit"} => inTx
  BY <1>a DEF PartOfOrder, InTransaction
<1>8. \/ Commit \/ ClearAfterCheckout
      \/ \E b \in Book : UpdateBook(b) \/ NotifySale(b)
      \/ /\ UNCHANGED <<disk, notices, edited>>
         /\ pc' \notin {"clear", "notify"} \/ UNCHANGED runVars
  BY <1>7 DEF Next, ApplyDiscount, GetCart, ClearCart, AddToCart, PutInCart,
     RemoveFromCart, CartOnly, StartCheckout, StartIn, SetActive, BookOnly, SaveOrder,
     SaveItem, BumpSales, Visit, Statement, Crash, Leave, RollBack, histVars, vars
<1>9. CASE /\ UNCHANGED <<disk, notices, edited>>
           /\ pc' \notin {"clear", "notify"} \/ UNCHANGED runVars
  <2>1. \A b \in Book : Pending(b)' => Pending(b)
    BY <1>9 DEF Pending, runVars
  <2> QED
    BY <1>5, <1>9, <2>1
<1> QED
  BY <1>1, <1>3, <1>4, <1>6, <1>8, <1>9

LEMMA SpecCountInv ==
  ASSUME ~ Faults
  PROVE  Spec => []CountInv
<1>1. CountInv /\ [Next]_vars => CountInv'
  <2> SUFFICES ASSUME CountInv, [Next]_vars PROVE CountInv'
    OBVIOUS
  <2>1. LedgerInv'
    BY PartStep, KeptStep, TypeStep, ShapeStep, CopiesStep
       DEF CountInv, LedgerInv, CopiesInv
  <2> QED
    BY <2>1, CountStep, LoopStep DEF CountInv
<1> QED
  BY InitCountInv, <1>1, PTL DEF Spec

\* When no statement fails, the sales counter of a book is on disk what it came
\* with and one for each of its order items at every moment, hence after every
\* crash, unless the publisher has rewritten the book.
THEOREM SalesAreCounted ==
  ASSUME ~ Faults
  PROVE  Spec => []SalesMatchOrders
<1>1. CountInv => SalesMatchOrders
  BY DEF CountInv
<1> QED
  BY <1>1, SpecCountInv, PTL

\* When no statement fails, publishers are told of no more sales than there are
\* order items, beside the notices that came with the sample data, wherever the
\* server dies between two notices.
THEOREM NoticesAreBacked ==
  ASSUME ~ Faults
  PROVE  Spec => []NoticesBacked
<1>1. CountInv => NoticesBacked
  <2> SUFFICES ASSUME CountInv, NEW b \in Book
               PROVE  notices[b] <= SeededNotices[b] + ItemsOf(b)
    BY DEF NoticesBacked
  <2>1. notices[b] \in Nat /\ ItemsOf(b) \in Nat /\ SeededNotices[b] \in Nat
    BY FS_CardinalityType, CheckoutAssumption
    DEF CountInv, LedgerInv, CopiesInv, TypeOK, RowsFinite, ItemsOf
  <2>2. notices[b] + (IF Pending(b) THEN 1 ELSE 0) <= SeededNotices[b] + ItemsOf(b)
    BY DEF CountInv, NoticesDue
  <2> QED
    BY <2>1, <2>2
<1> QED
  BY <1>1, SpecCountInv, PTL
=============================================================================
