------------------------------ MODULE Checkout ------------------------------
(***************************************************************************)
(* Carts and checkout: CartRequestHandler, CartRepositoryImpl,             *)
(* OrderRepositoryImpl::save and the columns of Books they touch.          *)
(*                                                                         *)
(* The server runs one handler at a time, so nothing interleaves with a    *)
(* checkout; what can happen between two of its statements is that the     *)
(* process dies.  handleCheckout is therefore one action per durable step  *)
(* and the other handlers, one durable effect each, are one action each.   *)
(*                                                                         *)
(* db is what the server's SQLite connection sees and disk what survives   *)
(* a crash; they differ only inside a transaction.                         *)
(***************************************************************************)
EXTENDS Naturals, FiniteSets

CONSTANTS
  User, Book,
  NoUser,      \* no checkout is running
  Seeded,      \* users whose Carts row comes with the sample data
  SeededSales,    \* Books.totalSales of the sample data, which has no orders
  SeededNotices,  \* its notifications of sales, per book
  Faults,      \* whether a statement of the checkout may fail (disk full, ...)
  MaxOrders    \* bound: orders one user may complete

ASSUME CheckoutAssumption ==
  /\ NoUser \notin User
  /\ Seeded \subseteq User
  /\ SeededSales \in [Book -> Nat] /\ SeededNotices \in [Book -> Nat]
  /\ Faults \in BOOLEAN
  /\ MaxOrders \in Nat

VARIABLES
  cartRow,    \* users with a row in Carts, to which CartItems refer
  cart,       \* CartItems: the books in each user's cart, quantity 1
  active,     \* Books.isActive
  db, disk,   \* Orders, OrderItems and Books.totalSales
  inTx,       \* a transaction is open
  pc,         \* the next durable step of the running checkout
  customer,   \* whose checkout runs
  order,      \* the books of the order built from the cart
  todo,       \* those the current loop of the handler has still to visit
  notices,    \* SaleRegistered notifications stored, per book
  confirmed,  \* history: books a user was told he has purchased
  leftover,   \* history: times a user's cart outlived the order made of it
  edited      \* history: books rewritten by UpdateBook

cartVars == <<cartRow, cart>>
runVars == <<pc, customer, order, todo, inTx>>
histVars == <<confirmed, leftover, edited>>
vars == <<cartVars, active, db, disk, runVars, notices, histVars>>

Tables == [orders : [User -> Nat], bought : [User -> [Book -> Nat]],
           sales : [Book -> Nat]]

Steps == {"idle", "order", "items", "sales", "commit", "clear", "notify"}

TypeOK ==
  /\ cartRow \subseteq User
  /\ cart \in [User -> SUBSET Book]
  /\ active \in [Book -> BOOLEAN]
  /\ db \in Tables
  /\ disk \in Tables
  /\ inTx \in BOOLEAN
  /\ pc \in Steps
  /\ customer \in User \cup {NoUser}
  /\ order \subseteq Book
  /\ todo \subseteq order
  /\ (pc = "idle") <=> (customer = NoUser)
  /\ notices \in [Book -> Nat]
  /\ confirmed \in [User -> SUBSET Book]
  /\ leftover \in [User -> Nat]
  /\ edited \subseteq Book

\* What runSeedScript leaves in a new database (sample_data.sql).
Init ==
  /\ cartRow = Seeded
  /\ cart = [u \in User |-> {}]
  /\ active = [b \in Book |-> TRUE]
  /\ db = [orders |-> [u \in User |-> 0],
           bought |-> [u \in User |-> [b \in Book |-> 0]],
           sales |-> SeededSales]
  /\ disk = db
  /\ inTx = FALSE
  /\ pc = "idle"
  /\ customer = NoUser
  /\ order = {}
  /\ todo = {}
  /\ notices = SeededNotices
  /\ confirmed = [u \in User |-> {}]
  /\ leftover = [u \in User |-> 0]
  /\ edited = {}

-----------------------------------------------------------------------------
(* The statements that write Orders, OrderItems and Books.totalSales.      *)

\* The tables t after INSERT INTO Orders, INSERT INTO OrderItems, and the two
\* UPDATEs of totalSales, by checkout and by UpdateBook.
AddOrder(t, u) ==
  [orders |-> [t.orders EXCEPT ![u] = @ + 1], bought |-> t.bought, sales |-> t.sales]

AddItem(t, u, b) ==
  [orders |-> t.orders, sales |-> t.sales,
   bought |-> [t.bought EXCEPT ![u] = [t.bought[u] EXCEPT ![b] = @ + 1]]]

AddSale(t, b) ==
  [orders |-> t.orders, bought |-> t.bought, sales |-> [t.sales EXCEPT ![b] = @ + 1]]

ResetSales(t, b) ==
  [orders |-> t.orders, bought |-> t.bought, sales |-> [t.sales EXCEPT ![b] = 0]]

-----------------------------------------------------------------------------
(* The handlers of the cart.                                               *)

\* getOrCreateForUser, which ends every one of them but ClearCart.
OpenCart(u) == cartRow' = cartRow \cup {u}

CartOnly == UNCHANGED <<active, db, disk, runVars, notices, histVars>>

\* hasUserPurchased: an item of a completed order.
Purchased(u, b) == db.bought[u][b] > 0

GetCart(u) ==
  /\ pc = "idle"
  /\ OpenCart(u)
  /\ UNCHANGED cart
  /\ CartOnly

\* addItem runs before getOrCreateForUser: without a Carts row the foreign
\* key refuses the item, which the handler does not notice.
PutInCart(u, b) ==
  /\ pc = "idle"
  /\ active[b]
  /\ cart' = IF u \in cartRow THEN [cart EXCEPT ![u] = @ \cup {b}] ELSE cart
  /\ OpenCart(u)
  /\ CartOnly

AddToCartAgain(u, b) == PutInCart(u, b)

AddToCart(u, b) == ~ Purchased(u, b) /\ PutInCart(u, b)

RemoveFromCart(u, b) ==
  /\ pc = "idle"
  /\ cart' = [cart EXCEPT ![u] = @ \ {b}]
  /\ OpenCart(u)
  /\ CartOnly

ClearCart(u) ==
  /\ pc = "idle"
  /\ cart' = [cart EXCEPT ![u] = {}]
  /\ UNCHANGED cartRow
  /\ CartOnly

\* handleApplyDiscount.  No command and no seed creates a DiscountCodes row,
\* so it ends in "cart is empty" or "invalid code", and both delete cartRepo,
\* a static object.  That is undefined; if the process dies of it, the next
\* one finds the same tables, nothing being in memory between two handlers.
ApplyDiscount(u) == GetCart(u)

-----------------------------------------------------------------------------
(* The handlers of the catalogue that a cart depends on.                   *)

BookOnly == UNCHANGED <<cartVars, runVars, notices, confirmed, leftover>>

\* Activate, deactivate and the soft delete of BookRepositoryImpl.
SetActive(b, on) ==
  /\ pc = "idle"
  /\ active' = [active EXCEPT ![b] = on]
  /\ UNCHANGED <<db, disk, edited>>
  /\ BookOnly

\* handleUpdateBook writes every column of a fresh Book: sales 0 and active.
UpdateBook(b) ==
  /\ pc = "idle"
  /\ active' = [active EXCEPT ![b] = TRUE]
  /\ db' = ResetSales(db, b)
  /\ disk' = db'
  /\ edited' = edited \cup {b}
  /\ BookOnly

-----------------------------------------------------------------------------
(* handleCheckout.                                                         *)

\* A statement outside a transaction is on disk when it returns.
Statement(tables) ==
  /\ db' = tables
  /\ disk' = IF inTx THEN disk ELSE tables

\* The running checkout leaves the handler.
Leave ==
  /\ pc' = "idle"
  /\ customer' = NoUser
  /\ order' = {}
  /\ todo' = {}
  /\ inTx' = FALSE

\* The loops over the items of the order, whose order the query leaves open.
Visit(b, next) ==
  /\ b \in todo
  /\ todo' = IF todo = {b} THEN order ELSE todo \ {b}
  /\ pc' = IF todo = {b} THEN next ELSE pc
  /\ UNCHANGED <<customer, order, inTx>>

\* Reads the cart and builds the order; neither looks again at who owns the
\* books nor whether they are still active.
StartIn(u, txStarted) ==
  /\ pc = "idle"
  /\ cart[u] # {}
  /\ db.orders[u] < MaxOrders
  /\ OpenCart(u)
  /\ pc' = "order"
  /\ customer' = u
  /\ order' = cart[u]
  /\ todo' = {}
  /\ inTx' \in txStarted
  /\ UNCHANGED <<cart, active, db, disk, notices, histVars>>

StartWithoutTransaction(u) == StartIn(u, {FALSE})

\* beginTransaction may fail, the checkout then goes on without.
StartCheckout(u) == StartIn(u, IF Faults THEN BOOLEAN ELSE {TRUE})

RollBack == db' = disk /\ UNCHANGED disk

\* The INSERT into Orders, the only statement whose failure is noticed.
SaveOrder ==
  /\ pc = "order"
  /\ \/ /\ Statement(AddOrder(db, customer))
        /\ pc' = "items"
        /\ todo' = order
        /\ UNCHANGED <<customer, order, inTx>>
     \/ /\ Faults
        /\ RollBack
        /\ Leave
  /\ UNCHANGED <<cartVars, active, notices, histVars>>

SaveItem(b) ==
  /\ pc = "items"
  /\ Visit(b, "sales")
  /\ \/ Statement(AddItem(db, customer, b))
     \/ Faults /\ UNCHANGED <<db, disk>>
  /\ UNCHANGED <<cartVars, active, notices, histVars>>

BumpSales(b) ==
  /\ pc = "sales"
  /\ Visit(b, "commit")
  /\ \/ Statement(AddSale(db, b))
     \/ Faults /\ UNCHANGED <<db, disk>>
  /\ UNCHANGED <<cartVars, active, notices, histVars>>

CommitForgotten ==
  /\ pc = "commit"
  /\ pc' = "clear"
  /\ UNCHANGED <<db, disk, inTx, customer, order, todo>>
  /\ UNCHANGED <<cartVars, active, notices, histVars>>

Commit ==
  /\ pc = "commit"
  /\ \/ /\ disk' = db
        /\ inTx' = FALSE
        /\ pc' = "clear"
        /\ UNCHANGED <<db, customer, order, todo>>
     \/ /\ Faults /\ inTx
        /\ RollBack
        /\ Leave
  /\ UNCHANGED <<cartVars, active, notices, histVars>>

\* Empties the cart and answers the client.
ClearAfterCheckout ==
  /\ pc = "clear"
  /\ pc' = "notify"
  /\ confirmed' = [confirmed EXCEPT ![customer] = @ \cup order]
  /\ \/ /\ cart' = [cart EXCEPT ![customer] = {}]
        /\ UNCHANGED leftover
     \/ /\ Faults
        /\ leftover' = [leftover EXCEPT ![customer] = @ + 1]
        /\ UNCHANGED cart
  /\ UNCHANGED <<cartRow, active, db, disk, inTx, customer, order, todo,
                 notices, edited>>

\* notifyNewSale for one book; after the last one the handler returns.
NotifySale(b) ==
  /\ pc = "notify"
  /\ b \in todo
  /\ \/ notices' = [notices EXCEPT ![b] = @ + 1]
     \/ Faults /\ UNCHANGED notices
  /\ IF todo = {b} THEN Leave
     ELSE todo' = todo \ {b} /\ UNCHANGED <<pc, customer, order, inTx>>
  /\ UNCHANGED <<cartVars, active, db, disk, histVars>>

\* The server dies and is started again: an open transaction is gone, the
\* cart is as it was.
OrderOnDisk == pc = "clear" \/ (pc \in {"items", "sales", "commit"} /\ ~ inTx)

Crash ==
  /\ RollBack
  /\ Leave
  /\ leftover' = IF OrderOnDisk THEN [leftover EXCEPT ![customer] = @ + 1]
                 ELSE leftover
  /\ UNCHANGED <<cartVars, active, notices, confirmed, edited>>

Next ==
  \/ \E u \in User :
       GetCart(u) \/ ClearCart(u) \/ ApplyDiscount(u) \/ StartCheckout(u)
  \/ \E u \in User, b \in Book : AddToCart(u, b) \/ RemoveFromCart(u, b)
  \/ \E b \in Book :
       \/ UpdateBook(b)
       \/ \E on \in BOOLEAN : SetActive(b, on)
       \/ SaveItem(b) \/ BumpSales(b) \/ NotifySale(b)
  \/ SaveOrder \/ Commit \/ ClearAfterCheckout \/ Crash

Spec == Init /\ [][Next]_vars

-----------------------------------------------------------------------------
(* Properties.                                                             *)

\* The rows of OrderItems for a book, and SELECT COUNT(*) over them.
ItemRows(b) == UNION {{<<u, n>> : n \in 1 .. disk.bought[u][b]} : u \in User}

ItemsOf(b) == Cardinality(ItemRows(b))

\* What is on disk is consistent at every moment, so whenever the process
\* dies: the sales counter of a book the publisher has not rewritten is what
\* the sample data gave it and one for every order item since.
SalesMatchOrders ==
  \A b \in Book \ edited : disk.sales[b] = SeededSales[b] + ItemsOf(b)

\* A user buys a book a second time only if a cart of his outlived its order,
\* and then at most once for every such cart.
DuplicatesOnlyFromLeftovers ==
  \A u \in User, b \in Book : disk.bought[u][b] <= 1 + leftover[u]

\* What a client was told to have purchased survives every later crash.
ConfirmedPurchasesDurable ==
  \A u \in User : \A b \in confirmed[u] : disk.bought[u][b] > 0

\* No publisher is told of a sale that did not happen, the notices of the
\* sample data aside.
NoticesBacked ==
  \A b \in Book : notices[b] <= SeededNotices[b] + ItemsOf(b)

\* Checkout implements the ledger on the database file.
Ledger == INSTANCE PurchaseLedger WITH
  orders <- disk.orders, bought <- disk.bought, sales <- disk.sales

PurchasesAreAtomic == Ledger!Spec
=============================================================================
